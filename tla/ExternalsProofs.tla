-------------------------- MODULE ExternalsProofs --------------------------
(***************************************************************************)
(* Theorems about the components that work with systems outside the        *)
(* database: Stripe (Subscription) and object storage (Documents), for any *)
(* number of workers, customers, subscriptions, events and documents, and  *)
(* whatever calls fail or are never made.                                  *)
(***************************************************************************)
EXTENDS Subscription, Documents, SequenceTheorems, TLAPS

USE DEF historyVars

(***************************************************************************)
(* Subscription: the order of Stripe's events.                             *)
(***************************************************************************)

Linked == Customers \cup {NoCustomer}
Held == LiveStatus \cup {"canceled"}

\* A handler works with an event that Stripe has sent.
ServedProperly == \A w \in Workers : request[w] # Idle => request[w].event \in DOMAIN sent

\* Only what Stripe has sent is recorded.
SentProperly == recorded \subseteq DOMAIN sent

\* An event is served by one worker, and only until its handler has committed.
OneServer ==
    /\ \A w \in Workers : request[w].event \notin recorded
    /\ \A w, v \in Workers : request[w].event = request[v].event =>
           w = v \/ request[w] = Idle

\* What locks a business out, and what it has met if it was inactive when read.
Reason ==
    \/ row.trialExpired
    \/ ~legacy /\ \E e \in recorded : sent[e].kind = "deleted"
ReadForAReason == \A w \in Workers : ~request[w].read.active => Reason

TInv == TypeOK /\ ServedProperly /\ SentProperly
IInv == OneServer /\ ExactlyOnce /\ LockedOutForAReason /\ ReadForAReason

\* A row by its fields.
LEMMA RowOf ==
    ASSUME NEW a \in BOOLEAN, NEW t \in BOOLEAN, NEW s \in Status, NEW l \in 0..MaxSubs,
           NEW c \in Linked, NEW new,
           new = [active |-> a, trialExpired |-> t, status |-> s, sub |-> l, customer |-> c]
    PROVE  /\ new \in Row
           /\ new.active = a /\ new.trialExpired = t /\ new.status = s
           /\ new.sub = l /\ new.customer = c
BY DEF Row, Linked

\* The fields of a row and of an event, each with its range.
LEMMA FieldsOf ==
    ASSUME NEW r \in Row, NEW e \in Event
    PROVE  /\ r.active \in BOOLEAN /\ r.trialExpired \in BOOLEAN
           /\ r.status \in Status /\ r.sub \in 0..MaxSubs /\ r.customer \in Linked
           /\ e.kind \in {"checkout", "stray", "updated", "deleted", "paid"}
           /\ e.sub \in 0..MaxSubs /\ e.status \in Status /\ e.customer \in Linked
BY DEF Row, Event, Linked

\* The status a checkout and a deletion write is one a row can have.
LEMMA Written == {"", "active", "canceled"} \subseteq Status /\ LiveStatus \subseteq Status
BY DEF Status, LiveStatus

\* What a handler does to a row, field by field and by the kind of its event.
SavedAs(e, read, now, new) ==
    /\ new \in Row /\ new.trialExpired = now.trialExpired
    /\ new.active = CASE e.kind = "deleted" -> legacy /\ read.active
                      [] e.kind = "updated" -> now.active
                      [] OTHER -> TRUE
    /\ new.status = CASE e.kind = "checkout" -> "active"
                      [] e.kind = "updated"  -> e.status
                      [] e.kind = "deleted"  -> "canceled"
                      [] OTHER -> IF read.status = "past_due" THEN "active" ELSE read.status
    /\ new.sub = IF e.kind # "checkout" THEN now.sub
                 ELSE IF e.sub = 0 THEN read.sub ELSE e.sub
    /\ new.customer = IF e.kind # "checkout" THEN now.customer
                      ELSE IF e.customer = NoCustomer THEN read.customer ELSE e.customer
    /\ e.kind \in {"checkout", "updated", "deleted", "paid"}

\* A handler's save keeps the row typed and does that.
LEMMA SavedFields ==
    ASSUME NEW e \in Event, NEW read \in Row, NEW now \in Row, legacy \in BOOLEAN,
           Resolves(e, read)
    PROVE  SavedAs(e, read, now, Saved(e, read, now))
<1> DEFINE new == Saved(e, read, now)
<1>0. new = Saved(e, read, now)
  OBVIOUS
<1> HIDE DEF new
<1> SUFFICES SavedAs(e, read, now, new)
  BY DEF new
<1> USE <1>0 DEF SavedAs
<1>1. /\ "active" \in Status /\ "canceled" \in Status
      /\ e.sub \in 0..MaxSubs /\ e.status \in Status /\ e.customer \in Linked
      /\ read.active \in BOOLEAN /\ read.status \in Status
      /\ read.sub \in 0..MaxSubs /\ read.customer \in Linked
      /\ now.active \in BOOLEAN /\ now.trialExpired \in BOOLEAN /\ now.status \in Status
      /\ now.sub \in 0..MaxSubs /\ now.customer \in Linked
  BY FieldsOf, Written
<1>2. CASE e.kind = "checkout"
  <2> DEFINE a == TRUE
             l == IF e.sub = 0 THEN read.sub ELSE e.sub
             c == IF e.customer = NoCustomer THEN read.customer ELSE e.customer
  <2>1. new = [active |-> a, trialExpired |-> now.trialExpired, status |-> "active",
               sub |-> l, customer |-> c]
    BY <1>2 DEF Saved, Row
  <2>2. a \in BOOLEAN /\ l \in 0..MaxSubs /\ c \in Linked
    BY <1>1
  <2>4. a
    OBVIOUS
  <2> HIDE DEF a, l, c
  <2>3. /\ new \in Row /\ new.active = a /\ new.trialExpired = now.trialExpired
        /\ new.status = "active" /\ new.sub = l /\ new.customer = c
    BY <1>1, <2>1, <2>2, RowOf
  <2> QED BY <1>2, <2>3, <2>4 DEF l, c
<1>3. CASE e.kind = "updated"
  <2>1. new = [active |-> now.active, trialExpired |-> now.trialExpired,
               status |-> e.status, sub |-> now.sub, customer |-> now.customer]
    BY <1>3 DEF Saved, Row
  <2>2. /\ new \in Row /\ new.active = now.active /\ new.trialExpired = now.trialExpired
        /\ new.status = e.status /\ new.sub = now.sub /\ new.customer = now.customer
    BY <1>1, <2>1, RowOf
  <2> QED BY <1>3, <2>2
<1>4. CASE e.kind = "deleted"
  <2> DEFINE a == legacy /\ read.active
  <2>1. new = [active |-> a, trialExpired |-> now.trialExpired,
               status |-> "canceled", sub |-> now.sub, customer |-> now.customer]
    BY <1>4 DEF Saved, Row
  <2>2. a \in BOOLEAN
    BY <1>1
  <2>3. /\ new \in Row /\ new.active = a /\ new.trialExpired = now.trialExpired
        /\ new.status = "canceled" /\ new.sub = now.sub /\ new.customer = now.customer
    <3> HIDE DEF a
    <3> QED BY <1>1, <2>1, <2>2, RowOf
  <2> QED BY <1>4, <2>3
<1>5. CASE e.kind = "paid"
  <2> DEFINE s == IF read.status = "past_due" THEN "active" ELSE read.status
             a == TRUE
  <2>1. new = [active |-> a, trialExpired |-> now.trialExpired, status |-> s,
               sub |-> now.sub, customer |-> now.customer]
    BY <1>5 DEF Saved, Row
  <2>2. a \in BOOLEAN /\ s \in Status
    BY <1>1
  <2>4. a
    OBVIOUS
  <2> HIDE DEF a, s
  <2>3. /\ new \in Row /\ new.active = a /\ new.trialExpired = now.trialExpired
        /\ new.status = s /\ new.sub = now.sub /\ new.customer = now.customer
    BY <1>1, <2>1, <2>2, RowOf
  <2> QED BY <1>5, <2>3, <2>4 DEF s
<1> QED
  BY <1>2, <1>3, <1>4, <1>5 DEF Resolves

\* An event by its fields.
LEMMA EventIs ==
    ASSUME NEW k \in {"checkout", "stray", "updated", "deleted", "paid"}, NEW i \in 0..MaxSubs,
           NEW c \in Linked, NEW s \in Status
    PROVE  EventOf(k, i, c, s) \in Event
BY DEF EventOf, Event, Linked

\* One more subscription, within the bound.
LEMMA Opened ==
    ASSUME stripe \in Seq(Held), Len(stripe) < MaxSubs, NEW s \in Held
    PROVE  /\ Append(stripe, s) \in Seq(Held) /\ Len(Append(stripe, s)) = Len(stripe) + 1
           /\ Len(stripe) + 1 \in 0..MaxSubs /\ Len(stripe) + 1 # 0
           /\ Len(Append(stripe, s)) <= MaxSubs
           /\ Append(stripe, s)[Len(stripe) + 1] = s
<1>1. Len(stripe) \in Nat
  BY LenProperties
<1>2. Len(stripe) + 1 \in 0..MaxSubs /\ Len(stripe) + 1 # 0 /\ Len(stripe) + 1 <= MaxSubs
  BY <1>1, BoundsAssumption
<1> QED BY <1>2, AppendProperties

\* A subscription Stripe holds, and another status of it.
LEMMA Changed ==
    ASSUME stripe \in Seq(Held), Len(stripe) <= MaxSubs, NEW i \in DOMAIN stripe, NEW s \in Held,
           NEW new, new = [stripe EXCEPT ![i] = s]
    PROVE  /\ new \in Seq(Held) /\ Len(new) = Len(stripe)
           /\ i \in 0..MaxSubs /\ i # 0
           /\ \A j \in DOMAIN stripe : new[j] = IF j = i THEN s ELSE stripe[j]
<1>1. DOMAIN stripe = 1..Len(stripe) /\ Len(stripe) \in Nat
  BY LenProperties
<1>2. i \in 0..MaxSubs /\ i # 0
  BY <1>1, BoundsAssumption
<1> QED BY <1>1, <1>2, ExceptSeq

\* Stripe's steps: each sends one event and keeps what Stripe holds typed.
LEMMA Sends ==
    ASSUME stripe \in Seq(Held), Len(stripe) <= MaxSubs, StripeStep
    PROVE  /\ stripe' \in Seq(Held) /\ Len(stripe') <= MaxSubs
           /\ \E e \in Event : Send(e)
<1>1. /\ LiveStatus \subseteq Status /\ {"", "canceled"} \subseteq Status
      /\ LiveStatus \subseteq Held /\ "canceled" \in Held /\ OpeningStatus \subseteq Held
      /\ Customers \subseteq Linked /\ NoCustomer \in Linked /\ OpeningStatus \subseteq Status
  BY Written, OpeningAssumption DEF Held, Linked
<1>0. 0 \in 0..MaxSubs
  BY BoundsAssumption
<1>2. ASSUME NEW c \in Customers, NEW s \in OpeningStatus, Checkout(c, s)
      PROVE  stripe' \in Seq(Held) /\ Len(stripe') <= MaxSubs /\ \E e \in Event : Send(e)
  <2>1. /\ stripe' \in Seq(Held) /\ Len(stripe') <= MaxSubs
        /\ Len(stripe) + 1 \in 0..MaxSubs
    BY <1>1, <1>2, Opened DEF Checkout
  <2>2. EventOf("checkout", Len(stripe) + 1, c, s) \in Event
    BY <1>1, <2>1, EventIs
  <2> QED BY <1>2, <2>1, <2>2 DEF Checkout
<1>3. ASSUME NEW c \in Customers, InvoicePaid(c)
      PROVE  UNCHANGED stripe /\ \E e \in Event : Send(e)
  <2>1. EventOf("paid", 0, c, "") \in Event
    BY <1>0, <1>1, EventIs
  <2> QED BY <1>3, <2>1 DEF InvoicePaid
<1>4. ASSUME NEW c \in Linked, PaymentCheckout(c)
      PROVE  UNCHANGED stripe /\ \E e \in Event : Send(e)
  <2>1. EventOf("checkout", 0, c, "") \in Event
    BY <1>0, <1>1, EventIs
  <2> QED BY <1>4, <2>1 DEF PaymentCheckout
<1>5. ASSUME StrayCheckout
      PROVE  UNCHANGED stripe /\ \E e \in Event : Send(e)
  <2>1. EventOf("stray", 0, NoCustomer, "") \in Event
    BY <1>0, <1>1, EventIs
  <2> QED BY <1>5, <2>1 DEF StrayCheckout
<1>6. ASSUME NEW i \in DOMAIN stripe, SubscriptionEnds(i)
      PROVE  stripe' \in Seq(Held) /\ Len(stripe') <= MaxSubs /\ \E e \in Event : Send(e)
  <2>1. stripe' \in Seq(Held) /\ Len(stripe') <= MaxSubs /\ i \in 0..MaxSubs
    BY <1>1, <1>6, Changed DEF SubscriptionEnds
  <2>2. EventOf("deleted", i, NoCustomer, "canceled") \in Event
    BY <1>1, <2>1, EventIs
  <2> QED BY <1>6, <2>1, <2>2 DEF SubscriptionEnds
<1>7. ASSUME NEW i \in DOMAIN stripe, NEW s \in LiveStatus, StatusChanges(i, s)
      PROVE  stripe' \in Seq(Held) /\ Len(stripe') <= MaxSubs /\ \E e \in Event : Send(e)
  <2>1. stripe' \in Seq(Held) /\ Len(stripe') <= MaxSubs /\ i \in 0..MaxSubs
    BY <1>1, <1>7, Changed DEF StatusChanges
  <2>2. EventOf("updated", i, NoCustomer, s) \in Event
    BY <1>1, <2>1, EventIs
  <2> QED BY <1>7, <2>1, <2>2 DEF StatusChanges
<1> QED
  BY <1>2, <1>3, <1>4, <1>5, <1>6, <1>7 DEF StripeStep, Linked

\* What Stripe sends is appended: earlier events keep their place.
LEMMA Sending ==
    ASSUME TypeOK, StripeStep
    PROVE  /\ stripe' \in Seq(Held) /\ Len(stripe') <= MaxSubs
           /\ sent' \in Seq(Event) /\ Len(sent') <= MaxEvents
           /\ DOMAIN sent \subseteq DOMAIN sent'
           /\ \A i \in DOMAIN sent : sent'[i] = sent[i]
           /\ UNCHANGED <<row, legacy, trialEnded, recorded, request, task, historyVars>>
<1>0. stripe \in Seq(Held) /\ Len(stripe) <= MaxSubs /\ sent \in Seq(Event)
  BY DEF TypeOK, Held
<1>1. stripe' \in Seq(Held) /\ Len(stripe') <= MaxSubs /\ \E e \in Event : Send(e)
  BY <1>0, Sends
<1>2. PICK e \in Event : Send(e)
  BY <1>1
<1>3. sent' = Append(sent, e) /\ Len(sent) < MaxEvents
  BY <1>2 DEF Send
<1>4. /\ sent' \in Seq(Event) /\ Len(sent') = Len(sent) + 1
      /\ \A i \in 1..Len(sent) : sent'[i] = sent[i]
  BY <1>0, <1>3, AppendProperties
<1>5. DOMAIN sent = 1..Len(sent) /\ DOMAIN sent' = 1..Len(sent') /\ Len(sent) \in Nat
  BY <1>0, <1>4, LenProperties
<1>6. Len(sent') <= MaxEvents /\ DOMAIN sent \subseteq DOMAIN sent'
  BY <1>3, <1>4, <1>5, BoundsAssumption
<1> QED
  BY <1>1, <1>2, <1>4, <1>5, <1>6 DEF Send

\* What a handler commits, whichever of the rows it read.
LEMMA FinishSaves ==
    ASSUME TInv, NEW w \in Workers, Finish(w)
    PROVE  /\ row' \in Row /\ assumed' \in BOOLEAN
           /\ row'.trialExpired = row.trialExpired
           /\ row.active /\ ~row'.active =>
                /\ sent[request[w].event].kind = "deleted" /\ row'.status = "canceled"
                /\ legacy => ~request[w].read.active
<1> DEFINE e == sent[request[w].event]
           read == request[w].read
<1>1. e \in Event /\ read \in Row /\ row \in Row /\ legacy \in BOOLEAN /\ assumed \in BOOLEAN
  BY DEF TInv, TypeOK, Finish, ServedProperly
<1>2. /\ row' = IF Resolves(e, read) THEN Saved(e, read, row) ELSE row
      /\ assumed' = IF Resolves(e, read) THEN Assumes(e, read) ELSE assumed
  BY DEF Finish
<1>3. row.active \in BOOLEAN /\ read.active \in BOOLEAN
      /\ e.kind \in {"checkout", "stray", "updated", "deleted", "paid"}
  BY <1>1, FieldsOf
<1>4. assumed' \in BOOLEAN
  BY <1>1, <1>2 DEF Assumes
<1> HIDE DEF e, read
<1>5. CASE Resolves(e, read)
  <2>1. row' = Saved(e, read, row)
    BY <1>2, <1>5
  <2>5. SavedAs(e, read, row, row')
    BY <1>1, <1>5, <2>1, SavedFields
  <2>2. /\ row' \in Row /\ row'.trialExpired = row.trialExpired
        /\ row'.active = CASE e.kind = "deleted" -> legacy /\ read.active
                           [] e.kind = "updated" -> row.active
                           [] OTHER -> TRUE
    BY <2>5 DEF SavedAs
  <2>3. e.kind = "deleted" => row'.status = "canceled"
    BY <2>5 DEF SavedAs
  <2>4. row.active /\ ~row'.active => e.kind = "deleted" /\ (legacy => ~read.active)
    <3>1. CASE e.kind = "deleted"
      BY <1>3, <2>2, <3>1, Zenon
    <3>2. CASE e.kind = "updated"
      BY <1>3, <2>2, <3>2, Zenon
    <3>3. CASE e.kind \notin {"deleted", "updated"}
      BY <1>3, <2>2, <3>3
    <3> QED BY <3>1, <3>2, <3>3
  <2> QED BY <1>4, <2>2, <2>3, <2>4 DEF e, read
<1>6. CASE ~Resolves(e, read)
  BY <1>1, <1>2, <1>4, <1>6
<1> QED BY <1>5, <1>6

\* Each statement of the task writes a row, and none touches the subscription.
LEMMA TaskWrites ==
    ASSUME TypeOK, TaskStep
    PROVE  /\ row' \in Row /\ row'.status = row.status
           /\ row'.sub = row.sub /\ row'.customer = row.customer
           /\ row.trialExpired => row'.trialExpired
           /\ row.active /\ ~row'.active =>
                /\ ~(row.status \in {"active", "trialing"}) /\ row'.trialExpired
                /\ legacy => ~row.trialExpired
           /\ task' \in {"expire", "reactivate", "deactivate"}
           /\ UNCHANGED <<legacy, trialEnded, stripe, webhookVars>>
<1> USE DEF TypeOK, Row
<1>1. CASE Expire
  BY <1>1 DEF Expire, Update, TrialLapses, Paying
<1>2. CASE Reactivate
  BY <1>2 DEF Reactivate, Update
<1>3. CASE Deactivate
  BY <1>3 DEF Deactivate, Update, LapsedAfterTrial, Paying
<1>4. CASE KillTask
  BY <1>4 DEF KillTask
<1> QED BY <1>1, <1>2, <1>3, <1>4 DEF TaskStep

\* The first row is typed and nothing is served.
LEMMA TypesInit == Init => TInv
<1> SUFFICES ASSUME Init PROVE TInv
  OBVIOUS
<1>1. row \in Row
  <2>1. "" \in Status
    BY Written
  <2>2. 0 \in 0..MaxSubs
    BY BoundsAssumption
  <2> QED BY <2>1, <2>2 DEF Init, NewRow, Row
<1>2. stripe \in Seq(Held) /\ Len(stripe) <= MaxSubs /\ sent \in Seq(Event) /\ Len(sent) <= MaxEvents
  <2>1. stripe = <<>> /\ sent = <<>> /\ 0 <= MaxSubs /\ 0 <= MaxEvents
    BY BoundsAssumption DEF Init
  <2> QED BY <2>1, EmptySeq
<1>3. TypeOK
  BY <1>1, <1>2 DEF Init, TypeOK, Held
<1> QED BY <1>3 DEF TInv, Init, ServedProperly, SentProperly

\* Every step keeps the state typed and what a handler works with proper.
LEMMA TypesStep == TInv /\ [Next]_vars => TInv'
<1> SUFFICES ASSUME TInv, [Next]_vars PROVE TInv'
  OBVIOUS
<1> USE DEF TInv
<1>1. CASE UNCHANGED vars
  BY <1>1 DEF vars, TypeOK, ServedProperly, SentProperly
<1>2. CASE StripeStep
  <2>1. TypeOK'
    BY <1>2, Sending DEF TypeOK, Held
  <2>2. ServedProperly' /\ SentProperly'
    BY <1>2, Sending DEF ServedProperly, SentProperly
  <2> QED BY <2>1, <2>2
<1>3. CASE TrialEnds
  BY <1>3 DEF TrialEnds, webhookVars, TypeOK, ServedProperly, SentProperly
<1>4. CASE TaskStep
  <2>1. /\ row' \in Row /\ task' \in {"expire", "reactivate", "deactivate"}
        /\ UNCHANGED <<legacy, trialEnded, stripe, sent, recorded, request, historyVars>>
    BY <1>4, TaskWrites DEF webhookVars
  <2>2. TypeOK'
    BY <2>1 DEF TypeOK
  <2>3. ServedProperly' /\ SentProperly'
    BY <2>1 DEF ServedProperly, SentProperly
  <2> QED BY <2>2, <2>3
<1>5. ASSUME NEW w \in Workers, NEW e \in Events, Begin(w, e) PROVE TInv'
  <2>1. [event |-> e, read |-> row] \in [event : Events, read : Row]
    BY DEF TypeOK
  <2>2. TypeOK'
    BY <1>5, <2>1 DEF Begin, TypeOK
  <2>3. ServedProperly' /\ SentProperly'
    BY <1>5 DEF Begin, TypeOK, ServedProperly, SentProperly
  <2> QED BY <2>2, <2>3
<1>6. ASSUME NEW w \in Workers, Finish(w) PROVE TInv'
  <2>1. row' \in Row /\ assumed' \in BOOLEAN
    BY <1>6, FinishSaves
  <2>2. /\ request[w].event \in Events /\ request[w].event \in DOMAIN sent
        /\ recorded' = recorded \cup {request[w].event}
        /\ applied' = [applied EXCEPT ![request[w].event] = @ + 1]
        /\ request' = [request EXCEPT ![w] = Idle]
        /\ UNCHANGED <<legacy, trialEnded, stripe, sent, task, overtaken>>
    BY <1>6 DEF Finish, TypeOK, ServedProperly
  <2>3. applied' \in [Events -> Nat]
    BY <2>2 DEF TypeOK
  <2>4. request' \in [Workers -> [event : Events, read : Row] \cup {Idle}]
    BY <2>2 DEF TypeOK
  <2>5. TypeOK'
    BY <2>1, <2>2, <2>3, <2>4 DEF TypeOK
  <2>6. ServedProperly' /\ SentProperly'
    BY <2>2 DEF TypeOK, ServedProperly, SentProperly
  <2> QED BY <2>5, <2>6
<1>7. ASSUME NEW w \in Workers, Abort(w) PROVE TInv'
  BY <1>7 DEF Abort, TypeOK, ServedProperly, SentProperly
<1> QED BY <1>1, <1>2, <1>3, <1>4, <1>5, <1>6, <1>7 DEF Next, WebhookStep

\* The business's row, Stripe's subscriptions and events stay typed.
THEOREM TypeCorrect == Spec => []TypeOK
<1>1. TInv => TypeOK
  BY DEF TInv
<1> QED BY <1>1, TypesInit, TypesStep, PTL DEF Spec

\* A reason to be locked out is never lost, and a step that locks out has one.
LEMMA ReasonsStay ==
    ASSUME TInv, ReadForAReason, LockedOutForAReason, [Next]_vars
    PROVE  /\ Reason => Reason'
           /\ row.active /\ ~row'.active => Reason'
<1> USE DEF TInv, Reason
<1>1. CASE UNCHANGED vars
  BY <1>1 DEF vars
<1>2. CASE StripeStep
  BY <1>2, Sending DEF SentProperly
<1>3. CASE TrialEnds
  BY <1>3 DEF TrialEnds, webhookVars
<1>4. CASE TaskStep
  BY <1>4, TaskWrites DEF webhookVars
<1>5. ASSUME NEW w \in Workers, NEW e \in Events, Begin(w, e)
      PROVE  (Reason => Reason') /\ row' = row
  BY <1>5 DEF Begin
<1>6. ASSUME NEW w \in Workers, Finish(w)
      PROVE  (Reason => Reason') /\ (row.active /\ ~row'.active => Reason')
  <2>1. /\ recorded' = recorded \cup {request[w].event}
        /\ UNCHANGED <<legacy, sent>>
    BY <1>6 DEF Finish
  <2>2. /\ row'.trialExpired = row.trialExpired
        /\ row.active /\ ~row'.active =>
             sent[request[w].event].kind = "deleted" /\ (legacy => ~request[w].read.active)
    BY <1>6, FinishSaves
  <2>3. Reason => Reason'
    BY <2>1, <2>2
  <2>4. ASSUME row.active, ~row'.active PROVE Reason'
    <3>1. CASE legacy
      BY <2>2, <2>3, <2>4, <3>1 DEF ReadForAReason
    <3>2. CASE ~legacy
      BY <2>1, <2>2, <2>4, <3>2
    <3> QED BY <3>1, <3>2
  <2> QED BY <2>3, <2>4
<1>7. ASSUME NEW w \in Workers, Abort(w)
      PROVE  (Reason => Reason') /\ row' = row
  BY <1>7 DEF Abort
<1> QED BY <1>1, <1>2, <1>3, <1>4, <1>5, <1>6, <1>7 DEF Next, WebhookStep

\* A row that has no reason to be inactive is active, now and when it was read.
LEMMA ReasonsStep ==
    ASSUME TInv, ReadForAReason, LockedOutForAReason, [Next]_vars
    PROVE  ReadForAReason' /\ LockedOutForAReason'
<1>1. /\ Reason => Reason'
      /\ row.active /\ ~row'.active => Reason'
  BY ReasonsStay
<1>2. LockedOutForAReason <=> (~row.active => Reason)
  BY DEF LockedOutForAReason, Reason
<1>3. LockedOutForAReason' <=> (~row'.active => Reason')
  BY DEF LockedOutForAReason, Reason
<1>4. LockedOutForAReason'
  BY <1>1, <1>2, <1>3
<1> DEFINE Reads == \A w \in Workers : \/ request'[w].read = request[w].read
                                      \/ request'[w].read = row
                                      \/ request'[w] = Idle
<1>5. Reads
  <2>1. ASSUME NEW v \in Workers, NEW e \in Events, Begin(v, e) PROVE Reads
    BY <2>1 DEF Begin, TInv, TypeOK
  <2>2. ASSUME NEW v \in Workers, Finish(v) \/ Abort(v) PROVE Reads
    BY <2>2 DEF Finish, Abort, TInv, TypeOK
  <2>3. CASE request' = request
    BY <2>3
  <2>4. StripeStep => request' = request
    BY Sending DEF TInv
  <2>5. TaskStep => request' = request
    BY TaskWrites DEF TInv, webhookVars
  <2>6. TrialEnds \/ UNCHANGED vars => request' = request
    BY DEF TrialEnds, webhookVars, vars
  <2> QED BY <2>1, <2>2, <2>3, <2>4, <2>5, <2>6 DEF Next, WebhookStep
<1>6. Idle.read.active
  BY DEF Idle, NewRow
<1>7. ReadForAReason'
  <2> SUFFICES ASSUME NEW w \in Workers, ~request'[w].read.active PROVE Reason'
    BY DEF ReadForAReason
  <2> QED BY <1>1, <1>2, <1>5, <1>6 DEF ReadForAReason
<1> QED BY <1>4, <1>7

\* Every step keeps an event with one worker and its effect single.
LEMMA HandledOnce == Spec => []IInv
<1>1. Init => IInv
  <2> SUFFICES ASSUME Init PROVE IInv
    OBVIOUS
  <2>1. OneServer /\ ExactlyOnce
    BY DEF Init, OneServer, ExactlyOnce
  <2>2. LockedOutForAReason /\ ReadForAReason
    BY DEF Init, LockedOutForAReason, ReadForAReason, NewRow, Idle
  <2> QED BY <2>1, <2>2 DEF IInv
<1>2. IInv /\ TInv /\ [Next]_vars => IInv'
  <2> SUFFICES ASSUME IInv, TInv, [Next]_vars PROVE IInv'
    OBVIOUS
  <2>0. ReadForAReason' /\ LockedOutForAReason'
    BY ReasonsStep DEF IInv
  <2> SUFFICES OneServer' /\ ExactlyOnce'
    BY <2>0 DEF IInv
  <2> USE DEF IInv
  <2>1. CASE UNCHANGED vars
    BY <2>1 DEF vars, OneServer, ExactlyOnce
  <2>2. CASE StripeStep
    <3>1. UNCHANGED <<recorded, request, historyVars>>
      BY <2>2, Sending DEF TInv
    <3> QED BY <3>1 DEF OneServer, ExactlyOnce
  <2>3. CASE TrialEnds
    BY <2>3 DEF TrialEnds, webhookVars, OneServer, ExactlyOnce
  <2>4. CASE TaskStep
    <3>1. UNCHANGED <<recorded, request, historyVars>>
      BY <2>4, TaskWrites DEF TInv, webhookVars
    <3> QED BY <3>1 DEF OneServer, ExactlyOnce
  <2>5. ASSUME NEW w \in Workers, NEW e \in Events, Begin(w, e) PROVE OneServer' /\ ExactlyOnce'
    <3>1. OneServer'
      BY <2>5 DEF Begin, Insertable, OneServer, TInv, TypeOK
    <3> QED BY <2>5, <3>1 DEF Begin, ExactlyOnce
  <2>6. ASSUME NEW w \in Workers, Finish(w) PROVE OneServer' /\ ExactlyOnce'
    <3> DEFINE id == request[w].event
    <3>1. /\ id \in Events /\ id \in DOMAIN sent /\ recorded' = recorded \cup {id}
          /\ applied' = [applied EXCEPT ![id] = @ + 1]
          /\ request' = [request EXCEPT ![w] = Idle] /\ sent' = sent
      BY <2>6 DEF Finish, TInv, TypeOK, ServedProperly
    <3>2. OneServer'
      BY <3>1, BoundsAssumption DEF OneServer, TInv, TypeOK, Idle, Events
    <3>3. ExactlyOnce'
      BY <3>1 DEF OneServer, ExactlyOnce, TInv, TypeOK
    <3> QED BY <3>2, <3>3
  <2>7. ASSUME NEW w \in Workers, Abort(w) PROVE OneServer' /\ ExactlyOnce'
    <3>1. OneServer'
      BY <2>7, BoundsAssumption DEF Abort, OneServer, TInv, TypeOK, Idle, Events
    <3> QED BY <2>7, <3>1 DEF Abort, ExactlyOnce
  <2> QED BY <2>1, <2>2, <2>3, <2>4, <2>5, <2>6, <2>7 DEF Next, WebhookStep
<1> QED BY <1>1, <1>2, TypesInit, TypesStep, PTL DEF Spec

\* Redelivery, concurrent deliveries and failed attempts included, an event's
\* handler commits exactly once; and who is locked out has lost a trial or,
\* unless it is a legacy business, a subscription.
THEOREM EventsAppliedOnce == Spec => [](ExactlyOnce /\ LockedOutForAReason)
<1>1. IInv => ExactlyOnce /\ LockedOutForAReason
  BY DEF IInv
<1> QED BY <1>1, HandledOnce, PTL

\* Whatever interleaves, no step of webhook or task takes access from a business
\* and leaves it with an active or trialing subscription.
THEOREM PayingKeepAccess == Spec => NeverLocksOutPaying
<1>1. TInv /\ [Next]_vars => [row.active /\ ~row'.active => ~Subscribed']_vars
  <2> SUFFICES ASSUME TInv, Next, row.active, ~row'.active PROVE ~Subscribed'
    OBVIOUS
  <2> USE DEF Subscribed, TInv
  <2>1. CASE StripeStep
    BY <2>1, Sending
  <2>2. CASE TrialEnds
    BY <2>2 DEF TrialEnds
  <2>3. CASE TaskStep
    BY <2>3, TaskWrites
  <2>4. ASSUME NEW w \in Workers, Finish(w) PROVE ~Subscribed'
    BY <2>4, FinishSaves
  <2>5. ASSUME NEW w \in Workers, Abort(w) \/ \E e \in Events : Begin(w, e) PROVE ~Subscribed'
    BY <2>5 DEF Abort, Begin
  <2> QED BY <2>1, <2>2, <2>3, <2>4, <2>5 DEF Next, WebhookStep
<1> QED BY <1>1, TypesInit, TypesStep, PTL DEF Spec, NeverLocksOutPaying

\* Only its trial's expiry locks a legacy business out, or a deletion that saves
\* the inactive row it has read over a reactivation.
THEOREM LegacyKeepAccess == Spec => LegacyLockedOutByTrialOnly
<1>1. TInv /\ [Next]_vars =>
          [legacy /\ row.active /\ ~row'.active =>
             (~row.trialExpired /\ row'.trialExpired) \/ StaleDeletion]_vars
  <2> SUFFICES ASSUME TInv, Next, legacy, row.active, ~row'.active
               PROVE  (~row.trialExpired /\ row'.trialExpired) \/ StaleDeletion
    OBVIOUS
  <2> USE DEF TInv
  <2>1. CASE StripeStep
    BY <2>1, Sending
  <2>2. CASE TrialEnds
    BY <2>2 DEF TrialEnds
  <2>3. CASE TaskStep
    BY <2>3, TaskWrites
  <2>4. ASSUME NEW w \in Workers, Finish(w) PROVE StaleDeletion
    <3>1. sent[request[w].event].kind = "deleted" /\ ~request[w].read.active
      BY <2>4, FinishSaves
    <3>2. request[w] # Idle /\ request'[w] = Idle
      BY <2>4 DEF Finish, TypeOK
    <3> QED BY <3>1, <3>2 DEF StaleDeletion
  <2>5. ASSUME NEW w \in Workers, Abort(w) \/ \E e \in Events : Begin(w, e) PROVE FALSE
    BY <2>5 DEF Abort, Begin
  <2> QED BY <2>1, <2>2, <2>3, <2>4, <2>5 DEF Next, WebhookStep
<1> QED BY <1>1, TypesInit, TypesStep, PTL DEF Spec, LegacyLockedOutByTrialOnly

(***************************************************************************)
(* The row as a mirror of Stripe's subscription.                           *)
(***************************************************************************)

Mirror == [sub : 0..MaxSubs, customer : Linked, status : Status, assumed : BOOLEAN]

\* What the row shows of the subscription, and what a handler makes of such a
\* view when the row is as it was read.
Shown(r, a) == [sub |-> r.sub, customer |-> r.customer, status |-> r.status, assumed |-> a]
After(e, v) ==
    IF ~Resolves(e, v) THEN v
    ELSE [sub |-> IF e.kind = "checkout" /\ e.sub # 0 THEN e.sub ELSE v.sub,
          customer |-> IF e.kind = "checkout" /\ e.customer # NoCustomer THEN e.customer
                       ELSE v.customer,
          status |-> CASE e.kind = "checkout" -> "active"
                       [] e.kind = "updated"  -> e.status
                       [] e.kind = "deleted"  -> "canceled"
                       [] OTHER -> IF v.status = "past_due" THEN "active" ELSE v.status,
          assumed |-> \/ e.kind = "checkout"
                      \/ e.kind = "paid" /\ (v.assumed \/ v.status = "past_due")]

\* A view is right: it names the latest subscription and shows that one's
\* status, or an "active" that a handler has assumed.
Says(i) == IF i = 0 THEN "" ELSE stripe[i]
Right(v) ==
    /\ v.sub = Len(stripe)
    /\ v.status = Says(v.sub) \/ (v.assumed /\ v.status = "active")

\* The views through which the events of a sequence lead, one after the other.
Views(events, h) ==
    /\ h \in [0..Len(events) -> Mirror]
    /\ \A k \in 1..Len(events) : h[k] = After(events[k], h[k - 1])

\* What Stripe has sent leads to a view that is right.
Told(h) == Views(sent, h) /\ Right(h[Len(sent)])

\* While no event has overtaken another, a first part of them is recorded, the
\* row is where they lead, and whoever is served handles the next one, having
\* read the row as it still is.
Follows(h, k) ==
    /\ recorded = 1..k
    /\ Shown(row, assumed) = h[k]
    /\ \A w \in Workers : request[w] # Idle =>
          /\ request[w].event = k + 1
          /\ Shown(request[w].read, assumed) = Shown(row, assumed)

Mirrored == \E h : Told(h) /\ (~overtaken => \E k \in 0..Len(sent) : Follows(h, k))

\* One more event leads one view further.
LEMMA OneMore ==
    ASSUME NEW events \in Seq(Event), NEW h, Views(events, h), NEW e \in Event,
           After(e, h[Len(events)]) \in Mirror
    PROVE  \E more : /\ Views(Append(events, e), more)
                     /\ \A k \in 0..Len(events) : more[k] = h[k]
                     /\ more[Len(events) + 1] = After(e, h[Len(events)])
<1> DEFINE n == Len(events)
           s == After(e, h[n])
           more == [k \in 0..(n + 1) |-> IF k <= n THEN h[k] ELSE s]
<1>1. n \in Nat /\ Len(Append(events, e)) = n + 1
  OBVIOUS
<1>2. \A k \in 1..(n + 1) : Append(events, e)[k] = IF k <= n THEN events[k] ELSE e
  OBVIOUS
<1>3. /\ h \in [0..n -> Mirror] /\ s \in Mirror
      /\ \A k \in 1..n : h[k] = After(events[k], h[k - 1])
  BY DEF Views
<1> HIDE DEF n, s
<1>4. more \in [0..(n + 1) -> Mirror]
  BY <1>1, <1>3
<1>5. ASSUME NEW k \in 1..(n + 1)
      PROVE  more[k] = After(Append(events, e)[k], more[k - 1])
  <2>1. CASE k <= n
    BY <1>1, <1>2, <1>3, <2>1
  <2>2. CASE k = n + 1
    <3>1. more[k] = s /\ more[k - 1] = h[n] /\ Append(events, e)[k] = e
      BY <1>1, <1>2, <2>2
    <3> QED BY <3>1 DEF s, n
  <2> QED BY <1>1, <2>1, <2>2
<1>6. Views(Append(events, e), more)
  BY <1>1, <1>4, <1>5 DEF Views
<1>7. /\ \A k \in 0..n : more[k] = h[k]
      /\ more[n + 1] = s
  BY <1>1
<1> HIDE DEF more
<1> QED BY <1>6, <1>7 DEF s, n

\* What an event makes of a view, field by field.
Made(e, v, new) ==
    /\ new \in Mirror
    /\ ~Resolves(e, v) => new = v
    /\ Resolves(e, v) =>
         /\ new.sub = IF e.kind = "checkout" /\ e.sub # 0 THEN e.sub ELSE v.sub
         /\ new.status = CASE e.kind = "checkout" -> "active"
                           [] e.kind = "updated"  -> e.status
                           [] e.kind = "deleted"  -> "canceled"
                           [] OTHER -> IF v.status = "past_due" THEN "active" ELSE v.status
         /\ e.kind = "checkout" => new.assumed
         /\ e.kind = "paid" /\ (v.assumed \/ v.status = "past_due") => new.assumed

\* An event leads from a view to a view.
LEMMA AfterIsMade ==
    ASSUME NEW e \in Event, NEW v \in Mirror
    PROVE  Made(e, v, After(e, v))
<1>1. CASE ~Resolves(e, v)
  BY <1>1 DEF After, Made
<1>2. CASE Resolves(e, v)
  <2> DEFINE l == IF e.kind = "checkout" /\ e.sub # 0 THEN e.sub ELSE v.sub
             c == IF e.kind = "checkout" /\ e.customer # NoCustomer THEN e.customer ELSE v.customer
             s == CASE e.kind = "checkout" -> "active"
                    [] e.kind = "updated"  -> e.status
                    [] e.kind = "deleted"  -> "canceled"
                    [] OTHER -> IF v.status = "past_due" THEN "active" ELSE v.status
             a == \/ e.kind = "checkout"
                  \/ e.kind = "paid" /\ (v.assumed \/ v.status = "past_due")
             new == After(e, v)
  <2>1. /\ "active" \in Status /\ "canceled" \in Status
        /\ e.sub \in 0..MaxSubs /\ e.status \in Status /\ e.customer \in Linked
        /\ v.sub \in 0..MaxSubs /\ v.status \in Status /\ v.customer \in Linked
        /\ v.assumed \in BOOLEAN
    BY Written DEF Event, Mirror, Linked
  <2>2. l \in 0..MaxSubs /\ c \in Linked /\ s \in Status
    BY <2>1
  <2>3. a \in BOOLEAN
    OBVIOUS
  <2>4. new = [sub |-> l, customer |-> c, status |-> s, assumed |-> a]
    BY <1>2 DEF After
  <2>5. /\ e.kind = "checkout" => a
        /\ e.kind = "paid" /\ (v.assumed \/ v.status = "past_due") => a
    OBVIOUS
  <2> HIDE DEF l, c, s, a, new
  <2>6. /\ new \in Mirror /\ new.sub = l /\ new.status = s /\ new.assumed = a
    BY <2>2, <2>3, <2>4 DEF Mirror
  <2>7. /\ e.kind = "checkout" => new.assumed
        /\ e.kind = "paid" /\ (v.assumed \/ v.status = "past_due") => new.assumed
    BY <2>3, <2>5, <2>6, Zenon
  <2> QED BY <1>2, <2>6, <2>7 DEF Made, l, s, new
<1> QED BY <1>1, <1>2

\* Whatever Stripe does, the event it then sends leads from a right view to a
\* right one.
LEMMA StripeTells ==
    ASSUME TypeOK, StripeStep, NEW v \in Mirror, Right(v)
    PROVE  \E e \in Event : Send(e) /\ Right(After(e, v))'
<1>0. stripe \in Seq(Held) /\ Len(stripe) <= MaxSubs
  BY DEF TypeOK, Held
<1>1. /\ LiveStatus \subseteq Status /\ {"", "canceled"} \subseteq Status
      /\ LiveStatus \subseteq Held /\ "canceled" \in Held /\ OpeningStatus \subseteq Held
      /\ Customers \subseteq Linked /\ NoCustomer \in Linked /\ OpeningStatus \subseteq Status
      /\ 0 \in 0..MaxSubs
  <2>1. 0 \in 0..MaxSubs
    BY BoundsAssumption
  <2> QED BY <2>1, Written, OpeningAssumption DEF Held, Linked
<1>2. ASSUME NEW e \in Event, NEW c \in Customers, NEW s \in OpeningStatus,
             e = EventOf("checkout", Len(stripe) + 1, c, s), Checkout(c, s)
      PROVE  Send(e) /\ Right(After(e, v))'
  <2>1. stripe' = Append(stripe, s) /\ Send(e) /\ Len(stripe) < MaxSubs
    BY <1>2 DEF Checkout
  <2>2. Len(stripe') = Len(stripe) + 1 /\ Len(stripe) + 1 # 0
    BY <1>0, <1>1, <2>1, Opened
  <2>3. e.kind = "checkout" /\ e.sub = Len(stripe) + 1
    BY <1>2 DEF EventOf
  <2> DEFINE n == After(e, v)
  <2>4. Made(e, v, n)
    BY AfterIsMade
  <2> HIDE DEF n
  <2>5. n.sub = Len(stripe') /\ n.status = "active" /\ n.assumed
    BY <2>2, <2>3, <2>4 DEF Made, Resolves
  <2> QED BY <2>1, <2>5 DEF Right, n
<1>3. ASSUME NEW e \in Event, NEW c \in Linked, UNCHANGED stripe,
             e \in {EventOf("paid", 0, c, ""), EventOf("checkout", 0, c, ""),
                    EventOf("stray", 0, c, "")}
      PROVE  Right(After(e, v))'
  <2>1. e.kind \in {"paid", "checkout", "stray"} /\ e.sub = 0
    <3>1. CASE e = EventOf("paid", 0, c, "")
      BY <3>1 DEF EventOf
    <3>2. CASE e = EventOf("checkout", 0, c, "")
      BY <3>2 DEF EventOf
    <3>3. CASE e = EventOf("stray", 0, c, "")
      BY <3>3 DEF EventOf
    <3> QED BY <1>3, <3>1, <3>2, <3>3
  <2> DEFINE n == After(e, v)
  <2>2. Made(e, v, n)
    BY AfterIsMade
  <2> HIDE DEF n
  <2>3. CASE ~Resolves(e, v)
    BY <1>3, <2>2, <2>3 DEF Made, Right, Says, n
  <2>4. CASE Resolves(e, v) /\ e.kind = "checkout"
    <3>1. n.sub = v.sub /\ n.status = "active" /\ n.assumed
      BY <2>1, <2>2, <2>4 DEF Made
    <3> QED BY <1>3, <3>1 DEF Right, n
  <2>5. CASE Resolves(e, v) /\ e.kind = "paid"
    <3>1. /\ n.sub = v.sub
          /\ n.status = IF v.status = "past_due" THEN "active" ELSE v.status
          /\ v.assumed \/ v.status = "past_due" => n.assumed
      BY <2>2, <2>5 DEF Made
    <3>2. CASE v.status = "past_due"
      <4>1. n.sub = v.sub /\ n.status = "active" /\ n.assumed
        BY <3>1, <3>2, Zenon
      <4> QED BY <1>3, <4>1 DEF Right, n
    <3>3. CASE v.status # "past_due"
      <4>1. n.sub = v.sub /\ n.status = v.status /\ (v.assumed => n.assumed)
        BY <3>1, <3>3, Zenon
      <4> QED BY <1>3, <4>1 DEF Right, Says, n
    <3> QED BY <3>2, <3>3
  <2> QED BY <2>1, <2>3, <2>4, <2>5 DEF Resolves
<1>4. ASSUME NEW e \in Event, NEW i \in DOMAIN stripe, NEW s \in Held,
             stripe' = [stripe EXCEPT ![i] = s],
             e.sub = i,
             \/ e.kind = "updated" /\ e.status = s
             \/ e.kind = "deleted" /\ s = "canceled"
      PROVE  Right(After(e, v))'
  <2>1. /\ Len(stripe') = Len(stripe) /\ i # 0
        /\ \A j \in DOMAIN stripe : stripe'[j] = IF j = i THEN s ELSE stripe[j]
    BY <1>0, <1>4, Changed
  <2> DEFINE n == After(e, v)
  <2>2. Made(e, v, n)
    BY AfterIsMade
  <2> HIDE DEF n
  <2>3. CASE v.sub = i
    <3>1. Resolves(e, v)
      BY <1>4, <2>3 DEF Resolves
    <3>2. n.sub = v.sub /\ n.status = s
      BY <1>4, <2>2, <3>1 DEF Made
    <3>3. n.sub = Len(stripe') /\ Says(i)' = s
      BY <2>1, <3>2 DEF Right, Says
    <3>4. n.status = stripe'[n.sub] /\ n.sub # 0
      BY <2>1, <2>3, <3>2
    <3> QED BY <3>3, <3>4 DEF Right, Says, n
  <2>4. CASE v.sub # i
    <3>1. ~Resolves(e, v)
      BY <1>4, <2>4 DEF Resolves
    <3>2. n = v
      BY <2>2, <3>1 DEF Made
    <3>3. v.sub = Len(stripe) /\ Len(stripe) \in Nat /\ DOMAIN stripe = 1..Len(stripe)
      BY <1>0, LenProperties DEF Right
    <3>4. v.sub # 0 => stripe'[v.sub] = stripe[v.sub]
      BY <2>1, <2>4, <3>3
    <3> QED BY <2>1, <3>2, <3>4 DEF Right, Says, n
  <2> QED BY <2>3, <2>4
<1>5. ASSUME NEW c \in Customers, NEW s \in OpeningStatus, Checkout(c, s)
      PROVE  \E e \in Event : Send(e) /\ Right(After(e, v))'
  <2>1. Len(stripe) + 1 \in 0..MaxSubs
    BY <1>0, <1>1, <1>5, Opened DEF Checkout
  <2>2. EventOf("checkout", Len(stripe) + 1, c, s) \in Event
    BY <1>1, <2>1, EventIs
  <2> QED BY <1>2, <1>5, <2>2
<1>6. ASSUME NEW c \in Linked, InvoicePaid(c) \/ PaymentCheckout(c)
      PROVE  \E e \in Event : Send(e) /\ Right(After(e, v))'
  <2>1. EventOf("paid", 0, c, "") \in Event /\ EventOf("checkout", 0, c, "") \in Event
    BY <1>1, EventIs
  <2> QED BY <1>3, <1>6, <2>1 DEF InvoicePaid, PaymentCheckout
<1>7. ASSUME StrayCheckout
      PROVE  \E e \in Event : Send(e) /\ Right(After(e, v))'
  <2>1. EventOf("stray", 0, NoCustomer, "") \in Event
    BY <1>1, EventIs
  <2> QED BY <1>1, <1>3, <1>7, <2>1 DEF StrayCheckout
<1>8. ASSUME NEW i \in DOMAIN stripe, NEW s \in LiveStatus,
             SubscriptionEnds(i) \/ StatusChanges(i, s)
      PROVE  \E e \in Event : Send(e) /\ Right(After(e, v))'
  <2>1. i \in 0..MaxSubs
    <3>1. DOMAIN stripe = 1..Len(stripe) /\ Len(stripe) \in Nat
      BY <1>0, LenProperties
    <3> QED BY <1>0, <3>1, BoundsAssumption
  <2>2. /\ EventOf("deleted", i, NoCustomer, "canceled") \in Event
        /\ EventOf("updated", i, NoCustomer, s) \in Event
    BY <1>1, <2>1, EventIs
  <2>3. /\ EventOf("deleted", i, NoCustomer, "canceled").kind = "deleted"
        /\ EventOf("deleted", i, NoCustomer, "canceled").sub = i
        /\ EventOf("updated", i, NoCustomer, s).kind = "updated"
        /\ EventOf("updated", i, NoCustomer, s).sub = i
        /\ EventOf("updated", i, NoCustomer, s).status = s
    BY DEF EventOf
  <2>4. CASE SubscriptionEnds(i)
    BY <1>1, <1>4, <2>2, <2>3, <2>4 DEF SubscriptionEnds
  <2>5. CASE StatusChanges(i, s)
    <3>1. s \in Held /\ stripe' = [stripe EXCEPT ![i] = s]
          /\ Send(EventOf("updated", i, NoCustomer, s))
      BY <1>1, <2>5 DEF StatusChanges
    <3> DEFINE e == EventOf("updated", i, NoCustomer, s)
    <3>2. e \in Event /\ e.sub = i /\ e.kind = "updated" /\ e.status = s /\ Send(e)
      BY <2>2, <2>3, <3>1
    <3> HIDE DEF e
    <3>3. Right(After(e, v))'
      BY <1>4, <3>1, <3>2
    <3> QED BY <3>2, <3>3
  <2> QED BY <1>8, <2>4, <2>5
<1>9. LiveStatus # {}
  BY DEF LiveStatus
<1> QED
  BY <1>5, <1>6, <1>7, <1>8, <1>9 DEF StripeStep, Linked

\* Stripe's steps prolong the views and leave the earlier ones.
LEMMA StripeLeadsOn ==
    ASSUME TypeOK, StripeStep, NEW h, Told(h)
    PROVE  \E more : /\ Told(more)'
                     /\ \A k \in 0..Len(sent) : more[k] = h[k]
<1>1. sent \in Seq(Event) /\ Views(sent, h) /\ Right(h[Len(sent)])
  BY DEF TypeOK, Told
<1>2. h[Len(sent)] \in Mirror
  <2>1. Len(sent) \in 0..Len(sent)
    BY <1>1, LenProperties
  <2> QED BY <1>1, <2>1 DEF Views
<1>3. PICK v \in Mirror : v = h[Len(sent)]
  BY <1>2
<1>4. PICK e \in Event : Send(e) /\ Right(After(e, v))'
  BY <1>1, <1>3, StripeTells
<1>5. After(e, v) \in Mirror
  BY AfterIsMade DEF Made
<1>6. PICK more : /\ Views(Append(sent, e), more)
                  /\ \A k \in 0..Len(sent) : more[k] = h[k]
                  /\ more[Len(sent) + 1] = After(e, v)
  BY <1>1, <1>3, <1>5, OneMore
<1>7. sent' = Append(sent, e) /\ Len(sent') = Len(sent) + 1
  BY <1>1, <1>4, AppendProperties DEF Send
<1>8. Told(more)'
  <2>1. more[Len(sent)]' = After(e, v)
    BY <1>6, <1>7
  <2>2. Views(sent, more)'
    BY <1>6, <1>7 DEF Views
  <2>3. Right(more[Len(sent)])'
    BY <1>4, <2>1 DEF Right, Says
  <2> QED BY <2>2, <2>3 DEF Told
<1> QED BY <1>6, <1>8

\* What a handler saves of the row as it was read shows what the event says.
LEMMA SavedShows ==
    ASSUME NEW e \in Event, NEW read \in Row, NEW now \in Row, NEW a \in BOOLEAN,
           legacy \in BOOLEAN, assumed = a, Shown(read, a) = Shown(now, a),
           NEW new, new = IF Resolves(e, read) THEN Saved(e, read, now) ELSE now,
           NEW b, b = IF Resolves(e, read) THEN Assumes(e, read) ELSE a
    PROVE  Shown(new, b) = After(e, Shown(now, a))
<1> DEFINE v == Shown(now, a)
<1>1. /\ v.sub = now.sub /\ v.customer = now.customer /\ v.status = now.status
      /\ v.assumed = a
      /\ read.sub = now.sub /\ read.customer = now.customer /\ read.status = now.status
  BY DEF Shown
<1>2. v = Shown(now, a)
  OBVIOUS
<1> HIDE DEF v
<1>3. Resolves(e, read) <=> Resolves(e, v)
  BY <1>1 DEF Resolves
<1>4. CASE ~Resolves(e, read)
  BY <1>2, <1>3, <1>4 DEF After
<1>5. CASE Resolves(e, read)
  <2> DEFINE l == IF e.kind = "checkout" /\ e.sub # 0 THEN e.sub ELSE v.sub
             c == IF e.kind = "checkout" /\ e.customer # NoCustomer THEN e.customer ELSE v.customer
             s == CASE e.kind = "checkout" -> "active"
                    [] e.kind = "updated"  -> e.status
                    [] e.kind = "deleted"  -> "canceled"
                    [] OTHER -> IF v.status = "past_due" THEN "active" ELSE v.status
             d == \/ e.kind = "checkout"
                  \/ e.kind = "paid" /\ (v.assumed \/ v.status = "past_due")
  <2>1. SavedAs(e, read, now, new)
    BY <1>5, SavedFields
  <2>2. new.sub = l /\ new.customer = c /\ new.status = s
    BY <1>1, <2>1 DEF SavedAs
  <2>3. b = d
    <3>1. b = Assumes(e, read)
      BY <1>5
    <3>2. Assumes(e, read) <=> d
      BY <1>1 DEF Assumes
    <3>3. Assumes(e, read) \in BOOLEAN /\ d \in BOOLEAN
      BY DEF Assumes
    <3> HIDE DEF d
    <3> QED BY <3>1, <3>2, <3>3, Zenon
  <2>4. After(e, v) = [sub |-> l, customer |-> c, status |-> s, assumed |-> d]
    BY <1>3, <1>5 DEF After
  <2> HIDE DEF l, c, s, d
  <2>5. Shown(new, b) = [sub |-> l, customer |-> c, status |-> s, assumed |-> d]
    BY <2>2, <2>3, Zenon DEF Shown
  <2> QED BY <1>2, <2>4, <2>5
<1> QED BY <1>4, <1>5

\* At the first state there are no events to lead anywhere.
LEMMA MirroredInit == Init => Mirrored
<1> SUFFICES ASSUME Init PROVE Mirrored
  OBVIOUS
<1> DEFINE v == Shown(NewRow, FALSE)
           h == [k \in 0..0 |-> v]
<1>1. sent = <<>> /\ Len(sent) = 0 /\ stripe = <<>> /\ Len(stripe) = 0
  BY DEF Init
<1>2. v \in Mirror /\ Right(v)
  <2>1. "" \in Status /\ NoCustomer \in Linked
    BY Written DEF Linked
  <2>2. 0 \in 0..MaxSubs
    BY BoundsAssumption
  <2>3. v = [sub |-> 0, customer |-> NoCustomer, status |-> "", assumed |-> FALSE]
    BY DEF Shown, NewRow
  <2> HIDE DEF v
  <2>4. v \in Mirror
    BY <2>1, <2>2, <2>3 DEF Mirror
  <2>5. v.sub = 0 /\ v.status = ""
    BY <2>3
  <2> QED BY <1>1, <2>4, <2>5 DEF Right, Says
<1>3. h \in [0..0 -> Mirror] /\ h[0] = v
  <2>1. 0 \in 0..0
    OBVIOUS
  <2> HIDE DEF v
  <2>2. h \in [0..0 -> Mirror]
    BY <1>2, Zenon
  <2> QED BY <2>1, <2>2
<1>4. Shown(row, assumed) = v
  BY DEF Init
<1> HIDE DEF h, v
<1>5. Told(h)
  <2>1. \A k \in 1..0 : FALSE
    OBVIOUS
  <2> QED BY <1>1, <1>2, <1>3, <2>1 DEF Told, Views
<1>6. recorded = 1..0 /\ \A w \in Workers : request[w] = Idle
  <2>1. 1..0 = {}
    OBVIOUS
  <2> QED BY <2>1 DEF Init
<1>7. Follows(h, 0)
  BY <1>3, <1>4, <1>6 DEF Follows
<1> QED BY <1>1, <1>5, <1>7 DEF Mirrored

\* A step that leaves events, row's view and requests alone, as the task's do.
LEMMA MirroredKept ==
    ASSUME Mirrored, UNCHANGED <<sent, stripe, recorded, request, overtaken, assumed>>,
           row'.sub = row.sub, row'.customer = row.customer, row'.status = row.status
    PROVE  Mirrored'
<1>1. PICK h : Told(h) /\ (~overtaken => \E k \in 0..Len(sent) : Follows(h, k))
  BY DEF Mirrored
<1>2. Told(h)'
  BY <1>1 DEF Told, Views, Right, Says
<1>3. ASSUME NEW k, Follows(h, k) PROVE Follows(h, k)'
  BY <1>3 DEF Follows, Shown
<1> QED BY <1>1, <1>2, <1>3 DEF Mirrored

\* Every step keeps the row on the way that the events lead.
LEMMA MirroredStep == TInv /\ OneServer /\ Mirrored /\ [Next]_vars => Mirrored'
<1> SUFFICES ASSUME TInv, OneServer, Mirrored, [Next]_vars PROVE Mirrored'
  OBVIOUS
<1>0. TypeOK /\ SentProperly /\ ServedProperly
  BY DEF TInv
<1>1. CASE StripeStep
  <2>1. PICK h : Told(h) /\ (~overtaken => \E k \in 0..Len(sent) : Follows(h, k))
    BY DEF Mirrored
  <2>2. PICK more : Told(more)' /\ \A k \in 0..Len(sent) : more[k] = h[k]
    BY <1>0, <1>1, <2>1, StripeLeadsOn
  <2>3. /\ UNCHANGED <<row, recorded, request, overtaken, assumed>>
        /\ sent \in Seq(Event) /\ sent' \in Seq(Event) /\ DOMAIN sent \subseteq DOMAIN sent'
    BY <1>0, <1>1, Sending DEF TypeOK
  <2>4. ASSUME ~overtaken' PROVE \E k \in 0..Len(sent') : Follows(more, k)'
    <3>1. PICK k \in 0..Len(sent) : Follows(h, k)
      BY <2>1, <2>3, <2>4
    <3>2. Follows(more, k)'
      BY <2>2, <2>3, <3>1 DEF Follows, Shown
    <3>3. k \in 0..Len(sent')
      <4>1. DOMAIN sent = 1..Len(sent) /\ DOMAIN sent' = 1..Len(sent')
            /\ Len(sent) \in Nat /\ Len(sent') \in Nat
        BY <2>3
      <4>2. Len(sent) <= Len(sent')
        BY <2>3, <4>1
      <4> QED BY <4>1, <4>2
    <3> QED BY <3>2, <3>3
  <2> QED BY <2>2, <2>4 DEF Mirrored
<1>2. CASE TrialEnds
  BY <1>2, MirroredKept DEF TrialEnds, webhookVars
<1>3. CASE TaskStep
  BY <1>0, <1>3, TaskWrites, MirroredKept DEF webhookVars
<1>4. CASE UNCHANGED vars
  BY <1>4, MirroredKept DEF vars
<1>5. ASSUME NEW w \in Workers, NEW e \in Events, Begin(w, e) PROVE Mirrored'
  <2>1. PICK h : Told(h) /\ (~overtaken => \E k \in 0..Len(sent) : Follows(h, k))
    BY DEF Mirrored
  <2>2. Told(h)'
    BY <1>5, <2>1 DEF Begin, Told, Views, Right, Says
  <2>3. ASSUME ~overtaken' PROVE \E k \in 0..Len(sent') : Follows(h, k)'
    <3>1. ~overtaken /\ \A f \in 1..(e - 1) : f \in recorded
      BY <1>5, <2>3 DEF Begin
    <3>2. PICK k \in 0..Len(sent) : Follows(h, k)
      BY <2>1, <3>1
    <3>3. e = k + 1
      <4>1. e \notin 1..k /\ \A f \in 1..(e - 1) : f \in 1..k
        BY <1>5, <3>1, <3>2 DEF Begin, Insertable, Follows
      <4>2. e \in Nat \ {0} /\ k \in Nat
        BY <1>0, <3>2 DEF Events, TypeOK
      <4> QED BY <4>1, <4>2
    <3>4. \A v \in Workers : request'[v] =
             IF v = w THEN [event |-> e, read |-> row] ELSE request[v]
      BY <1>0, <1>5 DEF Begin, TypeOK
    <3>5. Follows(h, k)'
      BY <1>5, <3>2, <3>3, <3>4 DEF Begin, Follows, Shown
    <3> QED BY <1>5, <3>2, <3>5 DEF Begin
  <2> QED BY <2>2, <2>3 DEF Mirrored
<1>6. ASSUME NEW w \in Workers, Abort(w) PROVE Mirrored'
  <2>1. PICK h : Told(h) /\ (~overtaken => \E k \in 0..Len(sent) : Follows(h, k))
    BY DEF Mirrored
  <2>2. Told(h)'
    BY <1>6, <2>1 DEF Abort, Told, Views, Right, Says
  <2>3. \A v \in Workers : request'[v] = IF v = w THEN Idle ELSE request[v]
    BY <1>0, <1>6 DEF Abort, TypeOK
  <2>4. ASSUME NEW k, Follows(h, k) PROVE Follows(h, k)'
    BY <1>6, <2>3, <2>4 DEF Abort, Follows, Shown
  <2> QED BY <1>6, <2>1, <2>2, <2>4 DEF Abort, Mirrored
<1>7. ASSUME NEW w \in Workers, Finish(w) PROVE Mirrored'
  <2> DEFINE id == request[w].event
             read == request[w].read
  <2>1. PICK h : Told(h) /\ (~overtaken => \E k \in 0..Len(sent) : Follows(h, k))
    BY DEF Mirrored
  <2>2. /\ request[w] # Idle /\ recorded' = recorded \cup {id}
        /\ row' = IF Resolves(sent[id], read) THEN Saved(sent[id], read, row) ELSE row
        /\ assumed' = IF Resolves(sent[id], read) THEN Assumes(sent[id], read) ELSE assumed
        /\ \A v \in Workers : request'[v] = IF v = w THEN Idle ELSE request[v]
        /\ UNCHANGED <<stripe, sent, overtaken>>
    BY <1>0, <1>7 DEF Finish, TypeOK
  <2>3. Told(h)'
    BY <2>1, <2>2 DEF Told, Views, Right, Says
  <2>4. ASSUME ~overtaken' PROVE \E k \in 0..Len(sent') : Follows(h, k)'
    <3>1. PICK k \in 0..Len(sent) : Follows(h, k)
      BY <2>1, <2>2, <2>4
    <3>2. /\ id = k + 1 /\ id \in DOMAIN sent /\ sent \in Seq(Event) /\ k \in Nat
          /\ Shown(read, assumed) = Shown(row, assumed)
          /\ Shown(row, assumed) = h[k] /\ recorded = 1..k
      BY <1>0, <2>2, <3>1 DEF Follows, ServedProperly, TypeOK
    <3>3. k + 1 \in 1..Len(sent) /\ k + 1 \in 0..Len(sent')
      BY <2>2, <3>2
    <3>4. h[k + 1] = After(sent[k + 1], h[k])
      BY <2>1, <3>2, <3>3 DEF Told, Views
    <3>5. Shown(row, assumed)' = h[k + 1]
      <4>1. read \in Row /\ row \in Row /\ sent[id] \in Event
            /\ assumed \in BOOLEAN /\ legacy \in BOOLEAN
        BY <1>0, <2>2, <3>2 DEF TypeOK
      <4> HIDE DEF id, read
      <4>2. Shown(row', assumed') = After(sent[id], Shown(row, assumed))
        BY <2>2, <3>2, <4>1, SavedShows
      <4> QED BY <3>2, <3>4, <4>2 DEF Shown
    <3>6. \A v \in Workers : request'[v] = Idle
      BY <2>2, <3>1, <3>2 DEF Follows, OneServer
    <3>7. recorded' = 1..(k + 1)
      BY <2>2, <3>2
    <3>8. Follows(h, k + 1)'
      BY <3>5, <3>6, <3>7 DEF Follows, Shown
    <3> QED BY <3>3, <3>8
  <2> QED BY <2>3, <2>4 DEF Mirrored
<1> QED BY <1>1, <1>2, <1>3, <1>4, <1>5, <1>6, <1>7 DEF Next, WebhookStep

\* Intervals that start at one and have the same members end alike.
LEMMA SameCount ==
    ASSUME NEW m \in Nat, NEW n \in Nat, 1..m = 1..n
    PROVE  m = n
<1>1. CASE m < n
  <2>1. n \in 1..n /\ n \notin 1..m
    BY <1>1
  <2> QED BY <2>1
<1>2. CASE n < m
  <2>1. m \in 1..m /\ m \notin 1..n
    BY <1>2
  <2> QED BY <2>1
<1> QED BY <1>1, <1>2

\* Once every event is recorded the row is linked to the latest subscription
\* and shows its status, or an assumed "active", unless one event has overtaken
\* another: for any number of workers, customers, subscriptions and events, and
\* whatever Stripe does with the subscriptions.
THEOREM MirrorsStripe == Spec => []MirrorsUnlessOvertaken
<1>1. TInv /\ Mirrored => MirrorsUnlessOvertaken
  <2> SUFFICES ASSUME TypeOK, Mirrored, recorded = DOMAIN sent, ~overtaken
               PROVE  /\ row.sub = Len(stripe)
                      /\ row.status = StripeSays \/ (assumed /\ row.status = "active")
    BY DEF TInv, MirrorsUnlessOvertaken
  <2>1. PICK h : Told(h) /\ \E k \in 0..Len(sent) : Follows(h, k)
    BY DEF Mirrored
  <2>2. PICK k \in 0..Len(sent) : Follows(h, k)
    BY <2>1
  <2>3. k = Len(sent)
    <3>1. DOMAIN sent = 1..Len(sent) /\ Len(sent) \in Nat
      BY DEF TypeOK
    <3>2. recorded = 1..k
      BY <2>2 DEF Follows
    <3>3. k \in Nat
      BY <3>1
    <3>4. 1..Len(sent) = 1..k
      BY <3>1, <3>2, Zenon
    <3> QED BY <3>1, <3>3, <3>4, SameCount
  <2>4. Right(Shown(row, assumed))
    BY <2>1, <2>2, <2>3 DEF Told, Follows
  <2> QED BY <2>4 DEF Right, Says, Shown, StripeSays
<1>2. IInv => OneServer
  BY DEF IInv
<1> QED
  BY <1>1, <1>2, TypesInit, TypesStep, HandledOnce, MirroredInit, MirroredStep, PTL DEF Spec

(***************************************************************************)
(* Documents: every file in storage is accounted for.                      *)
(***************************************************************************)

\* The worker is at a call of an upload of the document.
Uploads(w, d) ==
    /\ serving[w].document = d
    /\ serving[w].call \in {"put", "markUploaded", "markFailed"}

\* A document is uploaded by one request, which begins with its row.
OneUploader ==
    \A w, v \in FileWorkers, d \in Documents : Uploads(w, d) /\ Uploads(v, d) => w = v

\* An upload under way: nothing is written before the put, and the mark that
\* follows agrees with what the put did.
UploadInOrder ==
    \A w \in FileWorkers, d \in Documents : Uploads(w, d) =>
        /\ status[d] \in {"pending", "deleted"}
        /\ Doing(w, "put") => d \notin stored
        /\ Doing(w, "markUploaded") => d \in stored \cup removals
        /\ Doing(w, "markFailed") /\ d \in stored => d \in lostAnswers

\* Before its row, a document has no file, no upload and no delete.
NothingBeforeTheRow ==
    \A d \in Documents : status[d] = "absent" =>
        /\ d \notin stored
        /\ \A w \in FileWorkers : serving[w].document # d

\* A call is given up after its row was written, and a put when it was made.
LateInOrder ==
    /\ \A l \in late : status[l.document] # "absent"
    /\ \A w \in FileWorkers, d \in Documents :
           Uploads(w, d) /\ Doing(w, "put") => ~LatePut(d)

\* Once a delete is past storage, the file is gone and no upload is left that
\* could bring it back, unless it was running when the file was removed.
Settled(d) == d \in earlyRemovals \/ (d \notin stored /\ ~Uploading(d))

RemovedBeforeTheRow ==
    /\ \A d \in Documents : status[d] = "deleted" => Settled(d)
    /\ \A w \in FileWorkers : Doing(w, "deleteRow") => Settled(serving[w].document)

FilesInv ==
    /\ FilesTypeOK
    /\ OneUploader
    /\ UploadInOrder
    /\ NothingBeforeTheRow
    /\ LateInOrder
    /\ RemovedBeforeTheRow
    /\ UploadedHasFile
    /\ FailedOnlyUnwritten

\* Every value the rows, the bucket and the requests take is one of their type.
THEOREM FilesTypeCorrect == FilesSpec => []FilesTypeOK
<1>1. FilesInit => FilesTypeOK
  BY DEF FilesInit, FilesTypeOK, NoRow, NoCall
<1>2. FilesTypeOK /\ [FilesNext]_filesVars => FilesTypeOK'
  <2> SUFFICES ASSUME FilesTypeOK, [FilesNext]_filesVars PROVE FilesTypeOK'
    OBVIOUS
  <2> USE DEF FilesTypeOK, DocumentStatus, NoRow, Calls, Then, Answer, Doing, filesHistory
  <2>12. ASSUME NEW w \in FileWorkers, serving[w].call \in {"put", "remove"}, GiveUp(w)
         PROVE  late' \subseteq [call : {"put", "remove"}, document : Documents]
    <3>1. serving[w] \in [call : Calls, document : Documents]
      BY <2>12 DEF NoCall
    <3>2. serving[w] \in [call : {"put", "remove"}, document : Documents]
      BY <2>12, <3>1
    <3> QED BY <2>12, <3>2 DEF GiveUp
  <2>1. ASSUME NEW w \in FileWorkers, NEW d \in Documents, BeginUpload(w, d) PROVE FilesTypeOK'
    BY <2>1 DEF BeginUpload
  <2>2. ASSUME NEW w \in FileWorkers, NEW d \in Documents, BeginDelete(w, d) PROVE FilesTypeOK'
    BY <2>2 DEF BeginDelete, ObjectFirst
  <2>3. ASSUME NEW w \in FileWorkers PROVE Doing(w, "put") \/ Doing(w, "remove")
            \/ Doing(w, "deleteRow") => serving[w].document \in Documents
    BY DEF NoCall
  <2>4. ASSUME NEW w \in FileWorkers, Put(w) PROVE FilesTypeOK'
    BY <2>3, <2>4 DEF Put, AfterPut
  <2>5. ASSUME NEW w \in FileWorkers, PutFails(w) PROVE FilesTypeOK'
    BY <2>3, <2>5, <2>12 DEF PutFails, AfterFailedPut
  <2>6. ASSUME NEW w \in FileWorkers, MarkUploaded(w) \/ MarkFailed(w) PROVE FilesTypeOK'
    BY <2>6 DEF MarkUploaded, MarkFailed, Mark
  <2>7. ASSUME NEW w \in FileWorkers, Remove(w) PROVE FilesTypeOK'
    BY <2>3, <2>7 DEF Remove, Removing
  <2>8. ASSUME NEW w \in FileWorkers, RemoveFails(w) PROVE FilesTypeOK'
    BY <2>3, <2>8, <2>12 DEF RemoveFails, Removing
  <2>9. ASSUME NEW w \in FileWorkers, DeleteRow(w) PROVE FilesTypeOK'
    BY <2>3, <2>9 DEF DeleteRow
  <2>10. ASSUME NEW w \in FileWorkers, Kill(w) PROVE FilesTypeOK'
    BY <2>10, <2>12 DEF Kill
  <2>13. ASSUME NEW d \in Documents, PutLands(d) \/ RemoveLands(d) PROVE FilesTypeOK'
    BY <2>13 DEF PutLands, RemoveLands, Removing
  <2>11. CASE UNCHANGED filesVars
    BY <2>11 DEF filesVars
  <2> QED
    BY <2>1, <2>2, <2>4, <2>5, <2>6, <2>7, <2>8, <2>9, <2>10, <2>11, <2>13 DEF FilesNext
<1> QED
  BY <1>1, <1>2, PTL DEF FilesSpec

\* The empty database and bucket satisfy the invariant.
LEMMA Initially == FilesInit => FilesInv
BY NoDocumentAssumption DEF FilesInit, FilesInv, FilesTypeOK, NoRow, DocumentStatus, NoCall, OneUploader, Uploads,
   UploadInOrder, NothingBeforeTheRow, LateInOrder, LatePut, RemovedBeforeTheRow, Doing,
   UploadedHasFile, FailedOnlyUnwritten

\* The types of everything but the late calls.
Typed ==
    /\ status \in [Documents -> DocumentStatus \cup NoRow]
    /\ stored \subseteq Documents
    /\ serving \in [FileWorkers -> [call : Calls, document : Documents] \cup {NoCall}]
    /\ lostAnswers \subseteq Documents
    /\ removals \subseteq Documents
    /\ earlyRemovals \subseteq Documents

\* A call that a worker gives up is late; no other becomes so.
LEMMA GivenUp ==
    ASSUME NEW w \in FileWorkers, Typed, GiveUp(w), serving[w].call \in {"put", "remove"}
    PROVE  /\ \A l \in late' : l \in late \/ l.document = serving[w].document
           /\ \A d \in Documents : LatePut(d)' =>
                 LatePut(d) \/ (serving[w].document = d /\ Doing(w, "put"))
<1>1. \A l \in late' : l \in late \/ l = serving[w]
  BY DEF GiveUp
<1> QED BY <1>1 DEF LatePut, Doing

\* One call of an upload preserves the invariant.
LEMMA UploadStep ==
    ASSUME FilesInv, NEW w \in FileWorkers,
           (\E d \in Documents : BeginUpload(w, d)) \/ Put(w) \/ PutFails(w)
               \/ MarkUploaded(w) \/ MarkFailed(w),
           FilesTypeOK'
    PROVE  FilesInv'
<1>0. Typed /\ Typed' /\ FilesTypeOK'
  BY DEF FilesInv, FilesTypeOK, Typed
<1>9. /\ OneUploader /\ UploadInOrder /\ NothingBeforeTheRow /\ LateInOrder
      /\ RemovedBeforeTheRow /\ UploadedHasFile /\ FailedOnlyUnwritten
  BY DEF FilesInv
<1> SUFFICES /\ OneUploader' /\ UploadInOrder' /\ NothingBeforeTheRow' /\ LateInOrder'
             /\ RemovedBeforeTheRow' /\ UploadedHasFile' /\ FailedOnlyUnwritten'
  BY <1>0 DEF FilesInv
<1> USE <1>0, <1>9 DEF Typed, Then, Answer, Doing, filesHistory, NoCall, Exists, NoRow, DocumentStatus, Uploads
<1> DEFINE Goal == /\ OneUploader' /\ UploadInOrder' /\ NothingBeforeTheRow' /\ LateInOrder'
                   /\ RemovedBeforeTheRow' /\ UploadedHasFile' /\ FailedOnlyUnwritten'
<1>1. ASSUME NEW d \in Documents, BeginUpload(w, d) PROVE Goal
  <2>1. OneUploader' BY <1>1 DEF BeginUpload, OneUploader, NothingBeforeTheRow
  <2>2. UploadInOrder' BY <1>1 DEF BeginUpload, UploadInOrder, NothingBeforeTheRow
  <2>3. NothingBeforeTheRow' BY <1>1 DEF BeginUpload, NothingBeforeTheRow
  <2>6. late' = late /\ ~LatePut(d)
    BY <1>1 DEF BeginUpload, LateInOrder, LatePut
  <2>7. LateInOrder'
    <3>1. \A l \in late' : status'[l.document] # "absent"
      BY <1>1, <2>6 DEF BeginUpload, LateInOrder
    <3>2. \A v \in FileWorkers, e \in Documents :
             Uploads(v, e)' /\ Doing(v, "put")' => e = d \/ (Uploads(v, e) /\ Doing(v, "put"))
      BY <1>1 DEF BeginUpload
    <3>3. \A e \in Documents : LatePut(e)' <=> LatePut(e)
      BY <2>6 DEF LatePut
    <3> QED BY <2>6, <3>1, <3>2, <3>3 DEF LateInOrder
  <2>4. RemovedBeforeTheRow'
    <3>1. \A e \in Documents : Uploading(e)' => Uploading(e) \/ e = d
      BY <1>1, <2>6 DEF BeginUpload, Uploading, LatePut
    <3>2. \A v \in FileWorkers : Doing(v, "deleteRow")' =>
             /\ Doing(v, "deleteRow") /\ serving'[v] = serving[v]
             /\ serving[v].document # d /\ serving[v].document \in Documents
      BY <1>1 DEF BeginUpload, NothingBeforeTheRow
    <3>3. \A e \in Documents : status'[e] = "deleted" => status[e] = "deleted" /\ e # d
      BY <1>1 DEF BeginUpload
    <3>4. stored' = stored /\ earlyRemovals' = earlyRemovals
      BY <1>1 DEF BeginUpload
    <3>5. \A e \in Documents : e # d /\ Settled(e) => Settled(e)'
      BY <3>1, <3>4 DEF Settled
    <3> QED BY <3>2, <3>3, <3>5 DEF RemovedBeforeTheRow
  <2>5. UploadedHasFile' /\ FailedOnlyUnwritten'
    BY <1>1 DEF BeginUpload, UploadedHasFile, FailedOnlyUnwritten
  <2> QED BY <2>1, <2>2, <2>3, <2>4, <2>5, <2>7
<1>2. CASE Put(w) \/ PutFails(w)
  <2> DEFINE d == serving[w].document
  <2>1. d \in Documents /\ Uploads(w, d) /\ Doing(w, "put")
    BY <1>2 DEF Put, PutFails
  <2>2. /\ status' = status /\ removals' = removals /\ earlyRemovals' = earlyRemovals
        /\ \E call \in {"markUploaded", "markFailed"} :
               serving' = [serving EXCEPT ![w] = [call |-> call, document |-> d]]
        /\ stored \subseteq stored' /\ stored' \subseteq stored \cup {d}
        /\ lostAnswers \subseteq lostAnswers'
        /\ Doing(w, "markUploaded")' => d \in stored'
        /\ Doing(w, "markFailed")' /\ d \in stored' => d \in stored \/ d \in lostAnswers'
    BY <1>2 DEF Put, PutFails, AfterPut, AfterFailedPut
  <2>3. \A v \in FileWorkers, e \in Documents : Uploads(v, e)' <=> Uploads(v, e)
    BY <2>1, <2>2
  <2>4. OneUploader' BY <2>3 DEF OneUploader
  <2>5. UploadInOrder'
    BY <2>1, <2>2, <2>3 DEF UploadInOrder, OneUploader
  <2>6. NothingBeforeTheRow' BY <2>1, <2>2 DEF NothingBeforeTheRow
  <2>12. /\ \A l \in late' : l \in late \/ l.document = d
         /\ \A e \in Documents : LatePut(e)' => LatePut(e) \/ e = d
    <3>1. CASE GiveUp(w)
      BY <2>1, <3>1, GivenUp
    <3>2. CASE late' = late
      BY <3>2 DEF LatePut
    <3> QED BY <1>2, <3>1, <3>2 DEF Put, PutFails
  <2>13. LateInOrder'
    <3>1. \A l \in late' : status'[l.document] # "absent"
      BY <2>1, <2>2, <2>12 DEF LateInOrder, UploadInOrder
    <3>2. \A v \in FileWorkers, e \in Documents :
             Uploads(v, e)' /\ Doing(v, "put")' => Uploads(v, e) /\ Doing(v, "put") /\ v # w
      BY <2>1, <2>2
    <3>3. \A v \in FileWorkers : v # w => ~Uploads(v, d)
      BY <2>1 DEF OneUploader
    <3> HIDE DEF d
    <3> QED BY <2>12, <3>1, <3>2, <3>3 DEF LateInOrder
  <2>7. \A e \in Documents : Settled(e) => Settled(e)'
    <3>1. Uploading(d)
      BY <2>1 DEF Uploading
    <3>2. \A e \in Documents : Uploading(e)' => Uploading(e)
      <4>1. \A e \in Documents : Uploading(e) <=> LatePut(e) \/ \E v \in FileWorkers : Uploads(v, e)
        BY DEF Uploading
      <4>2. \A e \in Documents :
               Uploading(e)' <=> LatePut(e)' \/ \E v \in FileWorkers : Uploads(v, e)'
        BY DEF Uploading
      <4> HIDE DEF d, Uploads
      <4> QED BY <2>3, <2>12, <3>1, <4>1, <4>2
    <3> HIDE DEF d
    <3> QED BY <2>2, <3>1, <3>2 DEF Settled
  <2>8. RemovedBeforeTheRow' BY <2>1, <2>2, <2>7 DEF RemovedBeforeTheRow
  <2>9. UploadedHasFile' BY <2>2 DEF UploadedHasFile
  <2>10. status[d] # "failed" BY <2>1 DEF UploadInOrder
  <2>11. FailedOnlyUnwritten' BY <2>2, <2>10 DEF FailedOnlyUnwritten
  <2> QED BY <2>4, <2>5, <2>6, <2>8, <2>9, <2>11, <2>13
<1>3. CASE MarkUploaded(w) \/ MarkFailed(w)
  <2> DEFINE d == serving[w].document
  <2>1. d \in Documents /\ Uploads(w, d)
    BY <1>3 DEF MarkUploaded, MarkFailed
  <2>2. /\ UNCHANGED <<stored, late, filesHistory>>
        /\ serving' = [serving EXCEPT ![w] = NoCall]
        /\ \E s \in {"uploaded", "failed"} :
              status' = [status EXCEPT ![d] = IF Exists(d) THEN s ELSE @]
        /\ status'[d] = "uploaded" => d \in stored \cup removals
        /\ status'[d] = "failed" /\ d \in stored => d \in lostAnswers
    BY <1>3, <2>1 DEF MarkUploaded, MarkFailed, Mark, UploadInOrder
  <2>3. OneUploader' BY <2>2 DEF OneUploader
  <2>4. UploadInOrder' BY <2>1, <2>2 DEF UploadInOrder, OneUploader
  <2>5. NothingBeforeTheRow' BY <2>1, <2>2, NoDocumentAssumption DEF NothingBeforeTheRow
  <2>9. LateInOrder'
    <3>1. \A l \in late' : status'[l.document] # "absent"
      BY <2>1, <2>2 DEF LateInOrder
    <3>2. \A v \in FileWorkers, e \in Documents :
             Uploads(v, e)' /\ Doing(v, "put")' => Uploads(v, e) /\ Doing(v, "put")
      BY <2>2
    <3>3. \A e \in Documents : LatePut(e)' <=> LatePut(e)
      BY <2>2 DEF LatePut
    <3> QED BY <3>1, <3>2, <3>3 DEF LateInOrder
  <2>6. \A e \in Documents : Settled(e) => Settled(e)'
    <3>1. \A e \in Documents : Uploading(e)' => Uploading(e)
      BY <2>2 DEF Uploading, LatePut
    <3> QED BY <2>2, <3>1 DEF Settled
  <2>7. RemovedBeforeTheRow' BY <2>1, <2>2, <2>6 DEF RemovedBeforeTheRow
  <2>8. UploadedHasFile' /\ FailedOnlyUnwritten'
    BY <2>1, <2>2 DEF UploadedHasFile, FailedOnlyUnwritten
  <2> QED BY <2>3, <2>4, <2>5, <2>7, <2>8, <2>9
<1> QED BY <1>1, <1>2, <1>3

\* So does every step of a delete, and a kill.
LEMMA DeleteStep ==
    ASSUME FilesInv, NEW w \in FileWorkers,
           (\E d \in Documents : BeginDelete(w, d)) \/ Remove(w) \/ RemoveFails(w)
               \/ DeleteRow(w) \/ Kill(w),
           FilesTypeOK'
    PROVE  FilesInv'
<1>0. Typed /\ Typed' /\ FilesTypeOK'
  BY DEF FilesInv, FilesTypeOK, Typed
<1>9. /\ OneUploader /\ UploadInOrder /\ NothingBeforeTheRow /\ LateInOrder
      /\ RemovedBeforeTheRow /\ UploadedHasFile /\ FailedOnlyUnwritten
  BY DEF FilesInv
<1> SUFFICES /\ OneUploader' /\ UploadInOrder' /\ NothingBeforeTheRow' /\ LateInOrder'
             /\ RemovedBeforeTheRow' /\ UploadedHasFile' /\ FailedOnlyUnwritten'
  BY <1>0 DEF FilesInv
<1> USE <1>0, <1>9 DEF Typed, Then, Answer, Doing, filesHistory, NoCall, Exists, NoRow, DocumentStatus, Uploads
<1>1. /\ \A d \in Documents : status'[d] \in {status[d], "deleted"}
      /\ \A v \in FileWorkers, d \in Documents : Uploads(v, d)' => Uploads(v, d) /\ serving'[v] = serving[v]
      /\ stored' \subseteq stored /\ lostAnswers' = lostAnswers
      /\ removals \subseteq removals' /\ stored \subseteq stored' \cup removals'
      /\ earlyRemovals \subseteq earlyRemovals'
  BY DEF BeginDelete, ObjectFirst, Remove, RemoveFails, Removing, DeleteRow, Kill
<1>2. OneUploader' BY <1>1 DEF OneUploader
<1>3. UploadInOrder' BY <1>1 DEF UploadInOrder
<1>4. NothingBeforeTheRow'
  BY <1>1, NoDocumentAssumption DEF NothingBeforeTheRow, BeginDelete, Remove, RemoveFails, DeleteRow, Kill
<1>5. UploadedHasFile' /\ FailedOnlyUnwritten'
  BY <1>1 DEF UploadedHasFile, FailedOnlyUnwritten
<1>8. /\ \A l \in late' : l \in late \/ (l.document = serving[w].document /\ serving[w] # NoCall)
      /\ \A d \in Documents : LatePut(d)' =>
            LatePut(d) \/ (Uploads(w, d) /\ Doing(w, "put") /\ serving'[w] = NoCall)
  <2>1. CASE GiveUp(w) /\ serving[w].call \in {"put", "remove"} /\ serving'[w] = NoCall
    BY <2>1, GivenUp
  <2>2. CASE late' = late
    BY <2>2 DEF LatePut
  <2> QED BY <2>1, <2>2 DEF BeginDelete, Remove, RemoveFails, DeleteRow, Kill
<1>10. LateInOrder'
  <2>1. \A l \in late' : status'[l.document] # "absent"
    <3> SUFFICES ASSUME NEW l \in late' PROVE status'[l.document] # "absent"
      OBVIOUS
    <3>1. l.document \in Documents
      BY DEF FilesTypeOK
    <3>2. status[l.document] # "absent"
      BY <1>8, <3>1 DEF LateInOrder, NothingBeforeTheRow
    <3> QED BY <1>1, <3>1, <3>2
  <2>2. ASSUME NEW v \in FileWorkers, NEW d \in Documents, Uploads(v, d)', Doing(v, "put")'
        PROVE  ~LatePut(d)'
    <3>1. Uploads(v, d) /\ Doing(v, "put") /\ serving'[v] # NoCall
      BY <1>1, <2>2
    <3>2. ~LatePut(d)
      BY <3>1 DEF LateInOrder
    <3>3. Uploads(w, d) => v = w
      BY <3>1 DEF OneUploader
    <3> QED BY <1>8, <3>1, <3>2, <3>3
  <2> QED BY <2>1, <2>2 DEF LateInOrder
<1>11. \A d \in Documents : Uploading(d)' => Uploading(d)
  <2>1. \A d \in Documents : Uploading(d) <=> LatePut(d) \/ \E v \in FileWorkers : Uploads(v, d)
    BY DEF Uploading
  <2>2. \A d \in Documents :
           Uploading(d)' <=> LatePut(d)' \/ \E v \in FileWorkers : Uploads(v, d)'
    BY DEF Uploading
  <2> HIDE DEF Uploads
  <2> QED BY <1>1, <1>8, <2>1, <2>2
<1>6. \A d \in Documents : Settled(d) => Settled(d)'
  BY <1>1, <1>11 DEF Settled
<1>7. RemovedBeforeTheRow'
  <2>1. CASE Remove(w)
    <3>1. serving[w].document \in Documents BY <2>1 DEF Remove
    <3>2. Settled(serving[w].document)'
      BY <1>11, <2>1, <3>1 DEF Remove, Removing, Settled
    <3> QED BY <1>6, <2>1, <3>1, <3>2 DEF Remove, RemovedBeforeTheRow
  <2>2. CASE DeleteRow(w)
    BY <1>6, <2>2 DEF DeleteRow, RemovedBeforeTheRow
  <2>3. CASE RemoveFails(w) \/ Kill(w)
    BY <1>6, <2>3 DEF RemoveFails, Kill, RemovedBeforeTheRow
  <2>4. CASE \E d \in Documents : BeginDelete(w, d)
    BY <1>6, <2>4 DEF BeginDelete, ObjectFirst, RemovedBeforeTheRow
  <2> QED BY <2>1, <2>2, <2>3, <2>4
<1> QED BY <1>2, <1>3, <1>4, <1>5, <1>7, <1>10

\* So does a call that lands late.
LEMMA LateStep ==
    ASSUME FilesInv, NEW d \in Documents, PutLands(d) \/ RemoveLands(d), FilesTypeOK'
    PROVE  FilesInv'
<1>0. Typed /\ Typed' /\ FilesTypeOK'
  BY DEF FilesInv, FilesTypeOK, Typed
<1>9. /\ OneUploader /\ UploadInOrder /\ NothingBeforeTheRow /\ LateInOrder
      /\ RemovedBeforeTheRow /\ UploadedHasFile /\ FailedOnlyUnwritten
  BY DEF FilesInv
<1> SUFFICES /\ OneUploader' /\ UploadInOrder' /\ NothingBeforeTheRow' /\ LateInOrder'
             /\ RemovedBeforeTheRow' /\ UploadedHasFile' /\ FailedOnlyUnwritten'
  BY <1>0 DEF FilesInv
<1> USE <1>0, <1>9 DEF Typed
<1>1. /\ status' = status /\ serving' = serving /\ late' \subseteq late
      /\ removals \subseteq removals' /\ earlyRemovals \subseteq earlyRemovals'
      /\ lostAnswers \subseteq lostAnswers'
  BY DEF PutLands, RemoveLands, Removing
<1>2. \A e \in Documents : LatePut(e)' => LatePut(e)
  BY <1>1 DEF LatePut
<1>3. \A e \in Documents : Uploading(e)' => Uploading(e)
  BY <1>1, <1>2 DEF Uploading
<1>4. /\ \A e \in stored' : e \in stored \/ (e = d /\ LatePut(d) /\ d \in lostAnswers')
      /\ \A e \in stored : e \in stored' \cup removals'
  BY DEF PutLands, RemoveLands, Removing
<1>5. LatePut(d) => status[d] # "absent"
  BY DEF LateInOrder, LatePut
<1>6. OneUploader'
  BY <1>1 DEF OneUploader, Uploads
<1>7. UploadInOrder'
  BY <1>1, <1>4 DEF UploadInOrder, LateInOrder, Uploads, Doing
<1>8. NothingBeforeTheRow'
  BY <1>1, <1>4, <1>5 DEF NothingBeforeTheRow
<1>10. LateInOrder'
  BY <1>1, <1>2 DEF LateInOrder, Uploads, Doing
<1>11. \A e \in Documents : Settled(e) => Settled(e)'
  <2>1. LatePut(d) => Uploading(d)
    BY DEF Uploading
  <2> QED BY <1>1, <1>3, <1>4, <2>1 DEF Settled
<1>12. RemovedBeforeTheRow'
  <2>1. \A w \in FileWorkers : Doing(w, "deleteRow") => serving[w].document \in Documents
    BY DEF Doing, NoCall
  <2> QED BY <1>1, <1>11, <2>1 DEF RemovedBeforeTheRow, Doing
<1>13. UploadedHasFile' /\ FailedOnlyUnwritten'
  BY <1>1, <1>4 DEF UploadedHasFile, FailedOnlyUnwritten
<1> QED BY <1>6, <1>7, <1>8, <1>10, <1>12, <1>13

\* The invariant holds in every run.
LEMMA FilesInvariant == FilesSpec => []FilesInv
<1>1. FilesInv /\ FilesTypeOK' /\ [FilesNext]_filesVars => FilesInv'
  <2> SUFFICES ASSUME FilesInv, FilesTypeOK', [FilesNext]_filesVars PROVE FilesInv'
    OBVIOUS
  <2>1. CASE UNCHANGED filesVars
    <3>1. UNCHANGED <<status, stored, serving, late, lostAnswers, removals, earlyRemovals>>
      BY <2>1 DEF filesVars
    <3>2. OneUploader' /\ UploadInOrder' /\ NothingBeforeTheRow' /\ LateInOrder'
      BY <3>1 DEF FilesInv, OneUploader, Uploads, UploadInOrder, Doing, NothingBeforeTheRow,
         LateInOrder, LatePut
    <3>3. RemovedBeforeTheRow' /\ UploadedHasFile' /\ FailedOnlyUnwritten'
      BY <3>1 DEF FilesInv, RemovedBeforeTheRow, Settled, Uploading, LatePut, Doing,
         UploadedHasFile, FailedOnlyUnwritten
    <3> QED BY <3>2, <3>3 DEF FilesInv
  <2>2. CASE FilesNext
    BY <2>2, UploadStep, DeleteStep, LateStep DEF FilesNext
  <2> QED BY <2>1, <2>2
<1> QED BY <1>1, Initially, FilesTypeCorrect, PTL DEF FilesSpec

\* Whatever fails, lands late, and whoever deletes what is still being uploaded:
\* a file without a row comes only of such a delete, an uploaded document has its
\* file unless a delete took it, and a failed one has none unless the answer was
\* lost.
THEOREM FilesAccountedFor ==
    FilesSpec => [](OrphanOnlyByEarlyRemoval /\ UploadedHasFile /\ FailedOnlyUnwritten)
<1>1. FilesInv => OrphanOnlyByEarlyRemoval /\ UploadedHasFile /\ FailedOnlyUnwritten
  BY DEF FilesInv, NothingBeforeTheRow, RemovedBeforeTheRow, Settled, OrphanOnlyByEarlyRemoval,
     FilesTypeOK, Exists, NoRow
<1> QED BY <1>1, FilesInvariant, PTL

\* No put is on its way once its request has given it up.
NoLatePut == \A l \in late : l.call # "put"

\* Then, with one worker, a delete meets no upload: neither one that runs nor
\* one that starts before the delete lands.
NoDeleteMeetsUpload ==
    /\ earlyRemovals = {}
    /\ \A l \in late, w \in FileWorkers : ~Uploads(w, l.document)

\* One step of the only worker, or of storage, keeps it so.
LEMMA SerialStep ==
    ASSUME \A w, v \in FileWorkers : w = v,
           FilesTypeOK, FilesInv, NoLatePut, NoLatePut', NoDeleteMeetsUpload, FilesNext
    PROVE  NoDeleteMeetsUpload'
<1>0. Typed /\ LateInOrder
  BY DEF FilesTypeOK, Typed, FilesInv
<1>1. \A d \in Documents : ~LatePut(d)
  BY DEF NoLatePut, LatePut
<1>2. \A l \in late : l.document \in Documents
  BY DEF FilesTypeOK
<1> USE DEF Then, Answer, Doing, filesHistory, NoCall, Uploads, NoDeleteMeetsUpload
<1>3. ASSUME NEW w \in FileWorkers, NEW d \in Documents, BeginUpload(w, d)
      PROVE  NoDeleteMeetsUpload'
  <2>1. late' = late /\ earlyRemovals' = earlyRemovals /\ status[d] = "absent"
    BY <1>3 DEF BeginUpload
  <2>2. \A l \in late : l.document # d
    BY <1>0, <2>1 DEF LateInOrder
  <2>3. \A v \in FileWorkers, e \in Documents : Uploads(v, e)' => e = d
    BY <1>0, <1>3 DEF BeginUpload, Typed
  <2> HIDE DEF Uploads
  <2> QED BY <1>2, <2>1, <2>2, <2>3
<1>4. ASSUME NEW w \in FileWorkers,
             \/ Put(w) \/ PutFails(w) \/ MarkUploaded(w) \/ MarkFailed(w)
      PROVE  NoDeleteMeetsUpload'
  <2>1. late' = late
    BY <1>4 DEF Put, PutFails, GiveUp, MarkUploaded, MarkFailed, Mark, NoLatePut
  <2>2. earlyRemovals' = earlyRemovals
    BY <1>4 DEF Put, PutFails, MarkUploaded, MarkFailed, Mark
  <2>3. \A v \in FileWorkers, e \in Documents : Uploads(v, e)' => Uploads(v, e)
    BY <1>0, <1>4, NoDocumentAssumption
    DEF Put, PutFails, MarkUploaded, MarkFailed, Mark, AfterPut, AfterFailedPut, Typed
  <2> HIDE DEF Uploads
  <2> QED BY <1>2, <2>1, <2>2, <2>3
<1>5. ASSUME NEW w \in FileWorkers,
             \/ \E d \in Documents : BeginDelete(w, d)
             \/ Remove(w) \/ RemoveFails(w) \/ DeleteRow(w) \/ Kill(w)
      PROVE  NoDeleteMeetsUpload'
  <2>1. \A v \in FileWorkers, e \in Documents : ~Uploads(v, e)'
    BY <1>0, <1>5, NoDocumentAssumption
    DEF BeginDelete, ObjectFirst, Remove, RemoveFails, DeleteRow, Kill, Typed
  <2>2. ASSUME Doing(w, "remove") PROVE ~Uploading(serving[w].document)
    <3>1. serving[w].document \in Documents
      BY <1>0, <2>2 DEF Typed
    <3> QED BY <1>1, <2>2, <3>1 DEF Uploading
  <2>3. earlyRemovals' = {}
    BY <1>5, <2>2 DEF BeginDelete, Remove, RemoveFails, Removing, DeleteRow, Kill
  <2>4. \A l \in late' : l.document \in Documents
    <3>1. CASE serving[w].call \in {"put", "remove"}
      <4>1. serving[w].document \in Documents
        BY <1>0, <3>1 DEF Typed
      <4>2. late' = late \/ late' = late \cup {serving[w]}
        BY <1>5 DEF BeginDelete, Remove, RemoveFails, DeleteRow, Kill, GiveUp
      <4> QED BY <1>2, <4>1, <4>2
    <3>2. CASE serving[w].call \notin {"put", "remove"}
      BY <1>2, <1>5, <3>2 DEF BeginDelete, Remove, RemoveFails, DeleteRow, Kill
    <3> QED BY <3>1, <3>2
  <2> HIDE DEF Uploads
  <2> QED BY <2>1, <2>3, <2>4
<1>6. ASSUME NEW d \in Documents, PutLands(d) \/ RemoveLands(d)
      PROVE  NoDeleteMeetsUpload'
  <2>1. RemoveLands(d)
    BY <1>1, <1>6 DEF PutLands
  <2>2. ~Uploading(d)
    BY <1>1, <2>1 DEF RemoveLands, Uploading
  <2> QED BY <2>1, <2>2 DEF RemoveLands, Removing
<1> QED BY <1>3, <1>4, <1>5, <1>6 DEF FilesNext

\* With one worker whose puts land while it waits, or never, no file is ever
\* without a row.
THEOREM SerialNoOrphan ==
    ASSUME \A w, v \in FileWorkers : w = v
    PROVE  FilesSpec /\ []NoLatePut => []NoOrphan
<1>1. FilesInit => NoDeleteMeetsUpload
  BY DEF FilesInit, NoDeleteMeetsUpload
<1>2. /\ FilesTypeOK /\ FilesInv /\ NoLatePut /\ NoLatePut' /\ NoDeleteMeetsUpload
      /\ [FilesNext]_filesVars
      => NoDeleteMeetsUpload'
  <2>1. NoDeleteMeetsUpload /\ UNCHANGED filesVars => NoDeleteMeetsUpload'
    BY DEF NoDeleteMeetsUpload, Uploads, filesVars
  <2> QED BY <2>1, SerialStep
<1>3. NoDeleteMeetsUpload /\ OrphanOnlyByEarlyRemoval => NoOrphan
  BY DEF NoDeleteMeetsUpload, OrphanOnlyByEarlyRemoval, NoOrphan
<1> QED
  BY <1>1, <1>2, <1>3, FilesTypeCorrect, FilesInvariant, FilesAccountedFor, PTL DEF FilesSpec
=============================================================================

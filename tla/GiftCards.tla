----------------------------- MODULE GiftCards -----------------------------
(***************************************************************************)
(* Gift cards (the second half of loyalty/services.py and GiftCardViewSet  *)
(* of loyalty/views.py).                                                   *)
(*                                                                         *)
(* reload and redeem lock the card and are one atomic action each.  The    *)
(* generic PUT and PATCH save every column of the row they fetched.  Send  *)
(* fetches the row, calls the mail provider outside any transaction and    *)
(* then saves sent_at alone.  No card is ever deleted: its first ledger    *)
(* entry protects it.                                                      *)
(***************************************************************************)
EXTENDS Integers

CONSTANTS
    Cards,          \* primary keys of gift cards
    Workers,        \* web workers, each serving one request at a time
    Amounts,        \* what a card may be sold, reloaded or redeemed for
    MaxBalance,     \* the largest value of the numeric(10, 2) column
    MaxEntries,     \* bound: ledger entries per card
    Horizon,        \* bound: the clock stops here
    NoCard          \* no row

Dates == 0..Horizon + 1         \* Horizon + 1: the card does not expire
Row == [balance : -MaxBalance..MaxBalance, active : BOOLEAN,
        expires : Dates, addressed : BOOLEAN, sent : BOOLEAN]

ASSUME AmountsAssumption == MaxBalance \in Nat /\ Amounts \subseteq 1..MaxBalance
ASSUME MaxEntriesAssumption == MaxEntries \in Nat
ASSUME HorizonAssumption == Horizon \in Nat
ASSUME NoCardAssumption ==
    /\ NoCard \notin Cards \cup Row
    /\ NoCard \notin [opening : Nat, balance : Int, posted : Int]

VARIABLES
    card,           \* GiftCard rows, or NoCard
    posted,         \* the sum of the card's GiftCardTransaction rows
    entries,        \* how many of them there are
    request,        \* the row each worker has fetched
    now,            \* the clock
    delivered,      \* cards whose mail the provider has accepted
    staleWrites     \* history: cards saved with an outdated balance

ledgerVars == <<posted, entries>>
vars == <<card, posted, entries, request, now, delivered, staleWrites>>

Idle == [op |-> "idle", card |-> NoCard, row |-> NoCard]
Issued(c) == card[c] # NoCard

TypeOK ==
    /\ card \in [Cards -> Row \cup {NoCard}]
    /\ posted \in [Cards -> Int]
    /\ entries \in [Cards -> 0..MaxEntries]
    /\ request \in [Workers ->
          [op : {"idle", "update", "send", "sent"}, card : Cards \cup {NoCard},
           row : Row \cup {NoCard}]]
    /\ now \in 0..Horizon
    /\ delivered \subseteq Cards
    /\ staleWrites \subseteq Cards

Init ==
    /\ card = [c \in Cards |-> NoCard]
    /\ posted = [c \in Cards |-> 0]
    /\ entries = [c \in Cards |-> 0]
    /\ request = [w \in Workers |-> Idle]
    /\ now = 0
    /\ delivered = {}
    /\ staleWrites = {}

NewCard(b, e, addressed) ==
    [balance |-> b, active |-> TRUE, expires |-> e,
     addressed |-> addressed, sent |-> FALSE]

\* create_gift_card: the card and its initial ledger entry.
CreateCard(w, c, b, e, addressed) ==
    /\ request[w] = Idle
    /\ card[c] = NoCard
    /\ entries[c] < MaxEntries
    /\ card' = [card EXCEPT ![c] = NewCard(b, e, addressed)]
    /\ posted' = [posted EXCEPT ![c] = b]
    /\ entries' = [entries EXCEPT ![c] = @ + 1]
    /\ UNCHANGED <<request, now, delivered, staleWrites>>

WithBalance(r, b) ==
    [balance |-> b, active |-> r.active, expires |-> r.expires,
     addressed |-> r.addressed, sent |-> r.sent]

ColumnHolds(c, d) == card[c].balance + d <= MaxBalance

\* The balance and the ledger entry of a reload or a redemption.
PostTo(c, d) ==
    /\ entries[c] < MaxEntries
    /\ ColumnHolds(c, d)
    /\ card' = [card EXCEPT ![c] = WithBalance(card[c], card[c].balance + d)]
    /\ posted' = [posted EXCEPT ![c] = @ + d]
    /\ entries' = [entries EXCEPT ![c] = @ + 1]

\* Neither an inactive nor an expired card is refused.
Reload(w, c, p) ==
    /\ request[w] = Idle
    /\ Issued(c)
    /\ PostTo(c, p)
    /\ UNCHANGED <<request, now, delivered, staleWrites>>

Redeemable(c, p) ==
    /\ card[c].active
    /\ card[c].expires > now
    /\ p <= card[c].balance

Redeem(w, c, p) ==
    /\ request[w] = Idle
    /\ Issued(c)
    /\ Redeemable(c, p)
    /\ PostTo(c, -p)
    /\ UNCHANGED <<request, now, delivered, staleWrites>>

\* PUT, PATCH and send begin alike: get_object reads the row, and send then
\* refuses a card without a recipient.
Begin(w, op, c) ==
    /\ request[w] = Idle
    /\ Issued(c)
    /\ op = "send" => card[c].addressed
    /\ request' = [request EXCEPT ![w] = [op |-> op, card |-> c, row |-> card[c]]]
    /\ UNCHANGED <<card, ledgerVars, now, delivered, staleWrites>>

WritableBalance(r, active, e, addressed, sent) ==   \* faulty variant: not read-only
    [balance |-> MaxBalance - r.balance, active |-> active, expires |-> e,
     addressed |-> addressed, sent |-> sent]

\* Of the columns a request may set, here those that matter later.
UpdatedRow(r, active, e, addressed, sent) ==
    [balance |-> r.balance, active |-> active, expires |-> e,
     addressed |-> addressed, sent |-> sent]

\* serializer.save() writes every column; balance and sent_at are read-only,
\* so they are written as they were fetched.
FinishUpdate(w, active, e, addressed) ==
    LET r == request[w].row
        c == request[w].card
    IN  /\ request[w].op = "update"
        /\ card' = [card EXCEPT ![c] = UpdatedRow(r, active, e, addressed, r.sent)]
        /\ staleWrites' = IF card[c].balance # r.balance
                            THEN staleWrites \cup {c} ELSE staleWrites
        /\ request' = [request EXCEPT ![w] = Idle]
        /\ UNCHANGED <<ledgerVars, now, delivered>>

\* The provider accepts the mail and its answer arrives.
Deliver(w) ==
    /\ request[w].op = "send"
    /\ delivered' = delivered \cup {request[w].card}
    /\ request' = [request EXCEPT ![w] =
          [op |-> "sent", card |-> request[w].card, row |-> request[w].row]]
    /\ UNCHANGED <<card, ledgerVars, now, staleWrites>>

\* It refuses, or the call times out before or after it has accepted.  Either
\* error ends the request before sent_at is saved.
DeliverFails(w) ==
    /\ request[w].op = "send"
    /\ delivered' \in {delivered, delivered \cup {request[w].card}}
    /\ request' = [request EXCEPT ![w] = Idle]
    /\ UNCHANGED <<card, ledgerVars, now, staleWrites>>

AfterFetch == {"send", "sent"}             \* faulty variant: saved before the call
AfterDelivery == {"sent"}

\* save(update_fields=["sent_at", ...]).
FinishSend(w) ==
    LET c == request[w].card
        r == card[c]
    IN  /\ request[w].op \in AfterDelivery
        /\ card' = [card EXCEPT ![c] =
              UpdatedRow(r, r.active, r.expires, r.addressed, TRUE)]
        /\ request' = [request EXCEPT ![w] = Idle]
        /\ UNCHANGED <<ledgerVars, now, delivered, staleWrites>>

Tick ==
    /\ now < Horizon
    /\ now' = now + 1
    /\ UNCHANGED <<card, ledgerVars, request, delivered, staleWrites>>

Next ==
    \/ Tick
    \/ \E w \in Workers :
          \/ Deliver(w) \/ DeliverFails(w) \/ FinishSend(w)
          \/ \E active, addressed \in BOOLEAN, e \in Dates :
                FinishUpdate(w, active, e, addressed)
          \/ \E c \in Cards :
                \/ \E op \in {"update", "send"} : Begin(w, op, c)
                \/ \E p \in Amounts :
                      \/ Reload(w, c, p) \/ Redeem(w, c, p)
                      \/ \E e \in Dates, addressed \in BOOLEAN :
                            CreateCard(w, c, p, e, addressed)

Spec == Init /\ [][Next]_vars

(***************************************************************************)
(* Properties.                                                             *)
(***************************************************************************)

\* redeem_gift_card never takes more than there is, and what an outdated
\* update puts back was never negative either.
BalanceNeverNegative ==
    \A c \in Cards : Issued(c) => card[c].balance >= 0

\* A card is marked as sent only if its mail was accepted, whichever fetched
\* row is saved last.
SentWasDelivered ==
    \A c \in Cards : Issued(c) /\ card[c].sent => c \in delivered

\* A card whose balance the ledger vouches for.
Reconciled(c) == Issued(c) /\ c \notin staleWrites

\* The balance and the ledger disagree only where a generic update saved a
\* balance it had fetched before somebody else changed it.
DriftOnlyByStaleUpdate ==
    \A c \in Cards :
        Reconciled(c) => card[c].balance = posted[c]

\* GiftCardSerializer: "balances only via reload/redeem": whenever the
\* balance changes, so does the ledger, and by the same amount.
BalanceOnlyByLedger ==
    [][\A c \in Cards :
          Issued(c) => card'[c].balance - card[c].balance = posted'[c] - posted[c]]_vars

\* A card and its ledger as an abstract account: it is opened and posted to
\* in the transaction that sells the card, and ends when a stale update
\* overwrites the balance.
Ledger == INSTANCE LedgerAccount WITH
    Accounts <- Cards,
    Openings <- {0},
    Changes <- Amounts \cup {-p : p \in Amounts},
    NoAccount <- NoCard,
    account <- [c \in Cards |->
                  IF Reconciled(c)
                    THEN [opening |-> 0, balance |-> card[c].balance,
                          posted |-> posted[c]]
                    ELSE NoCard]

\* Until then gift cards implement the abstract account: only reload and
\* redeem move the balance, always together with a ledger entry and never
\* below zero, and a send that is under way brings no old balance back.
KeepsLedger == Ledger!Spec
=============================================================================

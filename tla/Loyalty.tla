------------------------------ MODULE Loyalty ------------------------------
(***************************************************************************)
(* Loyalty points: accounts, the grants that earn points, orders and their *)
(* conversion to invoices, and the daily expiry task (loyalty/services.py, *)
(* loyalty/models.py).                                                     *)
(*                                                                         *)
(* Every service locks the account (or the order, then the account) and    *)
(* computes from what it reads under the lock, so each is one atomic       *)
(* action whoever calls it.  The expiry task is not: it lists the grants   *)
(* that are due, then expires them one transaction at a time, and two runs *)
(* of it may overlap or be killed half-way.                                *)
(***************************************************************************)
EXTENDS Integers

CONSTANTS
    Accounts,       \* (customer, program) pairs
    Orders,         \* primary keys of orders
    Grants,         \* primary keys of the ledger rows that earn points
    Runs,           \* executions of the expiry task that may overlap
    Points,         \* what an award or a redemption may ask for
    Settings,       \* tier thresholds a program may be given
    MaxCrashes,     \* bound: how often a run of the task is killed
    NoAccount       \* no row

Tier == {"bronze", "silver", "gold", "platinum"}
AccountRow == [available : Int, lifetime : Nat, tier : Tier]

ASSUME PointsAssumption == Points \subseteq Nat \ {0}
ASSUME SettingsAssumption ==
    Settings \subseteq [silver : Nat, gold : Nat, platinum : Nat]
ASSUME MaxCrashesAssumption == MaxCrashes \in Nat
ASSUME NoAccountAssumption ==
    /\ NoAccount \notin Accounts \cup AccountRow
    /\ NoAccount \notin [opening : Nat, balance : Int, posted : Int]

VARIABLES
    account,        \* CustomerLoyaltyAccount rows, or NoAccount
    posted,         \* the sum of the account's PointsTransaction rows
    thresholds,     \* the program's tier thresholds
    grant,          \* the rows that earn points
    taken,          \* per grant, what its expiration and reversal rows took
    order,          \* Order rows
    due,            \* what each run of the task still has to expire
    crashes

orderVars == <<order>>
taskVars == <<due, crashes>>
vars == <<account, posted, thresholds, grant, taken, order, due, crashes>>

NoGrant == [account |-> NoAccount, points |-> 0, expires |-> "never"]
NothingTaken == [expired |-> FALSE, expiredPoints |-> 0, reversedPoints |-> 0]
NewAccount == [available |-> 0, lifetime |-> 0, tier |-> "bronze"]
NoOrder == [status |-> "absent", earned |-> {}, invoiced |-> FALSE, live |-> 0]

Min2(m, n) == IF m < n THEN m ELSE n

TypeOK ==
    /\ account \in [Accounts -> AccountRow \cup {NoAccount}]
    /\ posted \in [Accounts -> Int]
    /\ thresholds \in Settings
    /\ grant \in [Grants ->
          [account : Accounts \cup {NoAccount}, points : Points \cup {0},
           expires : {"never", "later", "due"}]]
    /\ taken \in [Grants ->
          [expired : BOOLEAN, expiredPoints : Nat, reversedPoints : Nat]]
    /\ order \in [Orders ->
          [status : {"absent", "completed", "cancelled"},
           earned : SUBSET Grants, invoiced : BOOLEAN, live : Nat]]
    /\ due \in [Runs -> SUBSET Grants]
    /\ crashes \in 0..MaxCrashes

Init ==
    /\ account = [a \in Accounts |-> NoAccount]
    /\ posted = [a \in Accounts |-> 0]
    /\ thresholds \in Settings
    /\ grant = [g \in Grants |-> NoGrant]
    /\ taken = [g \in Grants |-> NothingTaken]
    /\ order = [o \in Orders |-> NoOrder]
    /\ due = [r \in Runs |-> {}]
    /\ crashes = 0

(***************************************************************************)
(* Accounts and points.                                                    *)
(***************************************************************************)

TierFor(lifetime) ==
    CASE lifetime >= thresholds.platinum -> "platinum"
      [] lifetime < thresholds.platinum /\ lifetime >= thresholds.gold -> "gold"
      [] lifetime < thresholds.platinum /\ lifetime < thresholds.gold
            /\ lifetime >= thresholds.silver -> "silver"
      [] OTHER -> "bronze"

TierKept(acc) == acc                       \* faulty variant: no recalculation

\* _recalculate_tier, called before every save of the points.
WithTier(acc) == [acc EXCEPT !.tier = TierFor(acc.lifetime)]

CreateAccount(a) ==
    /\ account[a] = NoAccount
    /\ account' = [account EXCEPT ![a] = NewAccount]
    /\ UNCHANGED <<posted, thresholds, grant, taken, orderVars, taskVars>>

\* PROTECT: an account can be deleted until its first transaction.
DestroyAccount(a) ==
    /\ account[a] # NoAccount
    /\ \A g \in Grants : grant[g].account # a
    /\ account' = [account EXCEPT ![a] = NoAccount]
    /\ UNCHANGED <<posted, thresholds, grant, taken, orderVars, taskVars>>

\* What award_points does to an account row and to the ledger.
Awarded(acc, p) ==
    WithTier([acc EXCEPT !.available = acc.available + p,
                         !.lifetime = acc.lifetime + p])

Award(a, acc, g, p, expires) ==
    /\ grant[g] = NoGrant
    /\ account' = [account EXCEPT ![a] = Awarded(acc, p)]
    /\ posted' = [posted EXCEPT ![a] = @ + p]
    /\ grant' = [grant EXCEPT
          ![g] = [account |-> a, points |-> p, expires |-> expires]]

AwardPoints(a, g, p, expires) ==
    /\ account[a] # NoAccount
    /\ Award(a, account[a], g, p, expires)
    /\ UNCHANGED <<thresholds, taken, orderVars, taskVars>>

\* Every debit: the balance, the tier and the ledger entry together.
Debited(acc, p) == WithTier([acc EXCEPT !.available = acc.available - p])

Debit(a, p) ==
    /\ account' = [account EXCEPT ![a] = Debited(account[a], p)]
    /\ posted' = [posted EXCEPT ![a] = @ - p]

Covered(a, p) == p <= account[a].available

RedeemPoints(a, p) ==
    /\ account[a] # NoAccount
    /\ Covered(a, p)
    /\ Debit(a, p)
    /\ UNCHANGED <<thresholds, grant, taken, orderVars, taskVars>>

\* PATCH of the program; no account is touched.
ChangeSettings(s) ==
    /\ s # thresholds
    /\ thresholds' = s
    /\ UNCHANGED <<account, posted, grant, taken, orderVars, taskVars>>

(***************************************************************************)
(* Orders.                                                                 *)
(***************************************************************************)

Completed(earned) ==
    [status |-> "completed", earned |-> earned, invoiced |-> FALSE, live |-> 0]

\* create_order_and_award_points: the order, the account if the customer has
\* none, and the grant, in one transaction.
CreateOrder(o, a, g, p, expires) ==
    /\ order[o].status = "absent"
    /\ order' = [order EXCEPT ![o] = Completed({g})]
    /\ Award(a, IF account[a] = NoAccount THEN NewAccount ELSE account[a],
             g, p, expires)
    /\ UNCHANGED <<thresholds, taken, taskVars>>

\* The same where there is no active program or the total earns no points:
\* with a program and a positive total the account is created all the same.
CreateOrderWithoutPoints(o, a, enrol) ==
    /\ order[o].status = "absent"
    /\ order' = [order EXCEPT ![o] = Completed({})]
    /\ account' = IF enrol /\ account[a] = NoAccount
                    THEN [account EXCEPT ![a] = NewAccount] ELSE account
    /\ UNCHANGED <<posted, thresholds, grant, taken, taskVars>>

WholeGrant(g) == grant[g].points                      \* faulty variant

Cancellable(o) == order[o].status = "completed"

\* What a reversal or an expiration takes back of a grant: what is left.
TakenBack(g) == Min2(grant[g].points, account[grant[g].account].available)

CancelOrder(o) ==
    /\ Cancellable(o)
    /\ order' = [order EXCEPT ![o].status = "cancelled"]
    /\ IF order[o].earned = {}
         THEN UNCHANGED <<account, posted, taken>>
         ELSE \E g \in order[o].earned :
                /\ IF TakenBack(g) > 0
                     THEN Debit(grant[g].account, TakenBack(g))
                     ELSE UNCHANGED <<account, posted>>
                /\ taken' = [taken EXCEPT ![g].reversedPoints = @ + TakenBack(g)]
    /\ UNCHANGED <<thresholds, grant, taskVars>>

ConvertibleAgain(o) == order[o].status = "completed"  \* faulty variant

Convertible(o) == order[o].status = "completed" /\ ~ order[o].invoiced

\* convert_order_to_invoice repeats its checks under the lock.  live counts
\* the invoices that came from the order and still exist.
ConvertOrder(o) ==
    /\ Convertible(o)
    /\ order' = [order EXCEPT
          ![o] = [@ EXCEPT !.invoiced = TRUE, !.live = order[o].live + 1]]
    /\ UNCHANGED <<account, posted, thresholds, grant, taken, taskVars>>

\* The invoice is deleted: Order.invoice is SET_NULL.
InvoiceDeleted(o) ==
    /\ order[o].invoiced
    /\ order' = [order EXCEPT
          ![o] = [@ EXCEPT !.invoiced = FALSE, !.live = order[o].live - 1]]
    /\ UNCHANGED <<account, posted, thresholds, grant, taken, taskVars>>

(***************************************************************************)
(* Expiry.                                                                 *)
(***************************************************************************)

FallsDue(g) ==
    /\ grant[g].expires = "later"
    /\ grant' = [grant EXCEPT ![g].expires = "due"]
    /\ UNCHANGED <<account, posted, thresholds, taken, orderVars, taskVars>>

DueNow == {g \in Grants : grant[g].expires = "due" /\ ~ taken[g].expired}

\* expire_due_points evaluates its query once.
BeginExpiry(r) ==
    /\ due[r] = {}
    /\ DueNow # {}
    /\ due' = [due EXCEPT ![r] = DueNow]
    /\ UNCHANGED <<account, posted, thresholds, grant, taken, orderVars, crashes>>

NeverCompensated(g) == TRUE                \* faulty variant: no constraint
CompensatedIfAny(g) ==                     \* faulty variant: no row for 0 points
    ~ taken[g].expired /\ TakenBack(g) > 0

\* unique_expiration_per_transaction lets the compensating row in.
Uncompensated(g) == ~ taken[g].expired

\* One grant of the list, in a transaction of its own.  Where another run has
\* expired it already the constraint fails and the whole step is undone.
ExpireGrant(r, g) ==
    /\ g \in due[r]
    /\ due' = [due EXCEPT ![r] = @ \ {g}]
    /\ IF Uncompensated(g)
         THEN /\ IF TakenBack(g) > 0
                   THEN Debit(grant[g].account, TakenBack(g))
                   ELSE UNCHANGED <<account, posted>>
              /\ taken' = [taken EXCEPT ![g] =
                    [expired |-> TRUE,
                     expiredPoints |-> taken[g].expiredPoints + TakenBack(g),
                     reversedPoints |-> taken[g].reversedPoints]]
         ELSE UNCHANGED <<account, posted, taken>>
    /\ UNCHANGED <<thresholds, grant, orderVars, crashes>>

\* The process running the task is killed between two grants.
KillRun(r) ==
    /\ due[r] # {}
    /\ crashes < MaxCrashes
    /\ due' = [due EXCEPT ![r] = {}]
    /\ crashes' = crashes + 1
    /\ UNCHANGED <<account, posted, thresholds, grant, taken, orderVars>>

(***************************************************************************)
(* The specification.                                                      *)
(***************************************************************************)

Earning == {"never", "later"}

Next ==
    \/ \E a \in Accounts :
          \/ CreateAccount(a) \/ DestroyAccount(a)
          \/ \E p \in Points : RedeemPoints(a, p)
          \/ \E g \in Grants, p \in Points, e \in Earning : AwardPoints(a, g, p, e)
    \/ \E s \in Settings : ChangeSettings(s)
    \/ \E o \in Orders :
          \/ CancelOrder(o) \/ ConvertOrder(o) \/ InvoiceDeleted(o)
          \/ \E a \in Accounts :
                \/ \E enrol \in BOOLEAN : CreateOrderWithoutPoints(o, a, enrol)
                \/ \E g \in Grants, p \in Points, e \in Earning :
                      CreateOrder(o, a, g, p, e)
    \/ \E g \in Grants : FallsDue(g)
    \/ \E r \in Runs :
          \/ BeginExpiry(r) \/ KillRun(r)
          \/ \E g \in Grants : ExpireGrant(r, g)

Spec == Init /\ [][Next]_vars

\* Celery Beat starts the task every day and a run that is not killed goes
\* through its list.
FairSpec ==
    /\ Spec
    /\ \A r \in Runs :
          /\ WF_vars(BeginExpiry(r))
          /\ \A g \in Grants : WF_vars(ExpireGrant(r, g))

(***************************************************************************)
(* Properties.                                                             *)
(***************************************************************************)

\* Redeeming, cancelling and expiring race for the same points, and between
\* them never take more than there are.
AvailableNeverNegative ==
    \A a \in Accounts : account[a] # NoAccount => account[a].available >= 0

\* An expiration takes at most what its grant earned, over overlapping and
\* repeated runs of the task, and a reversal too.
NeverTakesMoreThanGranted ==
    \A g \in Grants :
        /\ taken[g].expiredPoints <= grant[g].points
        /\ taken[g].reversedPoints <= grant[g].points

\* The tier is a cached function of the lifetime points: every step that moves
\* points leaves it the one the thresholds of that moment give, and no other
\* step touches it, an edit of the thresholds included.
TierFollowsPoints ==
    [][\A a \in Accounts :
          account[a] # NoAccount /\ account'[a] # NoAccount =>
            IF [account[a] EXCEPT !.tier = "none"] # [account'[a] EXCEPT !.tier = "none"]
            THEN account'[a].tier = TierFor(account'[a].lifetime)
            ELSE account'[a].tier = account[a].tier]_vars

\* An order is billed by at most one invoice at a time.
BilledOnce == \A o \in Orders : order[o].live <= 1

\* A grant that is past its date is expired, although runs of the task
\* overlap and may be killed.
DueGrantsExpire ==
    \A g \in Grants :
        grant[g].expires = "due" ~> taken[g].expired

\* "a tier never drops just because points were spent"
TierKeptBySpending ==
    [][\A a \in Accounts :
          /\ account[a] # NoAccount /\ account'[a] # NoAccount
          /\ account'[a].available < account[a].available
          => account'[a].tier = account[a].tier]_vars

\* A clamped debit posts any amount up to the one asked for.
LedgerChanges == UNION {-p..p : p \in Points}

\* An account and its ledger as an abstract account.
Ledger == INSTANCE LedgerAccount WITH
    Openings <- {0},
    Changes <- LedgerChanges,
    account <- [a \in Accounts |->
                  IF account[a] # NoAccount
                    THEN [opening |-> 0, balance |-> account[a].available,
                          posted |-> posted[a]]
                    ELSE NoAccount]

\* However requests, runs of the task and cancellations interleave, points
\* only change together with a ledger entry, and are never overdrawn.
KeepsLedger == Ledger!Spec
=============================================================================

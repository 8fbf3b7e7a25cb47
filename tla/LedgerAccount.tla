--------------------------- MODULE LedgerAccount ---------------------------
(***************************************************************************)
(* What the service layers of inventory, gift cards and loyalty points     *)
(* promise of a stored balance: it starts at an opening value, it only     *)
(* ever changes together with a ledger entry that records the change, and  *)
(* a change that would make it negative is refused.                        *)
(***************************************************************************)
EXTENDS Integers

CONSTANTS
    Accounts,   \* whatever carries a balance: items, cards, loyalty accounts
    Openings,   \* opening values
    Changes,    \* changes that may be asked for
    NoAccount   \* the account does not exist

VARIABLE account    \* the opening value, the balance and the ledger's sum

Opened(b) == [opening |-> b, balance |-> b, posted |-> 0]

Posted(acc, d) == [opening |-> acc.opening,
                   balance |-> acc.balance + d,
                   posted |-> acc.posted + d]

Init == account = [a \in Accounts |-> NoAccount]

Open(a, b) ==
    /\ account[a] = NoAccount
    /\ account' = [account EXCEPT ![a] = Opened(b)]

\* The transaction that opens an account may post to it as well.
OpenAndPost(a, b, d) ==
    /\ account[a] = NoAccount
    /\ b + d >= 0
    /\ account' = [account EXCEPT ![a] = Posted(Opened(b), d)]

Post(a, d) ==
    /\ account[a] # NoAccount
    /\ account[a].balance + d >= 0
    /\ account' = [account EXCEPT ![a] = Posted(@, d)]

Close(a) ==
    /\ account[a] # NoAccount
    /\ account' = [account EXCEPT ![a] = NoAccount]

Next == \E a \in Accounts :
    \/ \E b \in Openings : Open(a, b)
    \/ \E b \in Openings, d \in Changes : OpenAndPost(a, b, d)
    \/ \E d \in Changes : Post(a, d)
    \/ Close(a)

Spec == Init /\ [][Next]_account
=============================================================================

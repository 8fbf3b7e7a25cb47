----------------------------- MODULE MCBilling -----------------------------
EXTENDS Billing, TLC

CONSTANTS e1, i1, i2, i3, w1, w2

\* Quantities are halves, percentages twentieths, rates 1/4000, which is what
\* 14.975 % takes: the tax of 1.5 at 3 cents less 25 % is a fraction.
Lines == {<<[quantity |-> 3, price |-> 3]>>,
          <<[quantity |-> 2, price |-> 97], [quantity |-> 1, price |-> 5]>>}
Discounts == {[type |-> "none", value |-> 0], [type |-> "percentage", value |-> 5],
              [type |-> "fixed", value |-> 10]}
MCContents == {[lines |-> l, discount |-> d, tax |-> 599] : l \in Lines, d \in Discounts}

Symmetry == Permutations({i1, i2, i3}) \cup Permutations({w1, w2})
=============================================================================

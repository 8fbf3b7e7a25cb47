------------------------------- MODULE Totals -------------------------------
(***************************************************************************)
(* What an estimate, an invoice or a bill adds up to (finance/tax.py).     *)
(*                                                                         *)
(* The code computes with exact decimals and rounds each of the five       *)
(* results by itself, half up, to a cent: the total is not the sum of the  *)
(* rounded amounts.  Here prices are in cents and every exact amount is a  *)
(* multiple of 1/Unit of a cent.                                           *)
(***************************************************************************)
EXTENDS Integers, SequencesExt

CONSTANTS
    QuantityParts, \* a quantity counts parts of one, hundredths in the code
    PercentParts,  \* a percentage counts parts of the whole, 1/10000 there
    RateParts      \* a tax rate counts parts of the whole, 1/100000 there

ASSUME PartsAssumption == {QuantityParts, PercentParts, RateParts} \subseteq Nat \ {0}

Unit == QuantityParts * PercentParts * RateParts

\* ROUND_HALF_UP: to the nearest cent, a half away from zero.
RoundHalfUp(x) ==
    IF x >= 0 THEN (2 * x + Unit) \div (2 * Unit) ELSE -((Unit - 2 * x) \div (2 * Unit))

Subtotal(lines) ==
    FoldLeft(LAMBDA sum, line : sum + line.quantity * line.price, 0, lines)
       * PercentParts * RateParts

Discount(discount, subtotal) ==
    CASE discount.type = "none" -> 0
      [] discount.type = "percentage" -> (subtotal \div PercentParts) * discount.value
      [] discount.type = "fixed" -> discount.value * Unit

Reduced(subtotal, discount) == subtotal - discount \* faulty variant: not clamped
Taxable(subtotal, discount) ==
    IF discount > subtotal THEN 0 ELSE subtotal - discount

Tax(taxable, rate) == (taxable \div RateParts) * rate

\* calculate_totals, for a document that holds lines, a discount and a tax rate.
CalculateTotals(content) ==
    LET subtotal == Subtotal(content.lines)
        discount == Discount(content.discount, subtotal)
        taxable == Taxable(subtotal, discount)
        tax == Tax(taxable, content.tax)
    IN [subtotal |-> RoundHalfUp(subtotal), discount |-> RoundHalfUp(discount),
        taxable |-> RoundHalfUp(taxable), tax |-> RoundHalfUp(tax),
        total |-> RoundHalfUp(taxable + tax)]
=============================================================================

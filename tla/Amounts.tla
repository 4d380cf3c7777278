------------------------------ MODULE Amounts ------------------------------
(***************************************************************************)
(* The amount arithmetic of core/compare/amount.py and amount_match.py, in *)
(* minor units of one currency.  `p` is a policy; its percentages are      *)
(* whole percents, so a threshold is compared without a fraction.          *)
(***************************************************************************)
EXTENDS Integers

\* _relation: ledger against the order total.
Relation(expected, received) ==
    CASE expected = received -> "EXACT"
      [] expected > received -> "UNDER"
      [] OTHER               -> "OVER"

\* is_material_inflation: both knobs must be cleared.
MaterialInflation(claimed, received, p) ==
    LET inflation == claimed - received
    IN /\ inflation > 0
       /\ inflation >= p.inflation
       /\ 100 * inflation >= p.inflationPct * received

\* is_material_overpayment, which compare_amounts asks only of OVER.
MaterialOverpayment(expected, received, p) ==
    LET overpayment == received - expected
    IN /\ overpayment > 0
       /\ overpayment >= p.overpayment
       /\ 100 * overpayment >= p.overpaymentPct * expected

WithinTolerance(a, b, p) == a - b \in -p.tolerance..p.tolerance

MaxZeros == 9   \* bound on the zeros one amount has more than the other

\* is_power_of_ten_multiple: the same digits with zeros appended.
PowerOfTenMultiple(a, b) ==
    /\ b > 0 /\ a > b
    /\ a % b = 0
    /\ \E k \in 1..MaxZeros : a \div b = 10^k

\* The AMOUNT_MATCH ladder for two amounts that were both read.
AmountLevel(claimed, received, p) ==
    CASE claimed = received                      -> "AMT_EXACT"
      [] /\ claimed # received
         /\ WithinTolerance(claimed, received, p) -> "AMT_TOLERANCE"
      [] /\ ~WithinTolerance(claimed, received, p)
         /\ \/ PowerOfTenMultiple(claimed, received)
            \/ PowerOfTenMultiple(received, claimed) -> "AMT_SCALED"
      [] OTHER                                   -> "AMT_ELSE"
=============================================================================

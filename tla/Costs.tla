--------------------------------- MODULE Costs ---------------------------------
(***************************************************************************)
(* What collecting costs, in cents (app/collections/wik.py, nakosten.py,   *)
(* payment_distribution.py and the agreements on costs of                  *)
(* app/collections/service.py and app/cases/service.py): the statutory     *)
(* scale of art. 6:96 BW, what a case may agree instead, the costs after a *)
(* judgment, and the division of a payment over the parts of a debt.       *)
(*                                                                         *)
(* Every amount is an integer number of cents, a percentage an integer     *)
(* number of hundredths of a percent.                                      *)
(***************************************************************************)
EXTENDS Integers

\* A column that is NULL.
Unset == -1

Least(a, b) == IF a < b THEN a ELSE b

Greatest(a, b) == IF a < b THEN b ELSE a

AtLeastZero(n) == IF n < 0 THEN 0 ELSE n

\* ROUND_HALF_UP of n/unit, away from zero.
Rounded(n, unit) ==
    IF n < 0 THEN -((unit - 2 * n) \div (2 * unit)) ELSE (2 * n + unit) \div (2 * unit)

-----------------------------------------------------------------------------
(* The statutory scale.                                                    *)

\* The part of p that lies in a tier of this size which begins at `from'.
InTier(p, from, size) == AtLeastZero(Least(p - from, size))

\* The tiers are rounded one by one; the last has no end.
Scale(p) ==
    Rounded(InTier(p, 0, 250000) * 150, 1000)
    + Rounded(InTier(p, 250000, 250000) * 100, 1000)
    + Rounded(InTier(p, 500000, 500000) * 50, 1000)
    + Rounded(InTier(p, 1000000, 19000000) * 10, 1000)
    + Rounded(AtLeastZero(p - 20000000) * 5, 1000)

BikExclusive(p) == IF p <= 0 THEN 0 ELSE Greatest(4000, Least(Scale(p), 677500))

Btw(x) == Rounded(x * 21, 100)

\* calculate_bik: with VAT for a client that cannot deduct it.
calculate_bik(p, withBtw) == BikExclusive(p) + (IF withBtw THEN Btw(BikExclusive(p)) ELSE 0)

-----------------------------------------------------------------------------
(* What a case agrees: a percentage of the principal before a fixed amount *)
(* before the scale; the percentage may have a floor of its own.           *)

Nakosten == [none |-> 0, zonder_betekening |-> 18900, met_betekening |-> 28700]

Agreements ==
    [percentage : Nat \cup {Unset}, fixed : Nat \cup {Unset}, floor : Nat,
     btw : BOOLEAN, nakosten : DOMAIN Nakosten]

calculate_nakosten(kind) == Nakosten[kind]

Percent(p, bp) == Rounded(p * bp, 10000)

\* create_payment: the costs that a payment is divided over.
BookedBik(s, p) ==
    IF s.percentage # Unset THEN Percent(p, s.percentage)
    ELSE IF s.fixed # Unset THEN s.fixed
    ELSE calculate_bik(p, s.btw)

\* get_financial_summary: the costs that screens and letters show.
ShownBik(s, p) ==
    IF s.percentage # Unset /\ s.floor > 0 THEN Greatest(BookedBik(s, p), s.floor)
    ELSE BookedBik(s, p)

BookedCosts(s, p) == BookedBik(s, p) + calculate_nakosten(s.nakosten)

ShownCosts(s, p) == ShownBik(s, p) + calculate_nakosten(s.nakosten)

\* assert_bik_within_staffel, the guard for a consumer: it sums all claims of the case,
\* the deleted ones too, whatever the principal p of those that are left.
WithinScale(s, all) ==
    s.percentage # Unset \/ s.fixed # Unset => ShownBik(s, all) <= calculate_bik(all, s.btw)

-----------------------------------------------------------------------------
(* A payment.                                                              *)

\* Art. 6:44 BW: costs, then interest, then principal.
distribute_payment(a, room) ==
    LET c == Least(a, room.costs)
        i == Least(a - c, room.interest)
    IN  [costs |-> c, interest |-> i, principal |-> Least(a - c - i, room.principal)]

\* _build_claim_reductions: a repayment of principal, spread over the claims
\* with a positive principal; the last takes what is left, if anything is.
Shares(a, principals) ==
    LET last == CHOOSE k \in DOMAIN principals : \A j \in DOMAIN principals : j <= k
        total[k \in DOMAIN principals] ==
            principals[k] + (IF k = 1 THEN 0 ELSE total[k - 1])
        before[k \in DOMAIN principals] ==
            IF k = 1 THEN 0
            ELSE before[k - 1] + Rounded(a * principals[k - 1], total[last])
    IN  [k \in DOMAIN principals |->
            AtLeastZero(IF k = last THEN a - before[k]
                        ELSE Rounded(a * principals[k], total[last]))]

-----------------------------------------------------------------------------
(* Properties.                                                             *)

\* What a payment is divided over is what the case shows (case_calc_kwargs).
BookedAsShown(s, p) == BookedCosts(s, p) = ShownCosts(s, p)

\* What is spread over the claims is what was paid (_build_claim_reductions).
SharesAddUp(a, principals) ==
    LET shares == Shares(a, principals)
        total[k \in DOMAIN shares] == shares[k] + (IF k = 1 THEN 0 ELSE total[k - 1])
    IN  \A k \in DOMAIN shares : (\A j \in DOMAIN shares : j <= k) => total[k] = a
=============================================================================

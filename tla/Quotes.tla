--------------------------------- MODULE Quotes --------------------------------
(*******************************************************************************)
(* services/couponService.ts as arithmetic: whether a coupon is refused for a  *)
(* subtotal and what it takes off. Amounts are whole cents; a percentage is    *)
(* rounded half up to a cent, as Prisma.Decimal does.                          *)
(*******************************************************************************)
EXTENDS Integers

NoLimit == -1      \* usageLimit: null

\* A row of coupons, without its name. open: now lies between startsAt and endsAt; others: the
\* usages of other users. The PATCH of a coupon does not look at the range of a percentage,
\* so any value may be in the table.
CouponTerms ==
    [type : {"FIXED", "PERCENT"}, value : Nat, minAmount : Nat, usageLimit : Nat \cup {NoLimit},
     others : Nat, open : BOOLEAN]

Percent(value, subtotal) == (2 * subtotal * value + 100) \div 200
AtMost(bound, amount) == IF amount > bound THEN bound ELSE amount

\* Faulty variant: only a fixed amount is capped.
PercentUncapped(c, subtotal) ==
    IF c.type = "FIXED" THEN AtMost(subtotal, c.value) ELSE Percent(c.value, subtotal)
Discount(c, subtotal) ==
    AtMost(subtotal, IF c.type = "FIXED" THEN c.value ELSE Percent(c.value, subtotal))

\* The refusals of validateCoupon; mine: the user has a usage already.
Refused(c, subtotal, mine) ==
    \/ ~ c.open
    \/ subtotal < c.minAmount
    \/ c.usageLimit # NoLimit /\ c.others + (IF mine THEN 1 ELSE 0) >= c.usageLimit
    \/ mine
================================================================================

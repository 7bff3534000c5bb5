------------------------------ MODULE MCCheckoutPage ---------------------------
(* A line of up to two units at 5 cents, two lines and two orders one after    *)
(* the other, two submissions under way; a coupon of 110 %, which an           *)
(* administrator may replace by one of 6 cents off orders of 7 or more, for    *)
(* one use, which another user may take.                                       *)
EXTENDS CheckoutPage

Scarce == [type |-> "FIXED", value |-> 6, minAmount |-> 7, usageLimit |-> 1, others |-> 0, open |-> TRUE]
McTerms ==
    {[type |-> "PERCENT", value |-> 110, minAmount |-> 0, usageLimit |-> NoLimit, others |-> 0, open |-> TRUE],
     Scarce, [Scarce EXCEPT !.others = 1]}
================================================================================

------------------------------- MODULE Fulfilment -------------------------------
(*******************************************************************************)
(* What the shop promises about stock and orders, with no transactions, locks  *)
(* or interleaved statements in sight:                                         *)
(*   - an order takes all of its lines from the stock in one step, or nothing; *)
(*   - an order moves along the status table and nowhere else;                 *)
(*   - the step that cancels or refunds it is the step that gives its units    *)
(*     back, once;                                                             *)
(*   - an administrator's adjustment never drives a stock below zero.          *)
(* The module Shop, which models the code's transactions statement by          *)
(* statement, is checked to implement this specification.                      *)
(*******************************************************************************)
EXTENDS Integers, FiniteSets

CONSTANTS Sku, Order,
          Contents,   \* the line quantities a customer may order: a subset of [Sku -> Nat]
          Deltas      \* the corrections an administrator may make: a subset of Int

ASSUME FulfilmentConstants ==
    /\ IsFiniteSet(Order)
    /\ Contents \subseteq [Sku -> Nat]
    /\ Deltas \subseteq Int

VARIABLES stock,      \* units on the shelf, per SKU
          status,     \* per order; "NONE" until it is placed
          lines,      \* per order, the quantity of each SKU it took
          supplied    \* units that ever entered the shop, per SKU (history)

vars == <<stock, status, lines, supplied>>

Placed   == {"PENDING", "PAID", "SHIPPED", "COMPLETED", "CANCELLED", "REFUNDED"}
Reversed == {"CANCELLED", "REFUNDED"}      \* the units of such an order are back on the shelf

\* The status table of SPEC section 5.
StatusTable ==
  {<<"PENDING", "PAID">>, <<"PENDING", "CANCELLED">>,
   <<"PAID", "SHIPPED">>, <<"PAID", "REFUNDED">>,
   <<"SHIPPED", "COMPLETED">>, <<"SHIPPED", "REFUNDED">>,
   <<"COMPLETED", "REFUNDED">>}

\* The units an order that is placed and not reversed keeps off the shelf.
Holding       == {o \in Order : status[o] \in Placed \ Reversed}
HeldUnits(s)  == UNION {{o} \X (1 .. lines[o][s]) : o \in Holding}

--------------------------------------------------------------------------------
TypeOK ==
    /\ stock \in [Sku -> Int]
    /\ status \in [Order -> Placed \cup {"NONE"}]
    /\ lines \in [Order -> [Sku -> Nat]]
    /\ supplied \in [Sku -> Int]

\* The orders found at the start have taken their units; nothing else is missing.
Init ==
    /\ TypeOK
    /\ \A s \in Sku : stock[s] >= 0
    /\ \A s \in Sku : supplied[s] = stock[s] + Cardinality(HeldUnits(s))

Place(o) ==
    /\ status[o] = "NONE"
    /\ \E want \in Contents :
          /\ \A s \in Sku : want[s] <= stock[s]
          /\ stock' = [s \in Sku |-> stock[s] - want[s]]
          /\ lines' = [lines EXCEPT ![o] = want]
    /\ status' = [status EXCEPT ![o] = "PENDING"]
    /\ UNCHANGED supplied

Move(o) ==
    /\ \E to \in Placed :
          /\ <<status[o], to>> \in StatusTable
          /\ status' = [status EXCEPT ![o] = to]
          /\ stock' = IF to \in Reversed
                      THEN [s \in Sku |-> stock[s] + lines[o][s]]
                      ELSE stock
    /\ UNCHANGED <<lines, supplied>>

Adjust(s) ==
    /\ \E d \in Deltas :
          /\ stock[s] + d >= 0
          /\ stock' = [stock EXCEPT ![s] = @ + d]
          /\ supplied' = [supplied EXCEPT ![s] = @ + d]
    /\ UNCHANGED <<status, lines>>

Next ==
    \/ \E o \in Order : Place(o) \/ Move(o)
    \/ \E s \in Sku : Adjust(s)

Spec == Init /\ [][Next]_vars

--------------------------------------------------------------------------------
(* Nobody is sold a unit the shop does not have (README section 1).            *)
NoOversell == \A s \in Sku : stock[s] >= 0

(* Every unit that entered the shop is on the shelf or held by exactly one     *)
(* order that is neither cancelled nor refunded: no path through the life of   *)
(* the orders loses a unit or gives one back twice.                            *)
StockConserved ==
    \A s \in Sku : stock[s] + Cardinality(HeldUnits(s)) = supplied[s]
================================================================================

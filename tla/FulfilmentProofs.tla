---------------------------- MODULE FulfilmentProofs ---------------------------
(*******************************************************************************)
(* Theorems of Fulfilment, for every set of SKUs, of orders and of quantities. *)
(*******************************************************************************)
EXTENDS Fulfilment, FiniteSetTheorems, TLAPS

(* The units held by a finite set of orders: each order o of n[o] units stands *)
(* for the pairs <<o, 1>> .. <<o, n[o]>>, so the units of two orders differ.   *)

(* A line of n units is a set of n elements.                                   *)
LEMMA UnitsCount ==
    ASSUME NEW o, NEW n \in Nat
    PROVE  /\ IsFiniteSet({o} \X (1 .. n))
           /\ Cardinality({o} \X (1 .. n)) = n
<1>1. IsFiniteSet({o}) /\ Cardinality({o}) = 1
  BY FS_Singleton
<1>2. IsFiniteSet(1 .. n) /\ Cardinality(1 .. n) = n
  BY FS_Interval
<1>3. /\ IsFiniteSet({o} \X (1 .. n))
      /\ Cardinality({o} \X (1 .. n)) = Cardinality({o}) * Cardinality(1 .. n)
  BY <1>1, <1>2, FS_Product
<1> QED
  BY <1>1, <1>2, <1>3

(* Finitely many orders of finitely many units each.                           *)
LEMMA UnitsFinite ==
    ASSUME NEW O, IsFiniteSet(O), NEW n, \A o \in O : n[o] \in Nat
    PROVE  IsFiniteSet(UNION {{o} \X (1 .. n[o]) : o \in O})
<1> DEFINE Family == {{o} \X (1 .. n[o]) : o \in O}
           f == [o \in O |-> {o} \X (1 .. n[o])]
<1>1. f \in Surjection(O, Family)
  BY DEF Surjection
<1>2. IsFiniteSet(Family)
  <2> HIDE DEF f, Family
  <2> QED
    BY <1>1, FS_Surjection
<1>3. ASSUME NEW T \in Family PROVE IsFiniteSet(T)
  <2>1. PICK o \in O : T = {o} \X (1 .. n[o])
    OBVIOUS
  <2> QED
    BY <2>1, UnitsCount
<1> HIDE DEF Family
<1>4. IsFiniteSet(UNION Family)
  BY <1>2, <1>3, FS_UNION
<1> QED
  BY <1>4 DEF Family

--------------------------------------------------------------------------------
(* The orders keep a finite number of units off the shelf.                     *)
LEMMA HeldUnitsFinite ==
    ASSUME TypeOK, NEW s \in Sku
    PROVE  IsFiniteSet(HeldUnits(s))
<1> DEFINE n == [o \in Holding |-> lines[o][s]]
<1>1. IsFiniteSet(Holding)
  BY FulfilmentConstants, FS_Subset DEF Holding
<1>2. \A o \in Holding : n[o] \in Nat
  BY DEF TypeOK, Holding
<1>3. HeldUnits(s) = UNION {{o} \X (1 .. n[o]) : o \in Holding}
  BY DEF HeldUnits
<1> HIDE DEF n
<1> QED
  BY <1>1, <1>2, <1>3, UnitsFinite

--------------------------------------------------------------------------------
(* Every variable keeps its type: an order that is moved or placed never gets  *)
(* a status outside the enumeration of prisma/schema.prisma.                   *)
THEOREM TypeCorrect == Spec => []TypeOK
<1>1. Init => TypeOK
  BY DEF Init
<1>2. TypeOK /\ [Next]_vars => TypeOK'
  <2> SUFFICES ASSUME TypeOK, [Next]_vars PROVE TypeOK'
    OBVIOUS
  <2> USE DEF TypeOK
  <2>1. ASSUME NEW o \in Order, Place(o) PROVE TypeOK'
    <3>1. PICK want \in Contents :
             /\ stock' = [s \in Sku |-> stock[s] - want[s]]
             /\ lines' = [lines EXCEPT ![o] = want]
      BY <2>1 DEF Place
    <3>2. want \in [Sku -> Nat]
      BY FulfilmentConstants
    <3> QED
      BY <2>1, <3>1, <3>2 DEF Place, Placed
  <2>2. ASSUME NEW o \in Order, Move(o) PROVE TypeOK'
    <3>1. PICK to \in Placed :
             /\ <<status[o], to>> \in StatusTable
             /\ status' = [status EXCEPT ![o] = to]
             /\ stock' = IF to \in Reversed
                         THEN [s \in Sku |-> stock[s] + lines[o][s]]
                         ELSE stock
      BY <2>2 DEF Move
    <3> QED
      BY <2>2, <3>1 DEF Move
  <2>3. ASSUME NEW s \in Sku, Adjust(s) PROVE TypeOK'
    BY <2>3, FulfilmentConstants DEF Adjust
  <2>4. CASE UNCHANGED vars
    BY <2>4 DEF vars
  <2> QED
    BY <2>1, <2>2, <2>3, <2>4 DEF Next
<1> QED
  BY <1>1, <1>2, PTL DEF Spec

(* No sequence of orders, moves and adjustments sells a unit that is not there.*)
THEOREM NothingOversold == Spec => []NoOversell
<1>1. Init => NoOversell
  BY DEF Init, NoOversell
<1>2. TypeOK /\ NoOversell /\ [Next]_vars => NoOversell'
  <2> SUFFICES ASSUME TypeOK, NoOversell, [Next]_vars PROVE NoOversell'
    OBVIOUS
  <2> USE DEF TypeOK, NoOversell
  <2>1. ASSUME NEW o \in Order, Place(o) PROVE NoOversell'
    <3>1. PICK want \in Contents :
             /\ \A s \in Sku : want[s] <= stock[s]
             /\ stock' = [s \in Sku |-> stock[s] - want[s]]
      BY <2>1 DEF Place
    <3>2. want \in [Sku -> Nat]
      BY FulfilmentConstants
    <3> QED
      BY <3>1, <3>2
  <2>2. ASSUME NEW o \in Order, Move(o) PROVE NoOversell'
    BY <2>2 DEF Move
  <2>3. ASSUME NEW s \in Sku, Adjust(s) PROVE NoOversell'
    BY <2>3, FulfilmentConstants DEF Adjust
  <2>4. CASE UNCHANGED vars
    BY <2>4 DEF vars
  <2> QED
    BY <2>1, <2>2, <2>3, <2>4 DEF Next
<1> QED
  BY <1>1, <1>2, TypeCorrect, PTL DEF Spec

--------------------------------------------------------------------------------
(* A new order adds its units to those held, and shares none with another.     *)
LEMMA PlaceHolds ==
    ASSUME TypeOK, NEW o \in Order, NEW want \in [Sku -> Nat], NEW s \in Sku,
           status[o] = "NONE",
           status' = [status EXCEPT ![o] = "PENDING"],
           lines' = [lines EXCEPT ![o] = want]
    PROVE  Cardinality(HeldUnits(s)') = Cardinality(HeldUnits(s)) + want[s]
<1> DEFINE New == {o} \X (1 .. want[s])
<1>1. Holding' = Holding \cup {o} /\ o \notin Holding
  BY DEF Holding, Placed, Reversed, TypeOK
<1>2. \A p \in Holding : lines'[p][s] = lines[p][s]
  BY <1>1 DEF TypeOK, Holding
<1>3. lines'[o][s] = want[s]
  BY DEF TypeOK
<1>4. HeldUnits(s)' = HeldUnits(s) \cup New
  BY <1>1, <1>2, <1>3 DEF HeldUnits
<1>5. HeldUnits(s) \cap New = {}
  BY <1>1 DEF HeldUnits
<1>6. IsFiniteSet(HeldUnits(s))
  BY HeldUnitsFinite
<1>7. IsFiniteSet(New) /\ Cardinality(New) = want[s]
  BY UnitsCount
<1>8. Cardinality(HeldUnits(s) \cup New)
        = Cardinality(HeldUnits(s)) + Cardinality(New) - Cardinality({})
  <2> HIDE DEF New
  <2> QED
    BY <1>5, <1>6, <1>7, FS_Union
<1>9. Cardinality(HeldUnits(s)) \in Nat
  BY <1>6, FS_CardinalityType
<1> QED
  BY <1>4, <1>7, <1>8, <1>9, FS_EmptySet

(* A reversed order takes exactly its own units out of those held.             *)
LEMMA ReverseReleases ==
    ASSUME TypeOK, NEW o \in Order, NEW to \in Reversed, NEW s \in Sku,
           o \in Holding,
           status' = [status EXCEPT ![o] = to],
           lines' = lines
    PROVE  Cardinality(HeldUnits(s)) = Cardinality(HeldUnits(s)') + lines[o][s]
<1> DEFINE Old == {o} \X (1 .. lines[o][s])
           Rest == HeldUnits(s)'
<1>1. Holding' = Holding \ {o}
  BY DEF Holding, Placed, Reversed, TypeOK
<1>2. HeldUnits(s) = Rest \cup Old
  BY <1>1 DEF HeldUnits
<1>3. Rest \cap Old = {}
  BY <1>1 DEF HeldUnits
<1>4. IsFiniteSet(HeldUnits(s))
  BY HeldUnitsFinite
<1>5. IsFiniteSet(Rest)
  <2> HIDE DEF Old, Rest
  <2> QED
    BY <1>2, <1>4, FS_Subset
<1>6. IsFiniteSet(Old) /\ Cardinality(Old) = lines[o][s]
  BY UnitsCount, ZenonT(40) DEF TypeOK
<1>7. Cardinality(Rest \cup Old) = Cardinality(Rest) + Cardinality(Old) - Cardinality({})
  <2> HIDE DEF Old, Rest
  <2> QED
    BY <1>3, <1>5, <1>6, FS_Union
<1>8. Cardinality(Rest) \in Nat /\ lines[o][s] \in Nat
  BY <1>5, FS_CardinalityType DEF TypeOK
<1> QED
  BY <1>2, <1>6, <1>7, <1>8, FS_EmptySet

(* A move that reverses nothing leaves every unit where it was.                *)
LEMMA MoveKeeps ==
    ASSUME TypeOK, NEW o \in Order, NEW to \in Placed \ Reversed, NEW s \in Sku,
           o \in Holding,
           status' = [status EXCEPT ![o] = to],
           lines' = lines
    PROVE  HeldUnits(s)' = HeldUnits(s)
<1>1. Holding' = Holding
  BY DEF Holding, TypeOK
<1> QED
  BY <1>1 DEF HeldUnits

(* Every unit that entered the shop is on the shelf or held by exactly one     *)
(* order that is not reversed, after any number of orders, moves, refunds and  *)
(* adjustments.                                                                *)
THEOREM UnitsConserved == Spec => []StockConserved
<1>1. Init => StockConserved
  <2> SUFFICES ASSUME Init, NEW s \in Sku
               PROVE  stock[s] + Cardinality(HeldUnits(s)) = supplied[s]
    BY DEF StockConserved
  <2> QED
    BY DEF Init
<1>2. TypeOK /\ StockConserved /\ [Next]_vars => StockConserved'
  <2> SUFFICES ASSUME TypeOK, StockConserved, [Next]_vars, NEW s \in Sku
               PROVE  stock'[s] + Cardinality(HeldUnits(s)') = supplied'[s]
    BY DEF StockConserved
  <2>0. /\ stock[s] + Cardinality(HeldUnits(s)) = supplied[s]
        /\ Cardinality(HeldUnits(s)) \in Nat
        /\ stock[s] \in Int /\ supplied[s] \in Int
    BY HeldUnitsFinite, FS_CardinalityType DEF StockConserved, TypeOK
  <2>1. ASSUME NEW o \in Order, Place(o)
        PROVE  stock'[s] + Cardinality(HeldUnits(s)') = supplied'[s]
    <3>1. PICK want \in Contents :
             /\ stock' = [x \in Sku |-> stock[x] - want[x]]
             /\ lines' = [lines EXCEPT ![o] = want]
      BY <2>1 DEF Place
    <3>2. want \in [Sku -> Nat]
      BY FulfilmentConstants
    <3>3. Cardinality(HeldUnits(s)') = Cardinality(HeldUnits(s)) + want[s]
      BY <2>1, <3>1, <3>2, PlaceHolds DEF Place
    <3>4. stock'[s] = stock[s] - want[s] /\ supplied' = supplied /\ want[s] \in Nat
      BY <2>1, <3>1, <3>2 DEF Place
    <3> QED
      BY <2>0, <3>3, <3>4
  <2>2. ASSUME NEW o \in Order, Move(o)
        PROVE  stock'[s] + Cardinality(HeldUnits(s)') = supplied'[s]
    <3>1. PICK to \in Placed :
             /\ <<status[o], to>> \in StatusTable
             /\ status' = [status EXCEPT ![o] = to]
             /\ stock' = IF to \in Reversed
                         THEN [x \in Sku |-> stock[x] + lines[o][x]]
                         ELSE stock
      BY <2>2 DEF Move
    <3>2. o \in Holding /\ to \in Placed
      BY <3>1 DEF StatusTable, Placed, Reversed, Holding
    <3>3. lines' = lines /\ supplied' = supplied /\ lines[o][s] \in Nat
      BY <2>2 DEF Move, TypeOK
    <3>4. CASE to \in Reversed
      <4>1. Cardinality(HeldUnits(s)) = Cardinality(HeldUnits(s)') + lines[o][s]
        BY <3>1, <3>2, <3>3, <3>4, ReverseReleases
      <4>2. stock'[s] = stock[s] + lines[o][s]
        BY <3>1, <3>4
      <4>3. IsFiniteSet(HeldUnits(s)')
        <5>1. HeldUnits(s)' \subseteq HeldUnits(s)
          BY <3>1, <3>2, <3>3, <3>4 DEF HeldUnits, Holding, TypeOK
        <5> QED
          BY <5>1, HeldUnitsFinite, FS_Subset
      <4>4. Cardinality(HeldUnits(s)') \in Nat
        BY <4>3, FS_CardinalityType
      <4> QED
        BY <2>0, <3>3, <4>1, <4>2, <4>4
    <3>5. CASE to \notin Reversed
      <4>1. HeldUnits(s)' = HeldUnits(s)
        BY <3>1, <3>2, <3>3, <3>5, MoveKeeps
      <4> QED
        BY <2>0, <3>1, <3>3, <3>5, <4>1
    <3> QED
      BY <3>4, <3>5
  <2>3. ASSUME NEW x \in Sku, Adjust(x)
        PROVE  stock'[s] + Cardinality(HeldUnits(s)') = supplied'[s]
    <3>1. HeldUnits(s)' = HeldUnits(s)
      BY <2>3 DEF Adjust, HeldUnits, Holding
    <3>2. PICK d \in Int : /\ stock' = [stock EXCEPT ![x] = @ + d]
                           /\ supplied' = [supplied EXCEPT ![x] = @ + d]
      BY <2>3, FulfilmentConstants DEF Adjust
    <3> QED
      BY <2>0, <3>1, <3>2 DEF TypeOK
  <2>4. CASE UNCHANGED vars
    BY <2>0, <2>4 DEF vars, HeldUnits, Holding
  <2> QED
    BY <2>1, <2>2, <2>3, <2>4 DEF Next
<1> QED
  BY <1>1, <1>2, TypeCorrect, PTL DEF Spec
================================================================================

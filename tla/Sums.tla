--------------------------------- MODULE Sums ---------------------------------
(***************************************************************************)
(* Sums of finite sequences, and what proofs about sequences rest on here: *)
(* a set of numbers that holds 0 and every successor holds them all, so a  *)
(* recursive function is what its equations say, and a sum changes by what *)
(* its terms change.                                                       *)
(***************************************************************************)
EXTENDS Integers, Sequences, WellFoundedInduction, TLAPS

(* The sum of a sequence of integers.                                        *)
Sum(values) ==
  LET total[n \in 0..Len(values)] == IF n = 0 THEN 0 ELSE total[n - 1] + values[n]
  IN total[Len(values)]

(* A set of numbers has a least one.                                         *)
LEMMA LeastOne ==
  ASSUME NEW T, T \subseteq Nat, T # {}
  PROVE  \E x \in T : \A y \in T : ~(y < x)
<1>1. IsWellFoundedOn(OpToRel(<, Nat), Nat) BY NatLessThanWellFounded, Zenon
<1>2. \E x \in T : \A y \in T : ~(<<y, x>> \in OpToRel(<, Nat)) BY <1>1, WFMin, Zenon
<1> QED BY <1>2 DEF OpToRel

(* A set that holds 0 and the successor of what it holds, up to a bound,      *)
(* holds every number up to the bound.                                       *)
LEMMA UpTo ==
  ASSUME NEW S, NEW L \in Nat, 0 \in S, \A n \in 1..L : n - 1 \in S => n \in S
  PROVE  0..L \subseteq S
<1> SUFFICES ASSUME ~(0..L \subseteq S) PROVE FALSE OBVIOUS
<1> DEFINE T == {n \in 0..L : n \notin S}
<1>1. T \subseteq Nat /\ T # {} OBVIOUS
<1> HIDE DEF T
<1>2. PICK x \in T : \A y \in T : ~(y < x) BY <1>1, LeastOne
<1>3. x \in 0..L /\ x \notin S BY DEF T
<1>4. x \in 1..L /\ x - 1 \in 0..L /\ x - 1 < x BY <1>3
<1>5. x - 1 \in S BY <1>2, <1>4 DEF T
<1> QED BY <1>3, <1>4, <1>5

(* A recursion over 0..L whose steps stay in a set has a solution in it.     *)
Steps(L, D) == [1..L -> [D -> D]]
Solutions(L, D, base, step) ==
  {g \in [0..L -> D] : g[0] = base /\ \A n \in 1..L : g[n] = step[n][g[n - 1]]}
LEMMA RecursionHasSolution ==
  ASSUME NEW L \in Nat, NEW D, NEW base \in D, NEW step \in Steps(L, D)
  PROVE  Solutions(L, D, base, step) # {}
<1>a. step \in [1..L -> [D -> D]] BY DEF Steps
<1> DEFINE Solves(g, k) == g[0] = base /\ \A n \in 1..k : g[n] = step[n][g[n - 1]]
           S == {k \in 0..L : \E g \in [0..L -> D] : Solves(g, k)}
<1>1. 0 \in S
  <2> DEFINE f == [n \in 0..L |-> base]
  <2>1. f \in [0..L -> D] /\ f[0] = base OBVIOUS
  <2> HIDE DEF f
  <2>2. Solves(f, 0) BY <2>1
  <2> QED BY <2>1, <2>2
<1>2. ASSUME NEW k \in 1..L, k - 1 \in S PROVE k \in S
  <2>1. PICK g \in [0..L -> D] : Solves(g, k - 1) BY <1>2
  <2> DEFINE new == step[k][g[k - 1]]
             h == [g EXCEPT ![k] = new]
  <2>2. k - 1 \in 0..L /\ k \in 0..L OBVIOUS
  <2>3. new \in D
    <3>1. g[k - 1] \in D BY <2>2
    <3>2. step[k] \in [D -> D] BY <1>a
    <3> QED BY <3>1, <3>2
  <2>4. h \in [0..L -> D] /\ h[k] = new /\ \A n \in 0..L : n # k => h[n] = g[n] BY <2>2, <2>3
  <2> HIDE DEF h, new
  <2>5. h[0] = base BY <2>1, <2>4
  <2>6. ASSUME NEW n \in 1..k PROVE h[n] = step[n][h[n - 1]]
    <3>1. n - 1 \in 0..L /\ n - 1 # k /\ n \in 0..L OBVIOUS
    <3>2. h[n - 1] = g[n - 1] BY <2>4, <3>1
    <3>3. CASE n = k BY <2>4, <3>2, <3>3 DEF new
    <3>4. CASE n # k
      <4>1. n \in 1..(k - 1) BY <3>4
      <4> QED BY <2>1, <2>4, <3>1, <3>2, <3>4, <4>1
    <3> QED BY <3>3, <3>4
  <2> QED BY <2>2, <2>4, <2>5, <2>6
<1> HIDE DEF S
<1>3. 0..L \subseteq S BY <1>1, <1>2, UpTo
<1>4. L \in S BY <1>3
<1> QED BY <1>4 DEF S, Solutions

(* The recursive function total of Sum.                                      *)
Total(values) ==
  CHOOSE g : g = [n \in 0..Len(values) |-> IF n = 0 THEN 0 ELSE g[n - 1] + values[n]]

(* What Total is: the partial sums.                                          *)
LEMMA TotalIs ==
  ASSUME NEW L \in Nat, NEW values \in [1..L -> Int]
  PROVE  /\ Total(values) \in [0..L -> Int] /\ Total(values)[0] = 0
         /\ \A n \in 1..L : Total(values)[n] = Total(values)[n - 1] + values[n]
         /\ Sum(values) = Total(values)[L]
<1>1. Len(values) = L OBVIOUS
<1> DEFINE step == [n \in 1..L |-> [d \in Int |-> d + values[n]]]
           Is(g) == g = [n \in 0..L |-> IF n = 0 THEN 0 ELSE g[n - 1] + values[n]]
<1>2. step \in Steps(L, Int) BY DEF Steps
<1>3. \A n \in 1..L, d \in Int : step[n][d] = d + values[n] OBVIOUS
<1> HIDE DEF step
<1>a. 0 \in Int OBVIOUS
<1>b. Solutions(L, Int, 0, step) # {} BY <1>2, <1>a, RecursionHasSolution, Zenon
<1>4. PICK g \in [0..L -> Int] : g[0] = 0 /\ \A n \in 1..L : g[n] = step[n][g[n - 1]]
  BY <1>b DEF Solutions
<1>5. Is(g)
  <2>1. \A n \in 1..L : n - 1 \in 0..L OBVIOUS
  <2>2. \A n \in 1..L : g[n] = g[n - 1] + values[n] BY <1>3, <1>4, <2>1
  <2>3. \A n \in 0..L : g[n] = IF n = 0 THEN 0 ELSE g[n - 1] + values[n] BY <1>4, <2>2
  <2> QED BY <2>3
<1>6. Is(Total(values)) BY <1>1, <1>5 DEF Total
<1>7. Sum(values) = Total(values)[L] BY <1>1 DEF Sum, Total
<1> DEFINE f == Total(values)
<1>8. f = [n \in 0..L |-> IF n = 0 THEN 0 ELSE f[n - 1] + values[n]] BY <1>6
<1> HIDE DEF f
<1>9. f[0] = 0 /\ \A n \in 1..L : f[n] = f[n - 1] + values[n] BY <1>8
<1>10. \A n \in 0..L : f[n] \in Int
  <2> DEFINE S == {n \in 0..L : f[n] \in Int}
  <2>1. 0 \in S BY <1>9
  <2>2. \A n \in 1..L : n - 1 \in S => n \in S BY <1>9
  <2> HIDE DEF S
  <2>3. 0..L \subseteq S BY <2>1, <2>2, UpTo
  <2> QED BY <2>3 DEF S
<1>11. f \in [0..L -> Int] BY <1>8, <1>10
<1> QED BY <1>7, <1>9, <1>11 DEF f

(* A sum changes by what one of its terms changes.                           *)
LEMMA SumsDiffer ==
  ASSUME NEW L \in Nat, NEW values \in [1..L -> Int], NEW other \in [1..L -> Int],
         NEW k \in 1..L, \A n \in 1..L : n # k => other[n] = values[n]
  PROVE  Sum(other) = Sum(values) + other[k] - values[k]
<1> DEFINE f == Total(values)
           g == Total(other)
<1>1. /\ f \in [0..L -> Int] /\ f[0] = 0
      /\ \A n \in 1..L : f[n] = f[n - 1] + values[n]
      /\ Sum(values) = f[L]
  BY TotalIs
<1>2. /\ g \in [0..L -> Int] /\ g[0] = 0
      /\ \A n \in 1..L : g[n] = g[n - 1] + other[n]
      /\ Sum(other) = g[L]
  BY TotalIs
<1> HIDE DEF f, g
<1> DEFINE S == {n \in 0..L : g[n] = f[n] + IF n < k THEN 0 ELSE other[k] - values[k]}
<1>3. 0 \in S BY <1>1, <1>2
<1>4. ASSUME NEW n \in 1..L, n - 1 \in S PROVE n \in S
  <2>1. f[n] \in Int /\ f[n - 1] \in Int /\ values[n] \in Int /\ other[n] \in Int
        /\ values[k] \in Int /\ other[k] \in Int
    BY <1>1
  <2>2. g[n - 1] = f[n - 1] + IF n - 1 < k THEN 0 ELSE other[k] - values[k] BY <1>4
  <2>3. g[n] = g[n - 1] + other[n] /\ f[n] = f[n - 1] + values[n] BY <1>1, <1>2
  <2>4. CASE n = k BY <2>1, <2>2, <2>3, <2>4
  <2>5. CASE n # k BY <2>1, <2>2, <2>3, <2>5
  <2> QED BY <2>4, <2>5
<1> HIDE DEF S
<1>5. 0..L \subseteq S BY <1>3, <1>4, UpTo
<1>6. L \in S BY <1>5
<1>7. g[L] = f[L] + other[k] - values[k] BY <1>1, <1>6 DEF S
<1> QED BY <1>1, <1>2, <1>7

(* One more term adds to the sum.                                            *)
LEMMA SumGrows ==
  ASSUME NEW L \in Nat, NEW values \in [1..L -> Int], NEW longer \in [1..(L + 1) -> Int],
         \A n \in 1..L : longer[n] = values[n]
  PROVE  Sum(longer) = Sum(values) + longer[L + 1]
<1> DEFINE f == Total(values)
           g == Total(longer)
<1>1. /\ f \in [0..L -> Int] /\ f[0] = 0
      /\ \A n \in 1..L : f[n] = f[n - 1] + values[n]
      /\ Sum(values) = f[L]
  BY TotalIs
<1>2. /\ g \in [0..(L + 1) -> Int] /\ g[0] = 0
      /\ \A n \in 1..(L + 1) : g[n] = g[n - 1] + longer[n]
      /\ Sum(longer) = g[L + 1]
  <2>1. L + 1 \in Nat OBVIOUS
  <2> QED BY <2>1, TotalIs
<1> HIDE DEF f, g
<1> DEFINE S == {n \in 0..L : g[n] = f[n]}
<1>3. 0 \in S BY <1>1, <1>2
<1>4. ASSUME NEW n \in 1..L, n - 1 \in S PROVE n \in S
  BY <1>1, <1>2, <1>4
<1> HIDE DEF S
<1>5. 0..L \subseteq S BY <1>3, <1>4, UpTo
<1>6. g[L] = f[L] BY <1>5 DEF S
<1>7. g[L + 1] = g[L] + longer[L + 1]
  <2>1. L + 1 \in 1..(L + 1) /\ (L + 1) - 1 = L OBVIOUS
  <2> QED BY <1>2, <2>1
<1> QED BY <1>1, <1>2, <1>6, <1>7

(* A sum of natural numbers is one, and no less than the sum of smaller ones. *)
LEMMA SumOrder ==
  ASSUME NEW L \in Nat, NEW values \in [1..L -> Int], NEW other \in [1..L -> Int],
         \A n \in 1..L : values[n] <= other[n]
  PROVE  Sum(values) \in Int /\ Sum(other) \in Int /\ Sum(values) <= Sum(other)
<1> DEFINE f == Total(values)
           g == Total(other)
<1>1. /\ f \in [0..L -> Int] /\ f[0] = 0
      /\ \A n \in 1..L : f[n] = f[n - 1] + values[n]
      /\ Sum(values) = f[L]
  BY TotalIs
<1>2. /\ g \in [0..L -> Int] /\ g[0] = 0
      /\ \A n \in 1..L : g[n] = g[n - 1] + other[n]
      /\ Sum(other) = g[L]
  BY TotalIs
<1> HIDE DEF f, g
<1> DEFINE S == {n \in 0..L : f[n] <= g[n]}
<1>3. 0 \in S BY <1>1, <1>2
<1>4. ASSUME NEW n \in 1..L, n - 1 \in S PROVE n \in S
  <2>1. f[n - 1] \in Int /\ g[n - 1] \in Int /\ values[n] \in Int /\ other[n] \in Int
        /\ values[n] <= other[n]
    BY <1>1, <1>2
  <2> QED BY <1>1, <1>2, <1>4, <2>1
<1> HIDE DEF S
<1>5. 0..L \subseteq S BY <1>3, <1>4, UpTo
<1>6. f[L] <= g[L] BY <1>5 DEF S
<1> QED BY <1>1, <1>2, <1>6

(* A sum of zeros is 0.                                                      *)
LEMMA SumOfNone ==
  ASSUME NEW L \in Nat, NEW values \in [1..L -> Int], \A n \in 1..L : values[n] = 0
  PROVE  Sum(values) = 0
<1> DEFINE f == Total(values)
<1>1. /\ f \in [0..L -> Int] /\ f[0] = 0
      /\ \A n \in 1..L : f[n] = f[n - 1] + values[n]
      /\ Sum(values) = f[L]
  BY TotalIs
<1> HIDE DEF f
<1> DEFINE S == {n \in 0..L : f[n] = 0}
<1>2. 0 \in S BY <1>1
<1>3. ASSUME NEW n \in 1..L, n - 1 \in S PROVE n \in S BY <1>1, <1>3
<1> HIDE DEF S
<1>4. 0..L \subseteq S BY <1>2, <1>3, UpTo
<1>5. f[L] = 0 BY <1>4 DEF S
<1> QED BY <1>1, <1>5

(* No term exceeds a sum of natural numbers.                                 *)
LEMMA TermWithinSum ==
  ASSUME NEW L \in Nat, NEW values \in [1..L -> Nat], NEW k \in 1..L
  PROVE  Sum(values) \in Nat /\ values[k] <= Sum(values)
<1> DEFINE none == [n \in 1..L |-> 0]
           only == [n \in 1..L |-> IF n = k THEN values[k] ELSE 0]
<1>1. values \in [1..L -> Int] /\ none \in [1..L -> Int] /\ only \in [1..L -> Int]
  OBVIOUS
<1>2. \A n \in 1..L : none[n] = 0 OBVIOUS
<1>3. only[k] = values[k] /\ none[k] = 0 /\ \A n \in 1..L : n # k => only[n] = none[n] OBVIOUS
<1>4. \A n \in 1..L : only[n] <= values[n] OBVIOUS
<1> HIDE DEF none, only
<1>5. Sum(none) = 0 BY <1>1, <1>2, SumOfNone
<1>6. Sum(only) = Sum(none) + only[k] - none[k] BY <1>1, <1>3, SumsDiffer
<1>7. Sum(values) \in Int /\ Sum(only) <= Sum(values) BY <1>1, <1>4, SumOrder
<1>8. values[k] \in Nat OBVIOUS
<1> QED BY <1>3, <1>5, <1>6, <1>7, <1>8

(* A sum of natural numbers is one.                                          *)
LEMMA SumOfNumbers ==
  ASSUME NEW L \in Nat, NEW values \in [1..L -> Nat]
  PROVE  Sum(values) \in Nat
<1> DEFINE none == [n \in 1..L |-> 0]
<1>1. values \in [1..L -> Int] /\ none \in [1..L -> Int] OBVIOUS
<1>2. \A n \in 1..L : none[n] = 0 /\ none[n] <= values[n] OBVIOUS
<1> HIDE DEF none
<1>3. Sum(none) = 0 BY <1>1, <1>2, SumOfNone
<1>4. Sum(values) \in Int /\ Sum(none) <= Sum(values) BY <1>1, <1>2, SumOrder
<1> QED BY <1>3, <1>4
===============================================================================

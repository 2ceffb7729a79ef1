--------------------------- MODULE LruCacheProofs ---------------------------
(***************************************************************************)
(* Proofs about the container (LruCache.tla), for any keys, any capacities *)
(* that its blocks can reach and any number of blocks.                     *)
(***************************************************************************)
EXTENDS LruCache, TLAPS, SequenceTheorems, FiniteSetTheorems,
        WellFoundedInduction

-----------------------------------------------------------------------------
(* Induction and recursion on the natural numbers.                         *)

\* A set with 0 that is closed under successor holds every natural number.
LEMMA NatSetInduction ==
  ASSUME NEW S, 0 \in S, \A n \in Nat : n \in S => n + 1 \in S
  PROVE Nat \subseteq S
<1> DEFINE R == {ss \in Nat \X Nat : ss[1] < ss[2]}
<1>1. IsWellFoundedOn(R, Nat)
  <2>1. IsWellFoundedOn(OpToRel(<, Nat), Nat)  BY NatLessThanWellFounded
  <2> QED  BY <2>1 DEF OpToRel
<1>2. SUFFICES ASSUME Nat \ S # {} PROVE FALSE  OBVIOUS
<1>3. PICK x \in Nat \ S : \A y \in Nat \ S : ~ (<<y, x>> \in R)
  <2> HIDE DEF R
  <2> QED  BY <1>1, <1>2, WFMin
<1>4. x # 0  BY <1>3
<1>5. x - 1 \in Nat /\ x = (x - 1) + 1  BY <1>3, <1>4
<1>6. <<x - 1, x>> \in R  BY <1>3, <1>5
<1>7. x - 1 \in S
  <2> HIDE DEF R
  <2> QED  BY <1>3, <1>5, <1>6
<1> QED  BY <1>3, <1>5, <1>7

\* The first n + 1 values of an iteration.
UpTo(f, V, start, step, n) ==
  /\ f \in [0 .. n -> V] /\ f[0] = start
  /\ \A i \in 0 .. n - 1 : f[i + 1] = step[i][f[i]]

\* Iterations of different lengths begin alike.
LEMMA SameStart ==
  ASSUME NEW V, NEW start, NEW step, NEW n \in Nat, NEW m \in Nat, n <= m,
         NEW f, NEW g, UpTo(f, V, start, step, n), UpTo(g, V, start, step, m)
  PROVE \A i \in 0 .. n : f[i] = g[i]
<1> DEFINE T == {i \in Nat : i <= n => f[i] = g[i]}
<1>1. 0 \in T  BY DEF UpTo
<1>2. ASSUME NEW i \in Nat, i \in T PROVE i + 1 \in T
  <2>1. SUFFICES ASSUME i + 1 <= n PROVE f[i + 1] = g[i + 1]  OBVIOUS
  <2>2. i \in 0 .. n - 1 /\ i \in 0 .. m - 1 /\ i <= n  BY <2>1
  <2>3. f[i] = g[i]  BY <1>2, <2>2
  <2>4. f[i + 1] = step[i][f[i]] /\ g[i + 1] = step[i][g[i]]  BY <2>2 DEF UpTo
  <2> QED  BY <2>3, <2>4
<1>3. Nat \subseteq T
  <2> HIDE DEF T
  <2> QED  BY <1>1, <1>2, NatSetInduction
<1> QED  BY <1>3

\* An iteration without end.
Iterates(f, V, start, step) ==
  f \in [Nat -> V] /\ f[0] = start /\ \A n \in Nat : f[n + 1] = step[n][f[n]]

\* Steps from V to V can be taken any number of times.
LEMMA Iteration ==
  ASSUME NEW V, NEW start \in V, NEW step \in [Nat -> [V -> V]]
  PROVE \E f : Iterates(f, V, start, step)
<1> DEFINE S == {n \in Nat : \E f : UpTo(f, V, start, step, n)}
<1>1. 0 \in S
  <2> DEFINE g == [i \in 0 .. 0 |-> start]
  <2>1. UpTo(g, V, start, step, 0)  BY DEF UpTo
  <2> QED  BY <2>1
<1>2. ASSUME NEW n \in Nat, n \in S PROVE n + 1 \in S
  <2>1. PICK f : UpTo(f, V, start, step, n)  BY <1>2
  <2> DEFINE g == [i \in 0 .. n + 1 |-> IF i = n + 1 THEN step[n][f[n]] ELSE f[i]]
  <2>2. f \in [0 .. n -> V] /\ f[0] = start /\ f[n] \in V  BY <2>1 DEF UpTo
  <2>3. step[n][f[n]] \in V  BY <2>2
  <2>4. g \in [0 .. n + 1 -> V] /\ g[0] = start  BY <2>2, <2>3
  <2>5. ASSUME NEW i \in 0 .. (n + 1) - 1 PROVE g[i + 1] = step[i][g[i]]
    <3>1. CASE i = n  BY <3>1
    <3>2. CASE i \in 0 .. n - 1
      <4>1. f[i + 1] = step[i][f[i]]  BY <2>1, <3>2 DEF UpTo
      <4>2. g[i + 1] = f[i + 1] /\ g[i] = f[i]  BY <3>2
      <4> QED  BY <4>1, <4>2
    <3>3. i = n \/ i \in 0 .. n - 1  OBVIOUS
    <3> QED  BY <3>1, <3>2, <3>3
  <2> HIDE DEF g
  <2>6. UpTo(g, V, start, step, n + 1)  BY <2>4, <2>5 DEF UpTo
  <2> QED  BY <2>6
<1>3. Nat \subseteq S
  <2> HIDE DEF S
  <2> QED  BY <1>1, <1>2, NatSetInduction
<1> DEFINE F(n) == CHOOSE f : UpTo(f, V, start, step, n)
           h == [n \in Nat |-> F(n)[n]]
<1>4. \A n \in Nat : UpTo(F(n), V, start, step, n)  BY <1>3
<1> HIDE DEF F
<1>5. \A n \in Nat : F(n)[n] \in V
  <2> TAKE n \in Nat
  <2>1. F(n) \in [0 .. n -> V] /\ n \in 0 .. n  BY <1>4 DEF UpTo
  <2> QED  BY <2>1
<1>6. h \in [Nat -> V] /\ h[0] = start  BY <1>4, <1>5 DEF UpTo
<1>7. ASSUME NEW n \in Nat PROVE h[n + 1] = step[n][h[n]]
  <2>1. n + 1 \in Nat /\ n <= n + 1 /\ n \in 0 .. n /\ n \in 0 .. (n + 1) - 1
    OBVIOUS
  <2>2. F(n + 1)[n + 1] = step[n][F(n + 1)[n]]  BY <1>4, <2>1 DEF UpTo
  <2>3. F(n)[n] = F(n + 1)[n]  BY <1>4, <2>1, SameStart
  <2> QED  BY <2>1, <2>2, <2>3
<1> HIDE DEF h
<1>8. Iterates(h, V, start, step)  BY <1>6, <1>7 DEF Iterates
<1> QED  BY <1>8

-----------------------------------------------------------------------------
(* The sizes of the blocks.                                                *)

\* Shift doubles.
LEMMA ShiftUnfolds ==
  /\ Shift \in [Nat -> Nat] /\ Shift[0] = 1
  /\ \A n \in Nat : Shift[n + 1] = 2 * Shift[n]
<1> DEFINE step == [n \in Nat |-> [v \in Nat |-> 2 * v]]
           E(f) == f = [n \in Nat |-> IF n = 0 THEN 1 ELSE 2 * f[n - 1]]
<1>1. step \in [Nat -> [Nat -> Nat]] /\ 1 \in Nat  OBVIOUS
<1>2. \A n, v \in Nat : step[n][v] = 2 * v  OBVIOUS
<1> HIDE DEF step
<1>a. PICK f : Iterates(f, Nat, 1, step)  BY <1>1, Iteration
<1>3. f \in [Nat -> Nat] /\ f[0] = 1 /\ \A n \in Nat : f[n + 1] = step[n][f[n]]
  BY <1>a DEF Iterates
<1>4. \A n \in Nat : f[n + 1] = 2 * f[n]  BY <1>2, <1>3
<1>5. E(f)
  <2> DEFINE g == [n \in Nat |-> IF n = 0 THEN 1 ELSE 2 * f[n - 1]]
  <2>1. ASSUME NEW n \in Nat PROVE f[n] = g[n]
    <3>1. CASE n = 0  BY <1>3, <3>1
    <3>2. CASE n # 0
      <4>1. n - 1 \in Nat /\ (n - 1) + 1 = n  BY <3>2
      <4>2. f[n] = 2 * f[n - 1]  BY <1>4, <4>1
      <4> QED  BY <3>2, <4>2
    <3> QED  BY <3>1, <3>2
  <2>2. DOMAIN f = Nat /\ f = [n \in Nat |-> f[n]]  BY <1>3
  <2> HIDE DEF g
  <2>3. f = g  BY <2>1, <2>2 DEF g
  <2> QED  BY <2>3 DEF g
<1>6. Shift = CHOOSE x : E(x)  BY DEF Shift
<1>7. E(Shift)
  <2> HIDE DEF E
  <2> QED  BY <1>5, <1>6
<1>8. Shift = [n \in Nat |-> IF n = 0 THEN 1 ELSE 2 * Shift[n - 1]]  BY <1>7
<1>9. Shift[0] = 1  BY <1>8
<1>10. \A n \in Nat : Shift[n + 1] = 2 * Shift[n]
  <2> TAKE n \in Nat
  <2>1. n + 1 \in Nat /\ n + 1 # 0 /\ (n + 1) - 1 = n  OBVIOUS
  <2> QED  BY <1>8, <2>1
<1>11. Shift \in [Nat -> Nat]
  <2> DEFINE T == {n \in Nat : Shift[n] \in Nat}
  <2>1. 0 \in T  BY <1>9
  <2>2. ASSUME NEW n \in Nat, n \in T PROVE n + 1 \in T  BY <2>2, <1>10
  <2>3. Nat \subseteq T
    <3> HIDE DEF T
    <3> QED  BY <2>1, <2>2, NatSetInduction
  <2>4. \A n \in Nat : Shift[n] \in Nat  BY <2>3
  <2>5. \A n \in Nat : (IF n = 0 THEN 1 ELSE 2 * Shift[n - 1]) \in Nat
    <3> TAKE n \in Nat
    <3>1. CASE n = 0  BY <3>1
    <3>2. CASE n # 0
      <4>1. n - 1 \in Nat  BY <3>2
      <4> QED  BY <2>4, <3>2, <4>1
    <3> QED  BY <3>1, <3>2
  <2>6. [n \in Nat |-> IF n = 0 THEN 1 ELSE 2 * Shift[n - 1]] \in [Nat -> Nat]
    BY <2>5
  <2> QED  BY <1>8, <2>6
<1> QED  BY <1>9, <1>10, <1>11

\* Shift grows at least as fast as its argument, and as its double.
LEMMA ShiftGrows ==
  \A n \in Nat : /\ Shift[n] \in Nat /\ Shift[n] >= 1 /\ Shift[n] >= n
                 /\ n > 0 => Shift[n] >= 2 * n
<1> DEFINE P(n) == /\ Shift[n] \in Nat /\ Shift[n] >= 1 /\ Shift[n] >= n
                   /\ n > 0 => Shift[n] >= 2 * n
           T == {n \in Nat : P(n)}
<1>1. 0 \in T  BY ShiftUnfolds
<1>2. ASSUME NEW n \in Nat, n \in T PROVE n + 1 \in T
  <2> DEFINE x == Shift[n]  y == Shift[n + 1]
  <2>1. x \in Nat /\ x >= 1 /\ x >= n /\ (n > 0 => x >= 2 * n)  BY <1>2
  <2>2. y = 2 * x  BY ShiftUnfolds
  <2> HIDE DEF x, y
  <2>3. y \in Nat /\ y >= 1 /\ y >= n + 1 /\ y >= 2 * (n + 1)
    <3>1. CASE n = 0  BY <2>1, <2>2, <3>1
    <3>2. CASE n > 0  BY <2>1, <2>2, <3>2
    <3> QED  BY <3>1, <3>2
  <2> QED  BY <2>3 DEF y
<1>3. Nat \subseteq T
  <2> HIDE DEF T
  <2> QED  BY <1>1, <1>2, NatSetInduction
<1> QED  BY <1>3

\* The first block has an element and no more than the cache.
LEMMA InitialSize ==
  ASSUME NEW max \in Capacities
  PROVE InitialBlockSize(max) \in 1 .. max
<1> DEFINE E(n) == Enough(max, n)
           L(n) == n \in 0 .. max /\ E(n) /\ \A m \in 0 .. n - 1 : ~E(m)
           S == {n \in Nat : E(n)}
<1>1. max \in Nat \ {0} /\ MaxBlocks \in Nat \ {0} /\ FirstBlock \in Nat \ {0}
  BY CapacityAssumption
<1>2. CASE max <= SmallLimit  BY <1>1, <1>2 DEF InitialBlockSize
<1>3. CASE ~(max <= SmallLimit)
  <2>1. E(max)
    <3> DEFINE x == Shift[max + MaxBlocks]
    <3>1. x \in Nat /\ x >= max + MaxBlocks  BY <1>1, ShiftGrows
    <3> HIDE DEF x
    <3>2. FirstBlock * x >= x
      <4>1. PICK y \in Nat : FirstBlock = y + 1
        <5>1. FirstBlock - 1 \in Nat /\ FirstBlock = (FirstBlock - 1) + 1  BY <1>1
        <5> QED  BY <5>1
      <4>2. FirstBlock * x = y * x + x /\ y * x >= 0  BY <3>1, <4>1
      <4> QED  BY <3>1, <4>2
    <3>3. FirstBlock * x >= max  BY <1>1, <3>1, <3>2
    <3> QED  BY <3>3 DEF x, Enough
  <2>2. \E n : L(n)
    <3> DEFINE R == {ss \in Nat \X Nat : ss[1] < ss[2]}
    <3>1. IsWellFoundedOn(R, Nat)
      <4>1. IsWellFoundedOn(OpToRel(<, Nat), Nat)  BY NatLessThanWellFounded
      <4> QED  BY <4>1 DEF OpToRel
    <3>2. S \subseteq Nat /\ S # {}  BY <1>1, <2>1
    <3>3. PICK n \in S : \A y \in S : ~(<<y, n>> \in R)
      <4> HIDE DEF R, S
      <4> QED  BY <3>1, <3>2, WFMin
    <3>4. \A y \in S : ~(y < n)  BY <3>2, <3>3
    <3>5. n \in Nat /\ n <= max  BY <1>1, <2>1, <3>3, <3>4
    <3>6. E(n)  BY <3>3
    <3>7. \A m \in 0 .. n - 1 : ~E(m)  BY <3>4, <3>5
    <3> HIDE DEF E
    <3> QED  BY <1>1, <3>5, <3>6, <3>7
  <2> DEFINE n == CHOOSE x \in 0 .. max : E(x) /\ \A m \in 0 .. x - 1 : ~E(m)
  <2>3. L(n)
    <3> HIDE DEF E
    <3> QED  BY <2>2
  <2>4. InitialBlockSize(max) = FirstBlock * Shift[n]  BY <1>3 DEF InitialBlockSize
  <2> HIDE DEF n
  <2>5. n \in Nat /\ Shift[n] \in Nat /\ Shift[n] >= 1  BY <2>3, ShiftGrows
  <2>6. FirstBlock * Shift[n] \in Nat \ {0}  BY <1>1, <2>5
  <2>7. FirstBlock * Shift[n] <= max  BY <1>1, <1>3, <2>4, <2>6, CapacityAssumption
  <2> QED  BY <2>4, <2>6, <2>7
<1> QED  BY <1>2, <1>3

\* The next block and the doubled ones after it, rem in all, can hold what is
\* left; the next one leaves nothing, or something for each of the others.
Reaches(left, rem, size) ==
  /\ left <= size * (Shift[rem] - 1)
  /\ rem > 0 => size <= left /\ (size = left \/ size + (rem - 1) <= left)

\* Quotients.
LEMMA Division ==
  ASSUME NEW a \in Nat, NEW b \in Nat \ {0}
  PROVE /\ a \div b \in Nat /\ (a \div b) * b <= a /\ a < (a \div b) * b + b
        /\ a \div b <= a
<1> DEFINE q == a \div b
<1>1. q \in Nat /\ q * b <= a /\ a < q * b + b  OBVIOUS
<1> HIDE DEF q
<1>2. PICK p \in Nat : b = p + 1
  <2>1. b - 1 \in Nat /\ b = (b - 1) + 1  OBVIOUS
  <2> QED  BY <2>1
<1>3. q * b = q * p + q /\ q * p >= 0  BY <1>1, <1>2
<1>4. q <= a  BY <1>1, <1>3
<1> QED  BY <1>1, <1>4 DEF q

\* A share of what is left reaches it, as every share has an element.
LEMMA ShareReaches ==
  ASSUME NEW left \in Nat, NEW rem \in Nat \ {0}, left >= rem
  PROVE /\ left \div rem >= 1 /\ (left \div rem) + (rem - 1) <= left
        /\ left <= (left \div rem) * (Shift[rem] - 1)
<1> DEFINE q == left \div rem
           x == Shift[rem]
<1>1. q \in Nat /\ q * rem <= left /\ left < q * rem + rem /\ q <= left
  BY Division
<1>2. x \in Nat /\ x >= 2 * rem  BY ShiftGrows
<1> HIDE DEF q, x
<1>3. q >= 1
  <2>1. CASE q = 0
    <3>1. q * rem = 0  BY <2>1
    <3> QED  BY <1>1, <3>1
  <2> QED  BY <1>1, <2>1
<1>4. PICK a \in Nat, b \in Nat : q = a + 1 /\ rem = b + 1
  <2>1. q - 1 \in Nat /\ rem - 1 \in Nat /\ q = (q - 1) + 1 /\ rem = (rem - 1) + 1
    BY <1>1, <1>3
  <2> QED  BY <2>1
<1>5. q * rem = a * b + a + b + 1 /\ a * b >= 0  BY <1>4
<1>6. q + (rem - 1) <= left  BY <1>1, <1>4, <1>5
<1>7. left <= q * (x - 1)
  <2>1. PICK z \in Nat : x - 1 = (2 * b + 1) + z
    <3>1. (x - 1) - (2 * b + 1) \in Nat  BY <1>2, <1>4
    <3> QED  BY <1>2, <3>1
  <2>2. q * (x - 1) = 2 * (a * b) + a + 2 * b + 1 + q * z /\ q * z >= 0
    BY <1>1, <1>4, <2>1
  <2> QED  BY <1>1, <1>4, <1>5, <2>2
<1> QED  BY <1>3, <1>6, <1>7 DEF q, x

\* AddBlock keeps the sizes such that the blocks reach the capacity.
LEMMA BlockStep ==
  ASSUME max_elements \in Nat, NEW cap \in 0 .. max_elements, cap < max_elements,
         NEW rem \in Nat, NEW size \in Nat,
         Reaches(max_elements - cap, rem + 1, size)
  PROVE LET new == IF rem > 0 THEN NextBlockSize(size, cap + size, rem) ELSE size
        IN  /\ size >= 1 /\ cap + size \in 0 .. max_elements
            /\ new \in Nat /\ Reaches(max_elements - (cap + size), rem, new)
<1> DEFINE left == max_elements - cap
           rest == max_elements - (cap + size)
           x == Shift[rem]
<1>1. /\ left \in Nat \ {0} /\ left <= size * (2 * x - 1)
      /\ size <= left /\ (size = left \/ size + rem <= left)
      /\ x \in Nat /\ x >= 1
  <2>1. left \in Nat \ {0}  OBVIOUS
  <2>2. x \in Nat /\ x >= 1  BY ShiftGrows
  <2>3. Shift[rem + 1] = 2 * x  BY ShiftUnfolds
  <2>4. left <= size * (Shift[rem + 1] - 1)  BY DEF Reaches
  <2>5. size <= left /\ (size = left \/ size + ((rem + 1) - 1) <= left)
    <3>1. rem + 1 > 0  OBVIOUS
    <3> QED  BY <3>1 DEF Reaches
  <2>6. left <= size * (2 * x - 1)  BY <2>3, <2>4
  <2> HIDE DEF left, x
  <2>7. size = left \/ size + rem <= left  BY <2>1, <2>5
  <2> QED  BY <2>1, <2>2, <2>5, <2>6, <2>7
<1>2. rest = left - size /\ rest \in Nat /\ (rest = 0 \/ rem <= rest)  BY <1>1
<1>3. cap + size \in 0 .. max_elements  BY <1>1
<1> HIDE DEF left, rest, x
<1>4. size >= 1
  <2>1. CASE size = 0
    <3>1. size * (2 * x - 1) = 0  BY <1>1, <2>1
    <3> QED  BY <1>1, <3>1
  <2> QED  BY <2>1
<1>5. size * (2 * x - 1) = (2 * size) * (x - 1) + size  BY <1>1
<1>6. rest <= (2 * size) * (x - 1)
  <2> DEFINE y == (2 * size) * (x - 1)
  <2>1. y \in Nat  BY <1>1
  <2>2. left <= y + size  BY <1>1, <1>5
  <2> HIDE DEF y
  <2>3. rest <= y  BY <1>1, <1>2, <2>1, <2>2
  <2> QED  BY <2>3 DEF y
<1>7. CASE rem = 0
  <2>1. x = 1  BY <1>7, ShiftUnfolds DEF x
  <2>2. (2 * size) * (x - 1) = 0 /\ size * (x - 1) = 0  BY <2>1
  <2>3. rest = 0  BY <1>2, <1>6, <2>2
  <2>4. rest <= size * (x - 1)  BY <2>2, <2>3
  <2>5. Reaches(rest, rem, size)  BY <1>7, <2>4 DEF Reaches, x
  <2> QED  BY <1>3, <1>4, <1>7, <2>5 DEF rest
<1>8. CASE rem > 0
  <2> DEFINE q == rest \div rem
             new == NextBlockSize(size, cap + size, rem)
  <2>1. q \in Nat /\ q <= rest /\ (rest = 0 => q = 0)
    BY <1>2, <1>8, Division
  <2>2. rest > 0 => q >= 1 /\ q + (rem - 1) <= rest /\ rest <= q * (x - 1)
    <3>1. SUFFICES ASSUME rest > 0
                   PROVE q >= 1 /\ q + (rem - 1) <= rest /\ rest <= q * (x - 1)
      OBVIOUS
    <3>2. rest \in Nat /\ rem \in Nat \ {0} /\ rest >= rem  BY <1>2, <1>8, <3>1
    <3> QED  BY <3>2, ShareReaches DEF x
  <2>3. new = IF 2 * size > q THEN q ELSE 2 * size
    <3> DEFINE shared == IF 2 * size > q THEN q ELSE 2 * size
    <3>1. shared \in Nat /\ shared <= rest
      <4>1. rest \in Nat /\ 2 * size \in Nat  BY <1>2
      <4> HIDE DEF q
      <4> QED  BY <2>1, <4>1
    <3>2. new = IF cap + size + shared > max_elements THEN rest ELSE shared
      BY DEF NextBlockSize, rest
    <3> HIDE DEF q, shared, new
    <3>3. ~(cap + size + shared > max_elements)  BY <1>3, <3>1 DEF rest
    <3>4. new = shared  BY <3>2, <3>3
    <3> QED  BY <3>4 DEF shared
  <2> HIDE DEF q, new
  <2>4. new \in Nat /\ new <= q  BY <2>1, <2>3
  <2>5. new = rest \/ new + (rem - 1) <= rest
    <3>1. CASE rest = 0  BY <2>1, <2>4, <3>1
    <3>2. CASE rest > 0  BY <1>2, <1>8, <2>1, <2>2, <2>4, <3>2
    <3> QED  BY <1>2, <3>1, <3>2
  <2>6. rest <= new * (x - 1)
    <3>1. CASE rest = 0
      <4>1. new * (x - 1) >= 0  BY <1>1, <2>4
      <4> QED  BY <3>1, <4>1
    <3>2. CASE rest > 0 /\ new = q  BY <2>2, <3>2
    <3>3. CASE new = 2 * size  BY <1>6, <3>3
    <3> QED  BY <1>2, <2>3, <3>1, <3>2, <3>3
  <2>7. new <= rest  BY <1>2, <2>1, <2>4
  <2>8. Reaches(rest, rem, new)  BY <2>5, <2>6, <2>7 DEF Reaches, x
  <2> QED  BY <1>3, <1>4, <1>8, <2>4, <2>8 DEF rest, new
<1> QED  BY <1>7, <1>8

-----------------------------------------------------------------------------
(* The two linked lists.  A list is the function u from 1 .. n to the       *)
(* elements that the pointers follow.                                      *)

\* No element is twice on the list.
Distinct(u, n) ==
  /\ n \in Nat /\ u \in [1 .. n -> Elements]
  /\ \A i, j \in 1 .. n : u[i] = u[j] => i = j

\* The pointers of next lead from start through u.
Chain(next, start, u, n) ==
  /\ Distinct(u, n)
  /\ start = IF n = 0 THEN Nil ELSE u[1]
  /\ \A i \in 1 .. n : next[u[i]] = IF i = n THEN Nil ELSE u[i + 1]

\* The pointers of prev lead back.
Backward(prev, last, u, n) ==
  /\ last = IF n = 0 THEN Nil ELSE u[n]
  /\ \A i \in 1 .. n : prev[u[i]] = IF i = 1 THEN Nil ELSE u[i - 1]

\* An element that is not on a list.
Off(e, u, n) == \A i \in 1 .. n : u[i] # e

\* The cache uses the elements of u and has those of f to spare.
Lists(c, u, n, f, m) ==
  /\ c \in Caches
  /\ Chain(c.next, c.lru_head, u, n) /\ Backward(c.prev, c.lru_tail, u, n)
  /\ Chain(c.next, c.free_list, f, m) /\ \A j \in 1 .. m : c.prev[f[j]] = Nil
  /\ \A i \in 1 .. n, j \in 1 .. m : u[i] # f[j]

\* A list without its i-th element, with one more in front, without its first.
Without(u, n, i) == [j \in 1 .. n - 1 |-> IF j < i THEN u[j] ELSE u[j + 1]]
Pushed(e, u, n) == [j \in 1 .. n + 1 |-> IF j = 1 THEN e ELSE u[j - 1]]
Popped(u, n) == [j \in 1 .. n - 1 |-> u[j + 1]]

\* What does not belong to the lists.
SameData(c, d) ==
  /\ d.table = c.table /\ d.key = c.key /\ d.value = c.value
  /\ d.block_count = c.block_count /\ d.block_capacity = c.block_capacity
  /\ d.next_block_size = c.next_block_size

\* Nil is no element.
LEMMA NilIsNoElement == Nil \notin Elements /\ Nil \in Pointers
BY DEF Nil, Elements, Pointers

\* The fields of a cache.
LEMMA CacheFields ==
  ASSUME NEW c \in Caches
  PROVE /\ c.table \in [Key -> Pointers] /\ c.next \in [Elements -> Pointers]
        /\ c.prev \in [Elements -> Pointers]
        /\ c.key \in [Elements -> Key \cup {NoKey}] /\ c.value \in [Elements -> Value]
        /\ c.free_list \in Pointers /\ c.lru_head \in Pointers
        /\ c.lru_tail \in Pointers /\ c.block_count \in 0 .. MaxBlocks
        /\ c.block_capacity \in 0 .. max_elements /\ c.next_block_size \in Nat
        /\ c.ok \in BOOLEAN
BY DEF Caches

\* The elements of w are those of u but the k-th.
AllBut(w, u, n, k) ==
  /\ \A i \in 1 .. n : i # k => \E j \in 1 .. n - 1 : w[j] = u[i]
  /\ \A j \in 1 .. n - 1 : \E i \in 1 .. n : i # k /\ w[j] = u[i]

\* The elements left when the k-th goes.
LEMMA WithoutFacts ==
  ASSUME NEW u, NEW n, Distinct(u, n), NEW k \in 1 .. n
  PROVE /\ Distinct(Without(u, n, k), n - 1)
        /\ Off(u[k], Without(u, n, k), n - 1)
        /\ AllBut(Without(u, n, k), u, n, k)
<1> DEFINE w == Without(u, n, k)
           at(j) == IF j < k THEN j ELSE j + 1
<1>0. /\ n \in Nat /\ u \in [1 .. n -> Elements]
      /\ \A i, j \in 1 .. n : u[i] = u[j] => i = j
  BY DEF Distinct
<1>1. \A j \in 1 .. n - 1 : at(j) \in 1 .. n /\ at(j) # k /\ w[j] = u[at(j)]
  BY <1>0 DEF Without
<1>2. n - 1 \in Nat  BY <1>0
<1>3. \A i, j \in 1 .. n - 1 : at(i) = at(j) => i = j  BY <1>0
<1>4. w \in [1 .. n - 1 -> Elements]
  <2>1. \A j \in 1 .. n - 1 : w[j] \in Elements  BY <1>0, <1>1
  <2>2. w = [j \in 1 .. n - 1 |-> w[j]]  BY DEF Without
  <2> HIDE DEF w
  <2> QED  BY <2>1, <2>2
<1>5. \A i \in 1 .. n : i # k => \E j \in 1 .. n - 1 : at(j) = i
  <2>1. ASSUME NEW i \in 1 .. n, i < k PROVE i \in 1 .. n - 1 /\ at(i) = i
    BY <1>0, <2>1
  <2>2. ASSUME NEW i \in 1 .. n, i > k PROVE i - 1 \in 1 .. n - 1 /\ at(i - 1) = i
    BY <1>0, <2>2
  <2> HIDE DEF at
  <2> QED  BY <1>0, <2>1, <2>2
<1> HIDE DEF w, at
<1>6. \A i, j \in 1 .. n - 1 : w[i] = w[j] => i = j
  BY <1>0, <1>1, <1>3
<1>7. Off(u[k], w, n - 1)  BY <1>0, <1>1 DEF Off
<1>8. Distinct(w, n - 1)  BY <1>2, <1>4, <1>6 DEF Distinct
<1>9. AllBut(w, u, n, k)
  <2>1. \A i \in 1 .. n : i # k => \E j \in 1 .. n - 1 : w[j] = u[i]
    BY <1>1, <1>5
  <2>2. \A j \in 1 .. n - 1 : \E i \in 1 .. n : i # k /\ w[j] = u[i]
    BY <1>1
  <2> QED  BY <2>1, <2>2 DEF AllBut
<1> QED  BY <1>7, <1>8, <1>9 DEF w

\* The elements with one more in front.
LEMMA PushedFacts ==
  ASSUME NEW u, NEW n, Distinct(u, n), NEW e \in Elements, Off(e, u, n)
  PROVE /\ Distinct(Pushed(e, u, n), n + 1)
        /\ Pushed(e, u, n)[1] = e
        /\ \A j \in 2 .. n + 1 : Pushed(e, u, n)[j] = u[j - 1]
        /\ \A i \in 1 .. n : Pushed(e, u, n)[i + 1] = u[i]
<1> DEFINE w == Pushed(e, u, n)
<1>0. /\ n \in Nat /\ u \in [1 .. n -> Elements]
      /\ \A i, j \in 1 .. n : u[i] = u[j] => i = j
  BY DEF Distinct
<1>1. w[1] = e /\ \A j \in 2 .. n + 1 : w[j] = u[j - 1] /\ j - 1 \in 1 .. n
  BY <1>0 DEF Pushed
<1>2. \A i \in 1 .. n : i + 1 \in 2 .. n + 1 /\ (i + 1) - 1 = i  BY <1>0
<1>3. \A j \in 1 .. n + 1 : j = 1 \/ j \in 2 .. n + 1  BY <1>0
<1>4. w \in [1 .. n + 1 -> Elements]
  <2>1. \A j \in 1 .. n + 1 : w[j] \in Elements  BY <1>0, <1>1, <1>3
  <2>2. w = [j \in 1 .. n + 1 |-> w[j]]  BY DEF Pushed
  <2> HIDE DEF w
  <2> QED  BY <2>1, <2>2
<1> HIDE DEF w
<1>5. \A i \in 1 .. n : w[i + 1] = u[i]
  <2> TAKE i \in 1 .. n
  <2> QED  BY <1>1, <1>2
<1>6. ASSUME NEW i \in 1 .. n + 1, NEW j \in 1 .. n + 1, w[i] = w[j] PROVE i = j
  <2>1. CASE i = 1 /\ j = 1  BY <2>1
  <2>2. CASE i = 1 /\ j \in 2 .. n + 1  BY <1>1, <1>6, <2>2 DEF Off
  <2>3. CASE i \in 2 .. n + 1 /\ j = 1  BY <1>1, <1>6, <2>3 DEF Off
  <2>4. CASE i \in 2 .. n + 1 /\ j \in 2 .. n + 1
    <3>1. u[i - 1] = u[j - 1] /\ i - 1 \in 1 .. n /\ j - 1 \in 1 .. n
      BY <1>1, <1>6, <2>4
    <3>2. i - 1 = j - 1  BY <1>0, <3>1
    <3> QED  BY <1>0, <2>4, <3>2
  <2> QED  BY <1>3, <2>1, <2>2, <2>3, <2>4
<1>7. Distinct(w, n + 1)  BY <1>0, <1>4, <1>6 DEF Distinct
<1> QED  BY <1>1, <1>5, <1>7 DEF w

\* A chain that the change of pointers does not touch.
LEMMA ChainKept ==
  ASSUME NEW next, NEW next2, NEW start, NEW u, NEW n, Chain(next, start, u, n),
         \A i \in 1 .. n : next2[u[i]] = next[u[i]]
  PROVE Chain(next2, start, u, n)
BY DEF Chain

\* The k-th element is cut out of the chain.
LEMMA ChainCut ==
  ASSUME NEW next, NEW next2, NEW start, NEW start2, NEW u, NEW n,
         Chain(next, start, u, n), NEW k \in 1 .. n,
         \A x \in Elements : x # u[k] =>
           next2[x] = IF k > 1 /\ x = u[k - 1] THEN next[u[k]] ELSE next[x],
         start2 = IF k = 1 THEN next[u[k]] ELSE start
  PROVE Chain(next2, start2, Without(u, n, k), n - 1)
<1> DEFINE w == Without(u, n, k)
<1>1. /\ n \in Nat /\ u \in [1 .. n -> Elements]
      /\ \A i, j \in 1 .. n : u[i] = u[j] => i = j
      /\ start = IF n = 0 THEN Nil ELSE u[1]
      /\ \A i \in 1 .. n : next[u[i]] = IF i = n THEN Nil ELSE u[i + 1]
  BY DEF Chain, Distinct
<1>2. Distinct(w, n - 1)
  <2>1. Distinct(u, n)  BY DEF Chain
  <2> QED  BY <2>1, WithoutFacts
<1>3. \A j \in 1 .. n - 1 : w[j] = IF j < k THEN u[j] ELSE u[j + 1]  BY DEF Without
<1>4. \A i \in 1 .. n : i # k => u[i] # u[k]  BY <1>1
<1> HIDE DEF w
<1>5. start2 = IF n - 1 = 0 THEN Nil ELSE w[1]
  <2>1. CASE k = 1  BY <1>1, <1>3, <2>1
  <2>2. CASE k > 1
    <3>1. 1 \in 1 .. n - 1 /\ n # 0 /\ n - 1 # 0  BY <1>1, <2>2
    <3> QED  BY <1>1, <1>3, <2>2, <3>1
  <2> QED  BY <2>1, <2>2
<1>6. ASSUME NEW j \in 1 .. n - 1
      PROVE next2[w[j]] = IF j = n - 1 THEN Nil ELSE w[j + 1]
  <2>1. CASE j < k - 1
    <3>1. j \in 1 .. n /\ k - 1 \in 1 .. n /\ j # k - 1 /\ j # k /\ j # n /\ j # n - 1
          /\ j + 1 \in 1 .. n - 1 /\ j + 1 < k /\ j < k
      BY <1>1, <2>1
    <3>2. w[j] = u[j] /\ w[j + 1] = u[j + 1]  BY <1>3, <3>1
    <3>3. u[j] \in Elements /\ u[j] # u[k] /\ u[j] # u[k - 1]  BY <1>1, <3>1
    <3>4. next2[u[j]] = next[u[j]]  BY <3>3
    <3>5. next[u[j]] = u[j + 1]  BY <1>1, <3>1
    <3> QED  BY <3>1, <3>2, <3>4, <3>5
  <2>2. CASE j = k - 1
    <3>1. j \in 1 .. n /\ k > 1 /\ j < k /\ j # k /\ j + 1 = k /\ (j = n - 1 <=> k = n)
      BY <1>1, <2>2
    <3>2. w[j] = u[j] /\ u[j] \in Elements /\ u[j] # u[k]  BY <1>1, <1>3, <3>1
    <3>3. next2[u[j]] = next[u[k]]  BY <2>2, <3>1, <3>2
    <3>4. next[u[k]] = IF k = n THEN Nil ELSE u[k + 1]  BY <1>1
    <3>5. j # n - 1 => w[j + 1] = u[k + 1]
      <4>1. j # n - 1 => k \in 1 .. n - 1 /\ ~(k < k)  BY <1>1, <2>2
      <4> QED  BY <1>3, <3>1, <4>1
    <3> QED  BY <3>1, <3>2, <3>3, <3>4, <3>5
  <2>3. CASE j >= k
    <3>1. j + 1 \in 1 .. n /\ ~(j < k) /\ j + 1 # k /\ (j + 1 = n <=> j = n - 1)
          /\ (k > 1 => k - 1 \in 1 .. n /\ j + 1 # k - 1)
      BY <1>1, <2>3
    <3>2. w[j] = u[j + 1] /\ u[j + 1] \in Elements /\ u[j + 1] # u[k]
      BY <1>1, <1>3, <3>1
    <3>3. k > 1 => u[j + 1] # u[k - 1]  BY <1>1, <3>1
    <3>4. next2[u[j + 1]] = next[u[j + 1]]  BY <3>2, <3>3
    <3>5. next[u[j + 1]] = IF j = n - 1 THEN Nil ELSE u[(j + 1) + 1]  BY <1>1, <3>1
    <3>6. j # n - 1 => w[j + 1] = u[(j + 1) + 1]
      <4>1. j # n - 1 => j + 1 \in 1 .. n - 1 /\ ~(j + 1 < k)  BY <1>1, <2>3
      <4> QED  BY <1>3, <4>1
    <3> QED  BY <3>2, <3>4, <3>5, <3>6
  <2> QED  BY <1>1, <2>1, <2>2, <2>3
<1> QED  BY <1>2, <1>5, <1>6 DEF Chain, w

\* And the pointers back.
LEMMA BackwardCut ==
  ASSUME NEW prev, NEW prev2, NEW last, NEW last2, NEW u, NEW n,
         Distinct(u, n), Backward(prev, last, u, n), NEW k \in 1 .. n,
         \A x \in Elements : x # u[k] =>
           prev2[x] = IF k < n /\ x = u[k + 1] THEN prev[u[k]] ELSE prev[x],
         last2 = IF k = n THEN prev[u[k]] ELSE last
  PROVE Backward(prev2, last2, Without(u, n, k), n - 1)
<1> DEFINE w == Without(u, n, k)
<1>0. /\ n \in Nat /\ u \in [1 .. n -> Elements]
      /\ \A i, j \in 1 .. n : u[i] = u[j] => i = j
  BY DEF Distinct
<1>1. /\ last = u[n]
      /\ \A i \in 1 .. n : prev[u[i]] = IF i = 1 THEN Nil ELSE u[i - 1]
  BY <1>0 DEF Backward
<1>3. \A j \in 1 .. n - 1 : w[j] = IF j < k THEN u[j] ELSE u[j + 1]  BY DEF Without
<1> HIDE DEF w
<1>5. last2 = IF n - 1 = 0 THEN Nil ELSE w[n - 1]
  <2>1. CASE k = n
    <3>1. prev[u[k]] = IF n - 1 = 0 THEN Nil ELSE u[n - 1]  BY <1>0, <1>1, <2>1
    <3>2. n - 1 # 0 => n - 1 \in 1 .. n - 1 /\ n - 1 < k  BY <1>0, <2>1
    <3> QED  BY <1>0, <1>3, <2>1, <3>1, <3>2
  <2>2. CASE k < n
    <3>1. n - 1 \in 1 .. n - 1 /\ ~(n - 1 < k) /\ n - 1 # 0 /\ (n - 1) + 1 = n
      BY <1>0, <2>2
    <3>2. w[n - 1] = u[n]  BY <1>0, <1>3, <3>1
    <3> QED  BY <1>0, <1>1, <2>2, <3>1, <3>2
  <2> QED  BY <1>0, <2>1, <2>2
<1>6. ASSUME NEW j \in 1 .. n - 1
      PROVE prev2[w[j]] = IF j = 1 THEN Nil ELSE w[j - 1]
  <2>1. CASE j < k
    <3>1. j \in 1 .. n /\ j # k /\ (k < n => k + 1 \in 1 .. n /\ j # k + 1)  BY <1>0, <2>1
    <3>2. w[j] = u[j] /\ u[j] \in Elements /\ u[j] # u[k]  BY <1>0, <1>3, <2>1, <3>1
    <3>3. k < n => u[j] # u[k + 1]  BY <1>0, <3>1
    <3>4. prev2[u[j]] = prev[u[j]]  BY <1>0, <3>2, <3>3
    <3>5. prev[u[j]] = IF j = 1 THEN Nil ELSE u[j - 1]  BY <1>0, <1>1, <3>1
    <3>6. j # 1 => w[j - 1] = u[j - 1]
      <4>1. j # 1 => j - 1 \in 1 .. n - 1 /\ j - 1 < k  BY <1>0, <2>1
      <4> QED  BY <1>0, <1>3, <4>1
    <3> QED  BY <1>0, <3>2, <3>4, <3>5, <3>6
  <2>2. CASE j = k
    <3>1. k < n /\ k + 1 \in 1 .. n /\ ~(j < k) /\ k + 1 # k  BY <1>0, <2>2
    <3>2. w[j] = u[k + 1] /\ u[k + 1] \in Elements /\ u[k + 1] # u[k]
      BY <1>0, <1>3, <2>2, <3>1
    <3>3. prev2[u[k + 1]] = prev[u[k]]  BY <1>0, <3>1, <3>2
    <3>4. prev[u[k]] = IF k = 1 THEN Nil ELSE u[k - 1]  BY <1>0, <1>1
    <3>5. j # 1 => w[j - 1] = u[k - 1]
      <4>1. j # 1 => j - 1 \in 1 .. n - 1 /\ j - 1 < k /\ j - 1 = k - 1  BY <1>0, <2>2
      <4> QED  BY <1>0, <1>3, <4>1
    <3> QED  BY <1>0, <2>2, <3>2, <3>3, <3>4, <3>5
  <2>3. CASE j > k
    <3>1. j + 1 \in 1 .. n /\ ~(j < k) /\ j + 1 # k /\ j # 1 /\ j + 1 # 1
          /\ (j + 1) - 1 = j /\ k + 1 \in 1 .. n /\ j + 1 # k + 1
      BY <1>0, <2>3
    <3>2. w[j] = u[j + 1] /\ u[j + 1] \in Elements /\ u[j + 1] # u[k]
          /\ u[j + 1] # u[k + 1]
      BY <1>0, <1>3, <3>1
    <3>3. prev2[u[j + 1]] = prev[u[j + 1]]  BY <1>0, <3>2
    <3>4. prev[u[j + 1]] = u[j]  BY <1>0, <1>1, <3>1
    <3>5. w[j - 1] = u[j]
      <4>1. j - 1 \in 1 .. n - 1 /\ ~(j - 1 < k) /\ (j - 1) + 1 = j  BY <1>0, <2>3
      <4> QED  BY <1>0, <1>3, <4>1
    <3> QED  BY <1>0, <3>1, <3>2, <3>3, <3>4, <3>5
  <2> QED  BY <1>0, <2>1, <2>2, <2>3
<1> QED  BY <1>0, <1>5, <1>6 DEF Backward, w

\* An element on neither list, with no pointers left.
Detached(c, e, u, n, f, m) ==
  /\ e \in Elements /\ Off(e, u, n) /\ Off(e, f, m)
  /\ c.next[e] = Nil /\ c.prev[e] = Nil

\* What RemoveFromLRU changes.
LEMMA RemoveFields ==
  ASSUME NEW c \in Caches, NEW e \in Elements
  PROVE LET d == RemoveFromLRU(c, e) IN
        /\ d \in Caches /\ SameData(c, d) /\ d.ok = c.ok /\ d.free_list = c.free_list
        /\ d.lru_head = IF c.lru_head = e THEN c.next[e] ELSE c.lru_head
        /\ d.lru_tail = IF c.lru_tail = e THEN c.prev[e] ELSE c.lru_tail
        /\ \A x \in Elements :
             /\ d.next[x] = IF x = e THEN Nil
                            ELSE IF x = c.prev[e] THEN c.next[e] ELSE c.next[x]
             /\ d.prev[x] = IF x = e THEN Nil
                            ELSE IF x = c.next[e] THEN c.prev[e] ELSE c.prev[x]
<1> DEFINE d == RemoveFromLRU(c, e)
           nx == [x \in Elements |-> IF x = e THEN Nil
                                     ELSE IF x = c.prev[e] THEN c.next[e] ELSE c.next[x]]
           pv == [x \in Elements |-> IF x = e THEN Nil
                                     ELSE IF x = c.next[e] THEN c.prev[e] ELSE c.prev[x]]
           hd == IF c.lru_head = e THEN c.next[e] ELSE c.lru_head
           tl == IF c.lru_tail = e THEN c.prev[e] ELSE c.lru_tail
<1>1. c.next[e] \in Pointers /\ c.prev[e] \in Pointers  BY CacheFields
<1>2. nx \in [Elements -> Pointers] /\ pv \in [Elements -> Pointers]
      /\ hd \in Pointers /\ tl \in Pointers
  BY <1>1, CacheFields, NilIsNoElement
<1>3. d = [c EXCEPT !.lru_head = hd, !.lru_tail = tl, !.next = nx, !.prev = pv]
  BY DEF RemoveFromLRU, Caches
<1>4. \A x \in Elements :
        /\ nx[x] = IF x = e THEN Nil
                   ELSE IF x = c.prev[e] THEN c.next[e] ELSE c.next[x]
        /\ pv[x] = IF x = e THEN Nil
                   ELSE IF x = c.next[e] THEN c.prev[e] ELSE c.prev[x]
  OBVIOUS
<1> HIDE DEF nx, pv, d
<1>5. d \in Caches  BY <1>2, <1>3 DEF Caches
<1>6. SameData(c, d) /\ d.ok = c.ok /\ d.free_list = c.free_list
      /\ d.lru_head = hd /\ d.lru_tail = tl /\ d.next = nx /\ d.prev = pv
  BY <1>3 DEF SameData, Caches
<1> QED  BY <1>4, <1>5, <1>6 DEF d

\* RemoveFromLRU takes the k-th element out of the list of use.
LEMMA RemoveKeeps ==
  ASSUME NEW c, NEW u, NEW n, NEW f, NEW m, Lists(c, u, n, f, m), NEW k \in 1 .. n
  PROVE LET d == RemoveFromLRU(c, u[k])
            w == Without(u, n, k) IN
        /\ Lists(d, w, n - 1, f, m) /\ Detached(d, u[k], w, n - 1, f, m)
        /\ SameData(c, d) /\ d.ok = c.ok
<1>e. PICK e : e = u[k]  OBVIOUS
<1> DEFINE d == RemoveFromLRU(c, e)
           w == Without(u, n, k)
<1>1. /\ c \in Caches /\ Distinct(u, n) /\ Distinct(f, m)
      /\ Chain(c.next, c.lru_head, u, n) /\ Backward(c.prev, c.lru_tail, u, n)
      /\ Chain(c.next, c.free_list, f, m) /\ \A j \in 1 .. m : c.prev[f[j]] = Nil
      /\ \A i \in 1 .. n, j \in 1 .. m : u[i] # f[j]
  BY DEF Lists, Chain
<1>2. /\ n \in Nat /\ u \in [1 .. n -> Elements] /\ e \in Elements
      /\ \A i, j \in 1 .. n : u[i] = u[j] => i = j
  BY <1>1, <1>e DEF Distinct
<1>3. /\ c.lru_head = u[1] /\ c.next[e] = IF k = n THEN Nil ELSE u[k + 1]
      /\ c.lru_tail = u[n] /\ c.prev[e] = IF k = 1 THEN Nil ELSE u[k - 1]
  BY <1>1, <1>2, <1>e DEF Chain, Backward
<1>4. /\ d \in Caches /\ SameData(c, d) /\ d.ok = c.ok /\ d.free_list = c.free_list
      /\ d.lru_head = IF c.lru_head = e THEN c.next[e] ELSE c.lru_head
      /\ d.lru_tail = IF c.lru_tail = e THEN c.prev[e] ELSE c.lru_tail
      /\ \A x \in Elements :
           /\ d.next[x] = IF x = e THEN Nil
                          ELSE IF x = c.prev[e] THEN c.next[e] ELSE c.next[x]
           /\ d.prev[x] = IF x = e THEN Nil
                          ELSE IF x = c.next[e] THEN c.prev[e] ELSE c.prev[x]
  BY <1>1, <1>2, RemoveFields
<1>5. \A x \in Elements : x # Nil  BY NilIsNoElement
<1>6. Distinct(w, n - 1) /\ Off(e, w, n - 1)
      /\ \A j \in 1 .. n - 1 : \E i \in 1 .. n : w[j] = u[i]
  <2>1. Distinct(u, n)  BY <1>1
  <2>2. Distinct(w, n - 1) /\ Off(u[k], w, n - 1) /\ AllBut(w, u, n, k)
    BY <2>1, WithoutFacts
  <2> HIDE DEF w
  <2> QED  BY <1>e, <2>2 DEF AllBut
<1> HIDE DEF d, w
<1>7. Chain(d.next, d.lru_head, w, n - 1)
  <2>1. \A x \in Elements : x # u[k] =>
          d.next[x] = IF k > 1 /\ x = u[k - 1] THEN c.next[u[k]] ELSE c.next[x]
    BY <1>2, <1>3, <1>4, <1>5, <1>e
  <2>2. c.lru_head = e <=> k = 1  BY <1>2, <1>3, <1>e
  <2>3. d.lru_head = IF k = 1 THEN c.next[u[k]] ELSE c.lru_head
    BY <1>4, <2>2, <1>e
  <2> QED  BY <1>1, <2>1, <2>3, ChainCut DEF w
<1>8. Backward(d.prev, d.lru_tail, w, n - 1)
  <2>1. \A x \in Elements : x # u[k] =>
          d.prev[x] = IF k < n /\ x = u[k + 1] THEN c.prev[u[k]] ELSE c.prev[x]
    BY <1>2, <1>3, <1>4, <1>5, <1>e
  <2>2. c.lru_tail = e <=> k = n  BY <1>2, <1>3, <1>e
  <2>3. d.lru_tail = IF k = n THEN c.prev[u[k]] ELSE c.lru_tail
    BY <1>4, <2>2, <1>e
  <2> QED  BY <1>1, <2>1, <2>3, BackwardCut DEF w
<1>9. ASSUME NEW j \in 1 .. m
      PROVE f[j] \in Elements /\ f[j] # e /\ d.next[f[j]] = c.next[f[j]]
            /\ d.prev[f[j]] = Nil
  <2>1. f[j] \in Elements /\ \A i \in 1 .. n : f[j] # u[i]  BY <1>1 DEF Distinct
  <2>2. f[j] # e  BY <2>1, <1>e
  <2>3. f[j] # c.prev[e]
    <3>1. k # 1 => k - 1 \in 1 .. n  BY <1>2
    <3> QED  BY <1>3, <1>5, <2>1, <3>1
  <2>4. f[j] # c.next[e]
    <3>1. k # n => k + 1 \in 1 .. n  BY <1>2
    <3> QED  BY <1>3, <1>5, <2>1, <3>1
  <2> QED  BY <1>1, <1>4, <2>1, <2>2, <2>3, <2>4
<1>10. Chain(d.next, d.free_list, f, m)  BY <1>1, <1>4, <1>9, ChainKept
<1>11. \A i \in 1 .. n - 1, j \in 1 .. m : w[i] # f[j]  BY <1>1, <1>6
<1>12. Lists(d, w, n - 1, f, m)
  BY <1>4, <1>7, <1>8, <1>9, <1>10, <1>11 DEF Lists
<1>13. Detached(d, e, w, n - 1, f, m)
  BY <1>2, <1>4, <1>6, <1>9 DEF Detached, Off
<1> QED  BY <1>4, <1>12, <1>13, <1>e DEF d, w

\* An element in front of a chain.
LEMMA ChainPush ==
  ASSUME NEW next, NEW next2, NEW start, NEW u, NEW n, Chain(next, start, u, n),
         NEW e \in Elements, Off(e, u, n), next2[e] = start,
         \A i \in 1 .. n : next2[u[i]] = next[u[i]]
  PROVE Chain(next2, e, Pushed(e, u, n), n + 1)
<1> DEFINE w == Pushed(e, u, n)
<1>1. /\ n \in Nat /\ start = IF n = 0 THEN Nil ELSE u[1]
      /\ \A i \in 1 .. n : next[u[i]] = IF i = n THEN Nil ELSE u[i + 1]
  BY DEF Chain, Distinct
<1>2. Distinct(w, n + 1) /\ w[1] = e /\ \A i \in 1 .. n : w[i + 1] = u[i]
  BY PushedFacts DEF Chain
<1> HIDE DEF w
<1>3. ASSUME NEW j \in 1 .. n + 1
      PROVE next2[w[j]] = IF j = n + 1 THEN Nil ELSE w[j + 1]
  <2>1. CASE j = 1
    <3>1. CASE n = 0  BY <1>1, <1>2, <2>1, <3>1
    <3>2. CASE n > 0
      <4>1. 1 \in 1 .. n /\ j # n + 1  BY <1>1, <2>1, <3>2
      <4>2. w[2] = u[1]  BY <1>2, <4>1
      <4> QED  BY <1>1, <1>2, <2>1, <3>2, <4>1, <4>2
    <3> QED  BY <1>1, <3>1, <3>2
  <2>2. CASE j > 1
    <3>1. PICK i \in 1 .. n : j = i + 1
      <4>1. j - 1 \in 1 .. n /\ j = (j - 1) + 1  BY <1>1, <2>2
      <4> QED  BY <4>1
    <3>2. w[j] = u[i] /\ next2[u[i]] = IF i = n THEN Nil ELSE u[i + 1]
      BY <1>1, <1>2, <3>1
    <3>3. i # n => i + 1 \in 1 .. n /\ j # n + 1  BY <1>1, <3>1
    <3>4. i # n => w[j + 1] = u[i + 1]  BY <1>2, <3>1, <3>3
    <3> QED  BY <3>1, <3>2, <3>3, <3>4
  <2> QED  BY <1>1, <2>1, <2>2
<1>4. n + 1 # 0  BY <1>1
<1> QED  BY <1>2, <1>3, <1>4 DEF Chain, w

\* PushFreeList puts a detached element in front of the free list.
LEMMA PushFreeKeeps ==
  ASSUME NEW c, NEW u, NEW n, NEW f, NEW m, Lists(c, u, n, f, m),
         NEW e \in Elements, Off(e, u, n), Off(e, f, m)
  PROVE LET d == PushFreeList(c, e) IN
        /\ Lists(d, u, n, Pushed(e, f, m), m + 1) /\ SameData(c, d) /\ d.ok = c.ok
<1> DEFINE d == PushFreeList(c, e)
           w == Pushed(e, f, m)
<1>1. /\ c \in Caches /\ Distinct(u, n) /\ Distinct(f, m)
      /\ Chain(c.next, c.lru_head, u, n) /\ Backward(c.prev, c.lru_tail, u, n)
      /\ Chain(c.next, c.free_list, f, m) /\ \A j \in 1 .. m : c.prev[f[j]] = Nil
      /\ \A i \in 1 .. n, j \in 1 .. m : u[i] # f[j]
  BY DEF Lists, Chain
<1>2. /\ d \in Caches /\ SameData(c, d) /\ d.ok = c.ok
      /\ d.next = [c.next EXCEPT ![e] = c.free_list]
      /\ d.prev = [c.prev EXCEPT ![e] = Nil]
      /\ d.free_list = e /\ d.lru_head = c.lru_head /\ d.lru_tail = c.lru_tail
  <2> DEFINE nx == [c.next EXCEPT ![e] = c.free_list]
             pv == [c.prev EXCEPT ![e] = Nil]
  <2>1. nx \in [Elements -> Pointers] /\ pv \in [Elements -> Pointers] /\ e \in Pointers
    BY <1>1, CacheFields, NilIsNoElement DEF Pointers
  <2>2. d = [c EXCEPT !.next = nx, !.prev = pv, !.free_list = e]
    BY <1>1 DEF PushFreeList, Caches
  <2> HIDE DEF nx, pv, d
  <2>3. d \in Caches  BY <1>1, <2>1, <2>2 DEF Caches
  <2>4. SameData(c, d) /\ d.ok = c.ok /\ d.next = nx /\ d.prev = pv /\ d.free_list = e
        /\ d.lru_head = c.lru_head /\ d.lru_tail = c.lru_tail
    BY <1>1, <2>2 DEF Caches, SameData
  <2> QED  BY <2>3, <2>4 DEF nx, pv
<1>3. d.next[e] = c.free_list /\ d.prev[e] = Nil
      /\ \A x \in Elements : x # e => d.next[x] = c.next[x] /\ d.prev[x] = c.prev[x]
  BY <1>1, <1>2, CacheFields
<1> HIDE DEF d, w
<1>4. \A i \in 1 .. n : u[i] \in Elements /\ u[i] # e  BY <1>1 DEF Distinct, Off
<1>5. \A j \in 1 .. m : f[j] \in Elements /\ f[j] # e  BY <1>1 DEF Distinct, Off
<1>6. Chain(d.next, d.lru_head, u, n)
  <2>1. \A i \in 1 .. n : d.next[u[i]] = c.next[u[i]]  BY <1>3, <1>4
  <2>2. d.lru_head = c.lru_head  BY <1>2
  <2> QED  BY <1>1, <2>1, <2>2, ChainKept
<1>7. Backward(d.prev, d.lru_tail, u, n)  BY <1>1, <1>2, <1>3, <1>4 DEF Backward
<1>8. Chain(d.next, d.free_list, w, m + 1)
  <2>1. \A i \in 1 .. m : d.next[f[i]] = c.next[f[i]]  BY <1>3, <1>5
  <2>2. d.next[e] = c.free_list  BY <1>3
  <2>3. Chain(d.next, e, w, m + 1)  BY <1>1, <2>1, <2>2, ChainPush DEF w
  <2> QED  BY <1>2, <2>3
<1>9. \A j \in 1 .. m + 1 : w[j] = e \/ \E i \in 1 .. m : w[j] = f[i]
  <2>1. m \in Nat  BY <1>1 DEF Distinct
  <2>2. \A j \in 1 .. m + 1 : w[j] = IF j = 1 THEN e ELSE f[j - 1]  BY DEF w, Pushed
  <2>3. \A j \in 1 .. m + 1 : j # 1 => j - 1 \in 1 .. m  BY <2>1
  <2> QED  BY <2>2, <2>3
<1>10. \A j \in 1 .. m + 1 : d.prev[w[j]] = Nil  BY <1>1, <1>3, <1>5, <1>9
<1>11. \A i \in 1 .. n, j \in 1 .. m + 1 : u[i] # w[j]  BY <1>1, <1>4, <1>9
<1>12. Lists(d, u, n, w, m + 1)
  BY <1>2, <1>6, <1>7, <1>8, <1>10, <1>11 DEF Lists
<1> QED  BY <1>2, <1>12 DEF d, w

\* The first element leaves a chain.
LEMMA ChainPop ==
  ASSUME NEW next, NEW next2, NEW start, NEW f, NEW m, Chain(next, start, f, m),
         m > 0, \A j \in 2 .. m : next2[f[j]] = next[f[j]]
  PROVE /\ Chain(next2, next[f[1]], Popped(f, m), m - 1)
        /\ Off(f[1], Popped(f, m), m - 1)
        /\ \A j \in 1 .. m - 1 : \E i \in 2 .. m : Popped(f, m)[j] = f[i]
<1> DEFINE w == Popped(f, m)
<1>1. /\ m \in Nat /\ f \in [1 .. m -> Elements]
      /\ \A i, j \in 1 .. m : f[i] = f[j] => i = j
      /\ \A i \in 1 .. m : next[f[i]] = IF i = m THEN Nil ELSE f[i + 1]
  BY DEF Chain, Distinct
<1>2. m - 1 \in Nat /\ 1 \in 1 .. m
      /\ \A j \in 1 .. m - 1 : w[j] = f[j + 1] /\ j + 1 \in 2 .. m /\ j + 1 \in 1 .. m
  BY <1>1 DEF Popped
<1>3. w \in [1 .. m - 1 -> Elements]
  <2>1. \A j \in 1 .. m - 1 : w[j] \in Elements  BY <1>1, <1>2
  <2>2. w = [j \in 1 .. m - 1 |-> w[j]]  BY DEF Popped
  <2> HIDE DEF w
  <2> QED  BY <2>1, <2>2
<1> HIDE DEF w
<1>4. ASSUME NEW i \in 1 .. m - 1, NEW j \in 1 .. m - 1, w[i] = w[j] PROVE i = j
  <2>1. f[i + 1] = f[j + 1]  BY <1>2, <1>4
  <2>2. i + 1 = j + 1  BY <1>1, <1>2, <2>1
  <2> QED  BY <1>1, <2>2
<1>5. Distinct(w, m - 1)  BY <1>2, <1>3, <1>4 DEF Distinct
<1>6. next[f[1]] = IF m - 1 = 0 THEN Nil ELSE w[1]
  <2>1. CASE m = 1  BY <1>1, <2>1
  <2>2. CASE m > 1
    <3>1. 1 \in 1 .. m - 1 /\ 1 # m /\ m - 1 # 0  BY <1>1, <2>2
    <3> QED  BY <1>1, <1>2, <3>1
  <2> QED  BY <1>1, <2>1, <2>2
<1>7. ASSUME NEW j \in 1 .. m - 1
      PROVE next2[w[j]] = IF j = m - 1 THEN Nil ELSE w[j + 1]
  <2>1. next2[w[j]] = IF j + 1 = m THEN Nil ELSE f[(j + 1) + 1]  BY <1>1, <1>2
  <2>2. j + 1 = m <=> j = m - 1  BY <1>1
  <2>3. j # m - 1 => w[j + 1] = f[(j + 1) + 1]
    <3>1. j # m - 1 => j + 1 \in 1 .. m - 1  BY <1>1
    <3> QED  BY <1>2, <3>1
  <2> QED  BY <2>1, <2>2, <2>3
<1>8. Chain(next2, next[f[1]], w, m - 1)  BY <1>5, <1>6, <1>7 DEF Chain
<1>9. Off(f[1], w, m - 1)
  <2> SUFFICES ASSUME NEW j \in 1 .. m - 1, w[j] = f[1] PROVE FALSE  BY DEF Off
  <2>1. j + 1 = 1  BY <1>1, <1>2
  <2> QED  BY <1>1, <2>1
<1> QED  BY <1>2, <1>8, <1>9 DEF w

\* PopFreeList takes the first free element, which becomes detached.
LEMMA PopFreeKeeps ==
  ASSUME NEW c, NEW u, NEW n, NEW f, NEW m, Lists(c, u, n, f, m), m > 0
  PROVE LET d == PopFreeList(c)
            w == Popped(f, m) IN
        /\ c.free_list = f[1] /\ f[1] # Nil
        /\ Lists(d, u, n, w, m - 1) /\ Detached(d, f[1], u, n, w, m - 1)
        /\ SameData(c, d) /\ d.ok = c.ok
<1> DEFINE d == PopFreeList(c)
           w == Popped(f, m)
<1>r. PICK r : r = f[1]  OBVIOUS
<1>1. /\ c \in Caches /\ Distinct(u, n) /\ Distinct(f, m)
      /\ Chain(c.next, c.lru_head, u, n) /\ Backward(c.prev, c.lru_tail, u, n)
      /\ Chain(c.next, c.free_list, f, m) /\ \A j \in 1 .. m : c.prev[f[j]] = Nil
      /\ \A i \in 1 .. n, j \in 1 .. m : u[i] # f[j]
  BY DEF Lists, Chain
<1>2. m \in Nat /\ 1 \in 1 .. m /\ r \in Elements /\ r # Nil /\ c.free_list = r
      /\ c.prev[r] = Nil /\ \A j \in 2 .. m : f[j] \in Elements /\ f[j] # r
  BY <1>1, <1>r, NilIsNoElement DEF Chain, Distinct
<1>3. c.next[r] \in Pointers /\ \A x \in Elements : x = c.next[r] => c.prev[x] = Nil
  <2>1. c.next[r] = IF m = 1 THEN Nil ELSE f[2]  BY <1>1, <1>2, <1>r DEF Chain
  <2>2. m # 1 => 2 \in 1 .. m  BY <1>2
  <2>3. c.next[r] \in Pointers  BY <1>1, <1>2, CacheFields
  <2> QED  BY <1>1, <2>1, <2>2, <2>3, NilIsNoElement
<1>4. /\ d \in Caches /\ SameData(c, d) /\ d.ok = c.ok
      /\ d.next = [c.next EXCEPT ![r] = Nil]
      /\ \A x \in Elements : d.prev[x] = IF x = c.next[r] THEN Nil ELSE c.prev[x]
      /\ d.free_list = c.next[r] /\ d.lru_head = c.lru_head /\ d.lru_tail = c.lru_tail
  <2> DEFINE nx == [c.next EXCEPT ![r] = Nil]
             pv == [x \in Elements |-> IF x = c.next[r] THEN Nil ELSE c.prev[x]]
             o == c.ok /\ c.prev[r] = Nil
  <2>1. nx \in [Elements -> Pointers] /\ pv \in [Elements -> Pointers]
    BY <1>1, <1>2, CacheFields, NilIsNoElement
  <2>2. d = [c EXCEPT !.ok = o, !.free_list = c.next[r], !.prev = pv, !.next = nx]
    BY <1>1, <1>2 DEF PopFreeList, Caches
  <2>3. o \in BOOLEAN  OBVIOUS
  <2>4. o = c.ok
    <3>1. c.ok \in BOOLEAN  BY <1>1, CacheFields
    <3> QED  BY <1>2, <3>1
  <2>5. \A x \in Elements : pv[x] = IF x = c.next[r] THEN Nil ELSE c.prev[x]  OBVIOUS
  <2> HIDE DEF nx, pv, d, o
  <2>6. d \in Caches  BY <1>1, <1>3, <2>1, <2>2, <2>3 DEF Caches
  <2>7. SameData(c, d) /\ d.ok = o /\ d.next = nx /\ d.prev = pv
        /\ d.free_list = c.next[r]
        /\ d.lru_head = c.lru_head /\ d.lru_tail = c.lru_tail
    BY <1>1, <2>2 DEF Caches, SameData
  <2> QED  BY <2>4, <2>5, <2>6, <2>7 DEF nx
<1>5. d.next[r] = Nil /\ \A x \in Elements : x # r => d.next[x] = c.next[x]
  BY <1>1, <1>2, <1>4, CacheFields
<1>6. \A x \in Elements : d.prev[x] = c.prev[x]  BY <1>3, <1>4
<1>7. \A i \in 1 .. n : u[i] \in Elements /\ u[i] # r  BY <1>1, <1>2, <1>r DEF Distinct
<1> HIDE DEF d, w
<1>8. Chain(d.next, d.lru_head, u, n)
  <2>1. \A i \in 1 .. n : d.next[u[i]] = c.next[u[i]]  BY <1>5, <1>7
  <2>2. d.lru_head = c.lru_head  BY <1>4
  <2> QED  BY <1>1, <2>1, <2>2, ChainKept
<1>9. Backward(d.prev, d.lru_tail, u, n)  BY <1>1, <1>4, <1>6, <1>7 DEF Backward
<1>10. /\ Chain(d.next, d.free_list, w, m - 1) /\ Off(r, w, m - 1)
       /\ \A j \in 1 .. m - 1 : \E i \in 2 .. m : w[j] = f[i]
  <2>1. \A j \in 2 .. m : d.next[f[j]] = c.next[f[j]]  BY <1>2, <1>5
  <2>2. /\ Chain(d.next, c.next[f[1]], w, m - 1) /\ Off(f[1], w, m - 1)
        /\ \A j \in 1 .. m - 1 : \E i \in 2 .. m : w[j] = f[i]
    BY <1>1, <2>1, ChainPop DEF w
  <2> QED  BY <1>4, <1>r, <2>2
<1>11. \A j \in 1 .. m - 1 : d.prev[w[j]] = Nil /\ \A i \in 1 .. n : u[i] # w[j]
  <2> TAKE j \in 1 .. m - 1
  <2>1. PICK i \in 2 .. m : w[j] = f[i]  BY <1>10
  <2>2. i \in 1 .. m /\ f[i] \in Elements  BY <1>2, <2>1
  <2> QED  BY <1>1, <1>6, <2>1, <2>2
<1>12. Lists(d, u, n, w, m - 1)  BY <1>4, <1>8, <1>9, <1>10, <1>11 DEF Lists
<1>13. d.prev[r] = Nil  BY <1>2, <1>6
<1>14. Detached(d, r, u, n, w, m - 1)
  BY <1>2, <1>5, <1>7, <1>10, <1>13 DEF Detached, Off
<1> QED  BY <1>2, <1>4, <1>12, <1>14, <1>r DEF d, w

\* The second half of PushLRUHead: a detached element becomes the head.
Headed(d, e) ==
  [d EXCEPT
    !.next[e] = d.lru_head,
    !.lru_head = e,
    !.prev = [x \in Elements |-> IF x = d.lru_head THEN e ELSE @[x]],
    !.lru_tail = IF @ = Nil THEN e ELSE @]

LEMMA HeadedKeeps ==
  ASSUME NEW c, NEW u, NEW n, NEW f, NEW m, Lists(c, u, n, f, m), NEW e,
         Detached(c, e, u, n, f, m)
  PROVE LET d == Headed(c, e) IN
        Lists(d, Pushed(e, u, n), n + 1, f, m) /\ SameData(c, d) /\ d.ok = c.ok
<1> DEFINE d == Headed(c, e)
           w == Pushed(e, u, n)
<1>1. /\ c \in Caches /\ Distinct(u, n) /\ Distinct(f, m)
      /\ Chain(c.next, c.lru_head, u, n) /\ Backward(c.prev, c.lru_tail, u, n)
      /\ Chain(c.next, c.free_list, f, m) /\ \A j \in 1 .. m : c.prev[f[j]] = Nil
      /\ \A i \in 1 .. n, j \in 1 .. m : u[i] # f[j]
  BY DEF Lists, Chain
<1>2. e \in Elements /\ Off(e, u, n) /\ Off(e, f, m) /\ c.prev[e] = Nil
  BY DEF Detached
<1>3. \A i \in 1 .. n : u[i] \in Elements /\ u[i] # e /\ u[i] # Nil
  BY <1>1, <1>2, NilIsNoElement DEF Distinct, Off
<1>4. \A j \in 1 .. m : f[j] \in Elements /\ f[j] # e
  BY <1>1, <1>2 DEF Distinct, Off
<1>5. n \in Nat /\ (n > 0 => 1 \in 1 .. n /\ n \in 1 .. n)
      /\ (\A i, j \in 1 .. n : u[i] = u[j] => i = j)
      /\ c.lru_head = IF n = 0 THEN Nil ELSE u[1]
  BY <1>1 DEF Chain, Distinct
<1>6. c.lru_tail = IF n = 0 THEN Nil ELSE u[n]  BY <1>1 DEF Backward
<1>7. /\ d \in Caches /\ SameData(c, d) /\ d.ok = c.ok
      /\ d.next = [c.next EXCEPT ![e] = c.lru_head]
      /\ \A x \in Elements : d.prev[x] = IF x = c.lru_head THEN e ELSE c.prev[x]
      /\ d.free_list = c.free_list /\ d.lru_head = e
      /\ d.lru_tail = IF c.lru_tail = Nil THEN e ELSE c.lru_tail
  <2> DEFINE nx == [c.next EXCEPT ![e] = c.lru_head]
             pv == [x \in Elements |-> IF x = c.lru_head THEN e ELSE c.prev[x]]
             tl == IF c.lru_tail = Nil THEN e ELSE c.lru_tail
  <2>1. /\ nx \in [Elements -> Pointers] /\ pv \in [Elements -> Pointers]
        /\ tl \in Pointers /\ e \in Pointers
    BY <1>1, <1>2, CacheFields DEF Pointers
  <2>2. d = [c EXCEPT !.next = nx, !.lru_head = e, !.prev = pv, !.lru_tail = tl]
    BY <1>1 DEF Headed, Caches
  <2>3. \A x \in Elements : pv[x] = IF x = c.lru_head THEN e ELSE c.prev[x]  OBVIOUS
  <2> HIDE DEF nx, pv, d, tl
  <2>4. d \in Caches  BY <1>1, <2>1, <2>2 DEF Caches
  <2>5. SameData(c, d) /\ d.ok = c.ok /\ d.next = nx /\ d.prev = pv
        /\ d.free_list = c.free_list /\ d.lru_head = e /\ d.lru_tail = tl
    BY <1>1, <2>2 DEF Caches, SameData
  <2> QED  BY <2>3, <2>4, <2>5 DEF nx, tl
<1>8. d.next[e] = c.lru_head /\ \A x \in Elements : x # e => d.next[x] = c.next[x]
  BY <1>1, <1>2, <1>7, CacheFields
<1> HIDE DEF d
<1>9. /\ w[1] = e /\ \A i \in 1 .. n : w[i + 1] = u[i]
  BY <1>1, <1>2, PushedFacts
<1> HIDE DEF w
<1>10. Chain(d.next, d.lru_head, w, n + 1)
  <2>1. \A i \in 1 .. n : d.next[u[i]] = c.next[u[i]]  BY <1>3, <1>8
  <2>2. Chain(d.next, e, w, n + 1)  BY <1>1, <1>2, <1>8, <2>1, ChainPush DEF w
  <2> QED  BY <1>7, <2>2
<1>11. Backward(d.prev, d.lru_tail, w, n + 1)
  <2>1. d.lru_tail = w[n + 1]
    <3>1. CASE n = 0  BY <1>6, <1>7, <1>9, <3>1
    <3>2. CASE n > 0
      <4>1. w[n + 1] = u[n] /\ u[n] # Nil  BY <1>3, <1>5, <1>9, <3>2
      <4> QED  BY <1>6, <1>7, <3>2, <4>1
    <3> QED  BY <1>5, <3>1, <3>2
  <2>2. ASSUME NEW j \in 1 .. n + 1
        PROVE d.prev[w[j]] = IF j = 1 THEN Nil ELSE w[j - 1]
    <3>1. CASE j = 1
      <4>1. e # c.lru_head  BY <1>2, <1>3, <1>5, NilIsNoElement
      <4> QED  BY <1>2, <1>7, <1>9, <3>1, <4>1
    <3>2. CASE j > 1
      <4>1. PICK i \in 1 .. n : j = i + 1
        <5>1. j - 1 \in 1 .. n /\ j = (j - 1) + 1  BY <1>5, <3>2
        <5> QED  BY <5>1
      <4>2. w[j] = u[i] /\ u[i] \in Elements /\ j - 1 = i  BY <1>3, <1>9, <4>1
      <4>3. CASE i = 1
        <5>1. d.prev[u[i]] = e  BY <1>5, <1>7, <4>2, <4>3
        <5> QED  BY <1>9, <3>2, <4>2, <4>3, <5>1
      <4>4. CASE i > 1
        <5>1. i - 1 \in 1 .. n /\ (i - 1) + 1 = i /\ i # 1 /\ n > 0 /\ n # 0
          BY <1>5, <4>4
        <5>2. u[i] # c.lru_head  BY <1>5, <5>1
        <5>3. d.prev[u[i]] = c.prev[u[i]]  BY <1>7, <4>2, <5>2
        <5>4. c.prev[u[i]] = u[i - 1]  BY <1>1, <5>1 DEF Backward
        <5>5. w[i] = u[i - 1]  BY <1>9, <5>1
        <5> QED  BY <3>2, <4>2, <5>3, <5>4, <5>5
      <4> QED  BY <4>1, <4>3, <4>4
    <3> QED  BY <1>5, <3>1, <3>2
  <2>3. n + 1 # 0  BY <1>5
  <2> QED  BY <2>1, <2>2, <2>3 DEF Backward
<1>12. Chain(d.next, d.free_list, f, m)
  <2>1. \A j \in 1 .. m : d.next[f[j]] = c.next[f[j]]  BY <1>4, <1>8
  <2>2. d.free_list = c.free_list  BY <1>7
  <2> QED  BY <1>1, <2>1, <2>2, ChainKept
<1>13. \A j \in 1 .. m : d.prev[f[j]] = Nil
  <2> TAKE j \in 1 .. m
  <2>1. f[j] # c.lru_head  BY <1>1, <1>4, <1>5, NilIsNoElement
  <2> QED  BY <1>1, <1>4, <1>7, <2>1
<1>14. \A i \in 1 .. n + 1, j \in 1 .. m : w[i] # f[j]
  <2> TAKE i \in 1 .. n + 1, j \in 1 .. m
  <2>1. CASE i = 1  BY <1>4, <1>9, <2>1
  <2>2. CASE i > 1
    <3>1. i - 1 \in 1 .. n /\ i = (i - 1) + 1  BY <1>5, <2>2
    <3>2. w[i] = u[i - 1]  BY <1>9, <3>1
    <3> QED  BY <1>1, <3>1, <3>2
  <2> QED  BY <1>5, <2>1, <2>2
<1>15. Lists(d, w, n + 1, f, m)
  BY <1>7, <1>10, <1>11, <1>12, <1>13, <1>14 DEF Lists
<1> QED  BY <1>7, <1>15 DEF d, w

\* RemoveFromLRU of a detached element changes nothing.
LEMMA RemoveDetached ==
  ASSUME NEW c, NEW u, NEW n, NEW f, NEW m, Lists(c, u, n, f, m), NEW e,
         Detached(c, e, u, n, f, m)
  PROVE LET d == RemoveFromLRU(c, e) IN
        /\ Lists(d, u, n, f, m) /\ Detached(d, e, u, n, f, m)
        /\ SameData(c, d) /\ d.ok = c.ok /\ c.lru_head # e
<1> DEFINE d == RemoveFromLRU(c, e)
<1>1. /\ c \in Caches /\ Distinct(u, n) /\ Distinct(f, m)
      /\ Chain(c.next, c.lru_head, u, n) /\ Backward(c.prev, c.lru_tail, u, n)
      /\ Chain(c.next, c.free_list, f, m) /\ \A j \in 1 .. m : c.prev[f[j]] = Nil
      /\ \A i \in 1 .. n, j \in 1 .. m : u[i] # f[j]
  BY DEF Lists, Chain
<1>2. e \in Elements /\ Off(e, u, n) /\ Off(e, f, m) /\ c.prev[e] = Nil /\ c.next[e] = Nil
  BY DEF Detached
<1>3. e # Nil /\ c.lru_head # e /\ c.lru_tail # e
  <2>1. n \in Nat /\ e # Nil /\ c.lru_head = IF n = 0 THEN Nil ELSE u[1]
    BY <1>1, <1>2, NilIsNoElement DEF Chain, Distinct
  <2>2. c.lru_tail = IF n = 0 THEN Nil ELSE u[n]  BY <1>1 DEF Backward
  <2>3. n # 0 => 1 \in 1 .. n /\ n \in 1 .. n  BY <2>1
  <2> QED  BY <1>2, <2>1, <2>2, <2>3 DEF Off
<1>4. /\ d \in Caches /\ SameData(c, d) /\ d.ok = c.ok /\ d.free_list = c.free_list
      /\ d.lru_head = c.lru_head /\ d.lru_tail = c.lru_tail
      /\ \A x \in Elements : d.next[x] = c.next[x] /\ d.prev[x] = c.prev[x]
  BY <1>1, <1>2, <1>3, RemoveFields, NilIsNoElement
<1> HIDE DEF d
<1>5. \A i \in 1 .. n : u[i] \in Elements  BY <1>1 DEF Distinct
<1>6. \A j \in 1 .. m : f[j] \in Elements  BY <1>1 DEF Distinct
<1>7. Chain(d.next, d.lru_head, u, n)
  <2>1. \A i \in 1 .. n : d.next[u[i]] = c.next[u[i]]  BY <1>4, <1>5
  <2>2. d.lru_head = c.lru_head  BY <1>4
  <2> QED  BY <1>1, <2>1, <2>2, ChainKept
<1>8. Backward(d.prev, d.lru_tail, u, n)  BY <1>1, <1>4, <1>5 DEF Backward
<1>9. Chain(d.next, d.free_list, f, m)
  <2>1. \A j \in 1 .. m : d.next[f[j]] = c.next[f[j]]  BY <1>4, <1>6
  <2>2. d.free_list = c.free_list  BY <1>4
  <2> QED  BY <1>1, <2>1, <2>2, ChainKept
<1>10. Lists(d, u, n, f, m)  BY <1>1, <1>4, <1>6, <1>7, <1>8, <1>9 DEF Lists
<1>11. Detached(d, e, u, n, f, m)  BY <1>2, <1>4 DEF Detached
<1> QED  BY <1>3, <1>4, <1>10, <1>11 DEF d

\* SameData is transitive.
LEMMA SameDataTrans ==
  ASSUME NEW b, NEW c, NEW d, SameData(b, c), SameData(c, d) PROVE SameData(b, d)
BY DEF SameData

\* What PushLRUHead is.
LEMMA PushIs ==
  ASSUME NEW c, NEW e
  PROVE PushLRUHead(c, e) =
          IF c.lru_head = e THEN c ELSE Headed(RemoveFromLRU(c, e), e)
BY DEF PushLRUHead, Headed

\* PushLRUHead puts a detached element in front of the list of use.
LEMMA AttachKeeps ==
  ASSUME NEW c, NEW u, NEW n, NEW f, NEW m, Lists(c, u, n, f, m), NEW e,
         Detached(c, e, u, n, f, m)
  PROVE LET d == PushLRUHead(c, e) IN
        Lists(d, Pushed(e, u, n), n + 1, f, m) /\ SameData(c, d) /\ d.ok = c.ok
<1> DEFINE b == RemoveFromLRU(c, e)
<1>1. /\ Lists(b, u, n, f, m) /\ Detached(b, e, u, n, f, m)
      /\ SameData(c, b) /\ b.ok = c.ok /\ c.lru_head # e
  BY RemoveDetached
<1>2. PushLRUHead(c, e) = Headed(b, e)  BY <1>1, PushIs
<1> HIDE DEF b
<1>3. /\ Lists(Headed(b, e), Pushed(e, u, n), n + 1, f, m)
      /\ SameData(b, Headed(b, e)) /\ Headed(b, e).ok = b.ok
  BY <1>1, HeadedKeeps
<1>4. SameData(c, Headed(b, e))  BY <1>1, <1>3, SameDataTrans
<1> QED  BY <1>1, <1>2, <1>3, <1>4

\* The first element moved to the front is where it was.
LEMMA FirstMoved ==
  ASSUME NEW u, NEW n, Distinct(u, n), n > 0
  PROVE Pushed(u[1], Without(u, n, 1), n - 1) = u
<1> DEFINE w == Without(u, n, 1)
           v == Pushed(u[1], w, n - 1)
<1>1. n \in Nat /\ u \in [1 .. n -> Elements]  BY DEF Distinct
<1>2. \A j \in 1 .. n - 1 : w[j] = u[j + 1]
  <2>1. \A j \in 1 .. n - 1 : w[j] = IF j < 1 THEN u[j] ELSE u[j + 1]  BY DEF Without
  <2> HIDE DEF w
  <2> QED  BY <1>1, <2>1
<1> HIDE DEF w
<1>3. v = [j \in 1 .. n |-> IF j = 1 THEN u[1] ELSE w[j - 1]]
  <2>1. (n - 1) + 1 = n  BY <1>1
  <2> QED  BY <2>1 DEF Pushed
<1>4. \A j \in 1 .. n : (IF j = 1 THEN u[1] ELSE w[j - 1]) = u[j]
  <2> TAKE j \in 1 .. n
  <2>1. CASE j = 1  BY <2>1
  <2>2. CASE j > 1
    <3>1. j - 1 \in 1 .. n - 1 /\ (j - 1) + 1 = j  BY <1>1, <2>2
    <3>2. w[j - 1] = u[j]  BY <1>2, <3>1
    <3> QED  BY <2>2, <3>2
  <2> QED  BY <1>1, <2>1, <2>2
<1>5. v = [j \in 1 .. n |-> u[j]]  BY <1>3, <1>4
<1>6. v = u  BY <1>1, <1>5
<1> QED  BY <1>6 DEF w

\* PushLRUHead moves the k-th element of the list of use to its front.
LEMMA MoveKeeps ==
  ASSUME NEW c, NEW u, NEW n, NEW f, NEW m, Lists(c, u, n, f, m), NEW k \in 1 .. n
  PROVE LET d == PushLRUHead(c, u[k]) IN
        /\ Lists(d, Pushed(u[k], Without(u, n, k), n - 1), n, f, m)
        /\ SameData(c, d) /\ d.ok = c.ok
<1>1. /\ n \in Nat /\ Distinct(u, n) /\ c.lru_head = IF n = 0 THEN Nil ELSE u[1]
      /\ \A i, j \in 1 .. n : u[i] = u[j] => i = j
  BY DEF Lists, Chain, Distinct
<1>2. n > 0 /\ 1 \in 1 .. n /\ c.lru_head = u[1] /\ (n - 1) + 1 = n  BY <1>1
<1>3. CASE k = 1
  <2>1. PushLRUHead(c, u[k]) = c  BY <1>2, <1>3, PushIs
  <2>2. Pushed(u[k], Without(u, n, k), n - 1) = u  BY <1>1, <1>2, <1>3, FirstMoved
  <2> QED  BY <2>1, <2>2 DEF SameData
<1>4. CASE k # 1
  <2> DEFINE b == RemoveFromLRU(c, u[k])
             w == Without(u, n, k)
  <2>1. /\ Lists(b, w, n - 1, f, m) /\ Detached(b, u[k], w, n - 1, f, m)
        /\ SameData(c, b) /\ b.ok = c.ok
    BY RemoveKeeps
  <2>2. PushLRUHead(c, u[k]) = Headed(b, u[k])  BY <1>1, <1>2, <1>4, PushIs
  <2> HIDE DEF b, w
  <2>3. /\ Lists(Headed(b, u[k]), Pushed(u[k], w, n - 1), (n - 1) + 1, f, m)
        /\ SameData(b, Headed(b, u[k])) /\ Headed(b, u[k]).ok = b.ok
    BY <2>1, HeadedKeeps
  <2>4. SameData(c, Headed(b, u[k]))  BY <2>1, <2>3, SameDataTrans
  <2> QED  BY <1>2, <2>1, <2>2, <2>3, <2>4 DEF w
<1> QED  BY <1>3, <1>4

-----------------------------------------------------------------------------
(* The blocks.                                                             *)

\* Every allocated element is on one of the lists.
Cover(cap, u, n, f, m) ==
  /\ n + m = cap
  /\ \A i \in 1 .. n : u[i] <= cap
  /\ \A j \in 1 .. m : f[j] <= cap
  /\ \A x \in 1 .. cap : (\E i \in 1 .. n : u[i] = x) \/ (\E j \in 1 .. m : f[j] = x)

\* The blocks still to come reach the capacity.
Blocks(c) ==
  Reaches(max_elements - c.block_capacity, MaxBlocks - c.block_count, c.next_block_size)

\* The elements of a new block, the last one first.
Fresh(cap, size) == [j \in 1 .. size |-> (cap + size + 1) - j]

\* The entries.
SameEntries(c, d) == d.table = c.table /\ d.key = c.key /\ d.value = c.value

\* AddBlock gives an exhausted cache that may grow a new free list.
LEMMA AddBlockKeeps ==
  ASSUME max_elements \in Capacities, NEW c, NEW u, NEW n, NEW f,
         Lists(c, u, n, f, 0), Cover(c.block_capacity, u, n, f, 0), Blocks(c),
         c.block_capacity < max_elements
  PROVE LET d == AddBlock(c)
            g == Fresh(c.block_capacity, c.next_block_size) IN
        \E s \in Nat \ {0} :
          /\ Lists(d, u, n, g, s) /\ Cover(d.block_capacity, u, n, g, s)
          /\ Blocks(d) /\ SameEntries(c, d) /\ d.ok = c.ok
<1> DEFINE d == AddBlock(c)
<1>1. /\ c \in Caches /\ Distinct(u, n)
      /\ Chain(c.next, c.lru_head, u, n) /\ Backward(c.prev, c.lru_tail, u, n)
      /\ c.free_list = Nil
  BY DEF Lists, Chain
<1>2. PICK cap, size, count : cap = c.block_capacity /\ size = c.next_block_size
                              /\ count = c.block_count
  OBVIOUS
<1> DEFINE last == cap + size
           g == Fresh(cap, size)
           rem == MaxBlocks - (count + 1)
           new == IF rem > 0 THEN NextBlockSize(size, last, rem) ELSE size
<1>3. /\ max_elements \in Nat \ {0} /\ cap \in 0 .. max_elements /\ cap < max_elements
      /\ MaxBlocks \in Nat /\ count \in 0 .. MaxBlocks /\ size \in Nat
      /\ Reaches(max_elements - cap, MaxBlocks - count, size)
  BY <1>1, <1>2, CacheFields, CapacityAssumption DEF Blocks
<1>4. count < MaxBlocks
  <2> SUFFICES ASSUME count = MaxBlocks PROVE FALSE  BY <1>3
  <2>1. MaxBlocks - count = 0  BY <1>3
  <2>2. max_elements - cap <= size * (Shift[0] - 1)  BY <1>3, <2>1 DEF Reaches
  <2>3. Shift[0] - 1 = 0  BY ShiftUnfolds
  <2>4. size * 0 = 0  BY <1>3
  <2> QED  BY <1>3, <2>2, <2>3, <2>4
<1>5. rem \in Nat /\ MaxBlocks - count = rem + 1 /\ count + 1 \in 0 .. MaxBlocks
  BY <1>3, <1>4
<1>6. /\ size >= 1 /\ last \in 0 .. max_elements
      /\ new \in Nat /\ Reaches(max_elements - last, rem, new)
  <2> HIDE DEF rem
  <2>1. Reaches(max_elements - cap, rem + 1, size)  BY <1>3, <1>5
  <2> QED  BY <1>3, <1>5, <2>1, BlockStep
<1> HIDE DEF new
<1>7. /\ d \in Caches /\ SameEntries(c, d) /\ d.ok = c.ok
      /\ d.block_count = count + 1 /\ d.block_capacity = last
      /\ d.next_block_size = new
      /\ d.free_list = last /\ d.lru_head = c.lru_head /\ d.lru_tail = c.lru_tail
      /\ \A x \in Elements :
           /\ d.next[x] = IF x \in cap + 1 .. last
                          THEN IF x = cap + 1 THEN Nil ELSE x - 1 ELSE c.next[x]
           /\ d.prev[x] = IF x \in cap + 1 .. last THEN Nil ELSE c.prev[x]
  <2> DEFINE nx == [x \in Elements |-> IF x \in cap + 1 .. last
                                       THEN IF x = cap + 1 THEN Nil ELSE x - 1
                                       ELSE c.next[x]]
             pv == [x \in Elements |-> IF x \in cap + 1 .. last THEN Nil ELSE c.prev[x]]
  <2>1. nx \in [Elements -> Pointers] /\ pv \in [Elements -> Pointers]
    <3>1. \A x \in Elements : x \in cap + 1 .. last /\ x # cap + 1 => x - 1 \in Pointers
      BY <1>3, <1>6 DEF Elements, Pointers, Nil
    <3>2. \A x \in Elements : c.next[x] \in Pointers /\ c.prev[x] \in Pointers
      BY <1>1, CacheFields
    <3> QED  BY <3>1, <3>2, NilIsNoElement
  <2>2. cap + 1 <= last /\ last \in Pointers
    BY <1>3, <1>6 DEF Elements, Pointers, Nil
  <2>3. d = [c EXCEPT !.block_count = count + 1, !.block_capacity = last,
                      !.prev = pv, !.next = nx, !.free_list = last,
                      !.next_block_size = new]
    <3>1. c.block_count < MaxBlocks /\ c.block_capacity < max_elements
      BY <1>2, <1>3, <1>4
    <3>2. DOMAIN c.next = Elements /\ DOMAIN c.prev = Elements  BY <1>1, CacheFields
    <3> HIDE DEF rem
    <3> QED  BY <1>1, <1>2, <2>2, <3>1 DEF AddBlock, Caches, new, rem
  <2>4. \A x \in Elements :
           /\ nx[x] = IF x \in cap + 1 .. last
                      THEN IF x = cap + 1 THEN Nil ELSE x - 1 ELSE c.next[x]
           /\ pv[x] = IF x \in cap + 1 .. last THEN Nil ELSE c.prev[x]
    OBVIOUS
  <2> HIDE DEF nx, pv, d, last
  <2>5. d \in Caches  BY <1>1, <1>5, <1>6, <2>1, <2>2, <2>3 DEF Caches
  <2>6. /\ SameEntries(c, d) /\ d.ok = c.ok
        /\ d.block_count = count + 1 /\ d.block_capacity = last
        /\ d.next_block_size = new /\ d.next = nx /\ d.prev = pv
        /\ d.free_list = last /\ d.lru_head = c.lru_head /\ d.lru_tail = c.lru_tail
    BY <1>1, <2>3 DEF Caches, SameEntries
  <2> QED  BY <2>4, <2>5, <2>6
<1> HIDE DEF d
<1>8. n \in Nat /\ n + 0 = cap /\ \A i \in 1 .. n : u[i] \in Elements /\ u[i] <= cap
  BY <1>1, <1>2 DEF Distinct, Cover
<1>9. \A i \in 1 .. n : ~(u[i] \in cap + 1 .. last)  BY <1>3, <1>8 DEF Elements
<1>10. Chain(d.next, d.lru_head, u, n)
  <2>1. \A i \in 1 .. n : d.next[u[i]] = c.next[u[i]]  BY <1>7, <1>8, <1>9
  <2>2. d.lru_head = c.lru_head  BY <1>7
  <2> QED  BY <1>1, <2>1, <2>2, ChainKept
<1>11. Backward(d.prev, d.lru_tail, u, n)
  <2>1. \A i \in 1 .. n : d.prev[u[i]] = c.prev[u[i]]  BY <1>7, <1>8, <1>9
  <2> QED  BY <1>1, <1>7, <2>1 DEF Backward
<1>12. \A j \in 1 .. size : /\ g[j] = (cap + size + 1) - j
                            /\ g[j] \in cap + 1 .. last /\ g[j] \in Elements
  BY <1>3, <1>6 DEF Fresh, Elements
<1>13. g \in [1 .. size -> Elements]
  <2>1. g = [j \in 1 .. size |-> g[j]]  BY DEF Fresh
  <2> HIDE DEF g
  <2> QED  BY <1>12, <2>1
<1> HIDE DEF g
<1>14. Chain(d.next, d.free_list, g, size)
  <2>1. Distinct(g, size)  BY <1>3, <1>12, <1>13 DEF Distinct
  <2>2. d.free_list = IF size = 0 THEN Nil ELSE g[1]
    <3>1. 1 \in 1 .. size /\ size # 0 /\ (cap + size + 1) - 1 = last  BY <1>3, <1>6
    <3> QED  BY <1>7, <1>12, <3>1
  <2>3. ASSUME NEW j \in 1 .. size
        PROVE d.next[g[j]] = IF j = size THEN Nil ELSE g[j + 1]
    <3>1. d.next[g[j]] = IF g[j] = cap + 1 THEN Nil ELSE g[j] - 1  BY <1>7, <1>12
    <3>2. g[j] = cap + 1 <=> j = size  BY <1>3, <1>12
    <3>3. j # size => g[j + 1] = g[j] - 1
      <4>1. j # size => j + 1 \in 1 .. size  BY <1>3
      <4>2. j # size => g[j + 1] = (cap + size + 1) - (j + 1)  BY <1>12, <4>1
      <4>3. g[j] = (cap + size + 1) - j  BY <1>12
      <4> QED  BY <1>3, <4>2, <4>3
    <3> QED  BY <3>1, <3>2, <3>3
  <2> QED  BY <2>1, <2>2, <2>3 DEF Chain
<1>15. \A j \in 1 .. size : d.prev[g[j]] = Nil  BY <1>7, <1>12
<1>16. \A i \in 1 .. n, j \in 1 .. size : u[i] # g[j]  BY <1>9, <1>12
<1>17. Lists(d, u, n, g, size)
  BY <1>7, <1>10, <1>11, <1>14, <1>15, <1>16 DEF Lists
<1>18. Cover(last, u, n, g, size)
  <2>1. n + size = last  BY <1>3, <1>8
  <2>2. \A i \in 1 .. n : u[i] <= last  BY <1>3, <1>8 DEF Elements
  <2>3. \A j \in 1 .. size : g[j] <= last  BY <1>3, <1>6, <1>12
  <2>4. ASSUME NEW x \in 1 .. last
        PROVE (\E i \in 1 .. n : u[i] = x) \/ (\E j \in 1 .. size : g[j] = x)
    <3>1. CASE x \in 1 .. cap
      <4>1. \E i \in 1 .. n : u[i] = x  BY <1>2, <3>1 DEF Cover
      <4> QED  BY <4>1
    <3>2. CASE x \in cap + 1 .. last
      <4>1. (cap + size + 1) - x \in 1 .. size
            /\ (cap + size + 1) - ((cap + size + 1) - x) = x
        BY <1>3, <3>2
      <4>2. g[(cap + size + 1) - x] = x  BY <1>12, <4>1
      <4> QED  BY <4>1, <4>2
    <3> QED  BY <1>3, <3>1, <3>2
  <2> HIDE DEF last
  <2> QED  BY <2>1, <2>2, <2>3, <2>4 DEF Cover
<1>19. Blocks(d)
  <2>1. MaxBlocks - d.block_count = rem  BY <1>7
  <2> HIDE DEF rem, last
  <2> QED  BY <1>6, <1>7, <2>1 DEF Blocks
<1>20. size \in Nat \ {0}  BY <1>3, <1>6
<1> HIDE DEF last
<1> QED  BY <1>2, <1>7, <1>17, <1>18, <1>19, <1>20 DEF d, g

-----------------------------------------------------------------------------
(* The table.                                                              *)

\* The table leads from each key to the element of the list that carries it.
Indexed(c, u, n) ==
  /\ \A i \in 1 .. n : c.key[u[i]] \in Key /\ c.table[c.key[u[i]]] = u[i]
  /\ \A k \in Key : c.table[k] # Nil =>
       c.key[c.table[k]] = k /\ \E i \in 1 .. n : u[i] = c.table[k]

\* What is always true of a cache, with the lists u and f.
Shape(c, u, n, f, m) ==
  /\ Lists(c, u, n, f, m) /\ Cover(c.block_capacity, u, n, f, m)
  /\ Indexed(c, u, n) /\ Blocks(c) /\ c.ok

SameLinks(c, d) ==
  /\ d.next = c.next /\ d.prev = c.prev /\ d.free_list = c.free_list
  /\ d.lru_head = c.lru_head /\ d.lru_tail = c.lru_tail

\* The lists are a matter of the pointers.
LEMMA ListsOfLinks ==
  ASSUME NEW c, NEW d \in Caches, NEW u, NEW n, NEW f, NEW m, Lists(c, u, n, f, m),
         SameLinks(c, d)
  PROVE Lists(d, u, n, f, m)
BY DEF Lists, SameLinks

\* An element goes from the list of use to the free list.
LEMMA CoverFreed ==
  ASSUME NEW cap, NEW u, NEW n, NEW f, NEW m, Distinct(u, n), Distinct(f, m),
         \A i \in 1 .. n, j \in 1 .. m : u[i] # f[j],
         Cover(cap, u, n, f, m), NEW k \in 1 .. n
  PROVE Cover(cap, Without(u, n, k), n - 1, Pushed(u[k], f, m), m + 1)
<1> DEFINE w == Without(u, n, k)
           g == Pushed(u[k], f, m)
<1>1. n \in Nat /\ m \in Nat /\ u[k] \in Elements  BY DEF Distinct
<1>2. /\ \A i \in 1 .. n : i # k => \E j \in 1 .. n - 1 : w[j] = u[i]
      /\ \A j \in 1 .. n - 1 : \E i \in 1 .. n : i # k /\ w[j] = u[i]
  <2>1. AllBut(w, u, n, k)  BY WithoutFacts
  <2> HIDE DEF w
  <2> QED  BY <2>1 DEF AllBut
<1>3. g[1] = u[k] /\ \A i \in 1 .. m : g[i + 1] = f[i]
  <2>1. Off(u[k], f, m)  BY DEF Off
  <2> QED  BY <1>1, <2>1, PushedFacts
<1> HIDE DEF w, g
<1>4. (n - 1) + (m + 1) = cap  BY <1>1 DEF Cover
<1>5. \A j \in 1 .. n - 1 : w[j] <= cap
  <2> TAKE j \in 1 .. n - 1
  <2>1. PICK i \in 1 .. n : w[j] = u[i]  BY <1>2
  <2> QED  BY <2>1 DEF Cover
<1>6. \A j \in 1 .. m + 1 : g[j] <= cap
  <2> TAKE j \in 1 .. m + 1
  <2>1. CASE j = 1  BY <1>3, <2>1 DEF Cover
  <2>2. CASE j > 1
    <3>1. j - 1 \in 1 .. m /\ (j - 1) + 1 = j  BY <1>1, <2>2
    <3>2. g[j] = f[j - 1]  BY <1>3, <3>1
    <3> QED  BY <3>1, <3>2 DEF Cover
  <2> QED  BY <1>1, <2>1, <2>2
<1>7. ASSUME NEW x \in 1 .. cap
      PROVE (\E i \in 1 .. n - 1 : w[i] = x) \/ (\E j \in 1 .. m + 1 : g[j] = x)
  <2>1. CASE \E i \in 1 .. n : i # k /\ u[i] = x  BY <1>2, <2>1
  <2>2. CASE u[k] = x
    <3>1. 1 \in 1 .. m + 1  BY <1>1
    <3> QED  BY <1>3, <2>2, <3>1
  <2>3. CASE \E j \in 1 .. m : f[j] = x
    <3>1. PICK j \in 1 .. m : f[j] = x  BY <2>3
    <3>2. j + 1 \in 1 .. m + 1 /\ g[j + 1] = x  BY <1>1, <1>3, <3>1
    <3> QED  BY <3>2
  <2>4. (\E i \in 1 .. n : u[i] = x) \/ (\E j \in 1 .. m : f[j] = x)  BY DEF Cover
  <2> QED  BY <2>1, <2>2, <2>3, <2>4
<1>8. Cover(cap, w, n - 1, g, m + 1)  BY <1>4, <1>5, <1>6, <1>7 DEF Cover
<1> QED  BY <1>8 DEF w, g

\* Evict frees the k-th element; its key is no longer in the table.
LEMMA EvictKeeps ==
  ASSUME NEW c, NEW u, NEW n, NEW f, NEW m, Shape(c, u, n, f, m), NEW k \in 1 .. n
  PROVE LET d == Evict(c, u[k]) IN
        /\ Shape(d, Without(u, n, k), n - 1, Pushed(u[k], f, m), m + 1)
        /\ d.table = [c.table EXCEPT ![c.key[u[k]]] = Nil]
        /\ d.key = c.key /\ d.value = c.value /\ d.block_capacity = c.block_capacity
<1>e. PICK e : e = u[k]  OBVIOUS
<1> DEFINE known == c.table[c.key[e]] # Nil
           a == [c EXCEPT !.table[c.key[e]] = Nil, !.ok = @ /\ known]
           b == RemoveFromLRU(a, e)
           d == PushFreeList(b, e)
           w == Without(u, n, k)
           g == Pushed(e, f, m)
           tb == [c.table EXCEPT ![c.key[e]] = Nil]
<1>1. Lists(c, u, n, f, m) /\ Cover(c.block_capacity, u, n, f, m) /\ Indexed(c, u, n)
      /\ Blocks(c) /\ c.ok
  BY DEF Shape
<1>2. /\ c \in Caches /\ Distinct(u, n) /\ Distinct(f, m)
      /\ \A i \in 1 .. n, j \in 1 .. m : u[i] # f[j]
  BY <1>1 DEF Lists, Chain
<1>3. e \in Elements /\ e # Nil /\ u \in [1 .. n -> Elements]
      /\ \A i, j \in 1 .. n : u[i] = u[j] => i = j
  BY <1>e, <1>2, NilIsNoElement DEF Distinct
<1>4. c.key[e] \in Key /\ c.table[c.key[e]] = e  BY <1>1, <1>e DEF Indexed
<1>5. /\ a \in Caches /\ SameLinks(c, a) /\ a.table = tb /\ a.key = c.key
      /\ a.value = c.value /\ a.block_count = c.block_count
      /\ a.block_capacity = c.block_capacity /\ a.next_block_size = c.next_block_size
      /\ a.ok
  <2>1. known  BY <1>3, <1>4
  <2> DEFINE o == c.ok /\ known
  <2>2. o \in BOOLEAN /\ o  BY <1>1, <2>1
  <2>3. tb \in [Key -> Pointers]  BY <1>2, CacheFields, NilIsNoElement
  <2>4. a = [c EXCEPT !.table = tb, !.ok = o]  BY <1>2 DEF Caches
  <2> HIDE DEF tb, o, a, known
  <2>5. a \in Caches  BY <1>2, <2>2, <2>3, <2>4 DEF Caches
  <2>6. /\ SameLinks(c, a) /\ a.table = tb /\ a.key = c.key
        /\ a.value = c.value /\ a.block_count = c.block_count
        /\ a.block_capacity = c.block_capacity
        /\ a.next_block_size = c.next_block_size /\ a.ok = o
    BY <1>2, <2>4 DEF SameLinks, Caches
  <2> QED  BY <2>2, <2>5, <2>6
<1> HIDE DEF a
<1>6. Lists(a, u, n, f, m)  BY <1>1, <1>5, ListsOfLinks
<1>7. /\ Lists(b, w, n - 1, f, m) /\ Detached(b, e, w, n - 1, f, m)
      /\ SameData(a, b) /\ b.ok = a.ok
  BY <1>6, <1>e, RemoveKeeps
<1> HIDE DEF b
<1>8. Lists(d, w, n - 1, g, m + 1) /\ SameData(b, d) /\ d.ok = b.ok
  <2> HIDE DEF w
  <2>1. e \in Elements /\ Off(e, w, n - 1) /\ Off(e, f, m)  BY <1>7 DEF Detached
  <2> QED  BY <1>7, <2>1, PushFreeKeeps
<1> HIDE DEF d
<1>9. /\ d.table = tb /\ d.key = c.key /\ d.value = c.value
      /\ d.block_count = c.block_count /\ d.block_capacity = c.block_capacity
      /\ d.next_block_size = c.next_block_size /\ d.ok
  BY <1>5, <1>7, <1>8 DEF SameData
<1>10. Cover(d.block_capacity, w, n - 1, g, m + 1)
  BY <1>1, <1>2, <1>9, <1>e, CoverFreed
<1>11. Blocks(d)  BY <1>1, <1>9 DEF Blocks
<1>12. /\ \A i \in 1 .. n : i # k => \E j \in 1 .. n - 1 : w[j] = u[i]
       /\ \A j \in 1 .. n - 1 : \E i \in 1 .. n : i # k /\ w[j] = u[i]
  <2>1. AllBut(w, u, n, k)  BY <1>2, WithoutFacts
  <2> HIDE DEF w
  <2> QED  BY <2>1 DEF AllBut
<1>13. /\ c.table \in [Key -> Pointers] /\ tb[c.key[e]] = Nil
       /\ \A x \in Key : x # c.key[e] => tb[x] = c.table[x]
  BY <1>2, <1>4, CacheFields
<1> HIDE DEF w, g, tb
<1>14. Indexed(d, w, n - 1)
  <2>1. ASSUME NEW j \in 1 .. n - 1
        PROVE d.key[w[j]] \in Key /\ d.table[d.key[w[j]]] = w[j]
    <3>1. PICK i \in 1 .. n : i # k /\ w[j] = u[i]  BY <1>12
    <3>2. c.key[u[i]] \in Key /\ c.table[c.key[u[i]]] = u[i]  BY <1>1 DEF Indexed
    <3>3. c.key[u[i]] # c.key[e]
      <4>1. u[i] # e  BY <1>3, <1>e, <3>1
      <4> QED  BY <1>4, <3>2, <4>1
    <3> QED  BY <1>9, <1>13, <3>1, <3>2, <3>3
  <2>2. ASSUME NEW x \in Key, d.table[x] # Nil
        PROVE d.key[d.table[x]] = x /\ \E j \in 1 .. n - 1 : w[j] = d.table[x]
    <3>1. x # c.key[e] /\ d.table[x] = c.table[x]  BY <1>9, <1>13, <2>2
    <3>2. c.key[c.table[x]] = x  BY <1>1, <2>2, <3>1 DEF Indexed
    <3>3. PICK i \in 1 .. n : u[i] = c.table[x]  BY <1>1, <2>2, <3>1 DEF Indexed
    <3>4. i # k  BY <1>e, <3>1, <3>2, <3>3
    <3> QED  BY <1>9, <1>12, <3>1, <3>2, <3>3, <3>4
  <2> QED  BY <2>1, <2>2 DEF Indexed
<1>15. Shape(d, w, n - 1, g, m + 1)  BY <1>8, <1>9, <1>10, <1>11, <1>14 DEF Shape
<1>16. Evict(c, e) = d  BY DEF Evict, a, b, d
<1> QED  BY <1>9, <1>15, <1>16, <1>e DEF w, g, tb

\* An element goes from the free list to the list of use.
LEMMA CoverTaken ==
  ASSUME NEW cap, NEW u, NEW n, NEW f, NEW m, Distinct(u, n), Distinct(f, m),
         \A i \in 1 .. n, j \in 1 .. m : u[i] # f[j],
         Cover(cap, u, n, f, m), m > 0
  PROVE Cover(cap, Pushed(f[1], u, n), n + 1, Popped(f, m), m - 1)
<1> DEFINE w == Pushed(f[1], u, n)
           g == Popped(f, m)
<1>1. n \in Nat /\ m \in Nat /\ 1 \in 1 .. m /\ f[1] \in Elements  BY DEF Distinct
<1>2. w[1] = f[1] /\ \A i \in 1 .. n : w[i + 1] = u[i]
  <2>1. Off(f[1], u, n)  BY <1>1 DEF Off
  <2> QED  BY <1>1, <2>1, PushedFacts
<1>3. \A j \in 1 .. m - 1 : g[j] = f[j + 1] /\ j + 1 \in 1 .. m
  BY <1>1 DEF Popped
<1> HIDE DEF w, g
<1>4. (n + 1) + (m - 1) = cap  BY <1>1 DEF Cover
<1>5. \A j \in 1 .. n + 1 : w[j] <= cap
  <2> TAKE j \in 1 .. n + 1
  <2>1. CASE j = 1  BY <1>1, <1>2, <2>1 DEF Cover
  <2>2. CASE j > 1
    <3>1. j - 1 \in 1 .. n /\ (j - 1) + 1 = j  BY <1>1, <2>2
    <3>2. w[j] = u[j - 1]  BY <1>2, <3>1
    <3> QED  BY <3>1, <3>2 DEF Cover
  <2> QED  BY <1>1, <2>1, <2>2
<1>6. \A j \in 1 .. m - 1 : g[j] <= cap  BY <1>3 DEF Cover
<1>7. ASSUME NEW x \in 1 .. cap
      PROVE (\E i \in 1 .. n + 1 : w[i] = x) \/ (\E j \in 1 .. m - 1 : g[j] = x)
  <2>1. CASE \E i \in 1 .. n : u[i] = x
    <3>1. PICK i \in 1 .. n : u[i] = x  BY <2>1
    <3>2. i + 1 \in 1 .. n + 1 /\ w[i + 1] = x  BY <1>1, <1>2, <3>1
    <3> QED  BY <3>2
  <2>2. CASE f[1] = x
    <3>1. 1 \in 1 .. n + 1  BY <1>1
    <3> QED  BY <1>2, <2>2, <3>1
  <2>3. CASE \E j \in 2 .. m : f[j] = x
    <3>1. PICK j \in 2 .. m : f[j] = x  BY <2>3
    <3>2. j - 1 \in 1 .. m - 1 /\ (j - 1) + 1 = j  BY <1>1
    <3>3. g[j - 1] = x  BY <1>3, <3>1, <3>2
    <3> QED  BY <3>2, <3>3
  <2>4. (\E i \in 1 .. n : u[i] = x) \/ (\E j \in 1 .. m : f[j] = x)  BY DEF Cover
  <2>5. \A j \in 1 .. m : j = 1 \/ j \in 2 .. m  BY <1>1
  <2> QED  BY <2>1, <2>2, <2>3, <2>4, <2>5
<1>8. Cover(cap, w, n + 1, g, m - 1)  BY <1>4, <1>5, <1>6, <1>7 DEF Cover
<1> QED  BY <1>8 DEF w, g

\* The end of Insert: a free element is taken for k.
Taken(c, k) ==
  LET e == c.free_list IN
    PushLRUHead([PopFreeList(c) EXCEPT !.key[e] = k, !.table[k] = e], e)

LEMMA TakenKeeps ==
  ASSUME NEW c, NEW u, NEW n, NEW f, NEW m, Shape(c, u, n, f, m), m > 0,
         NEW k \in Key, c.table[k] = Nil
  PROVE LET d == Taken(c, k) IN
        /\ Shape(d, Pushed(f[1], u, n), n + 1, Popped(f, m), m - 1)
        /\ d.table = [c.table EXCEPT ![k] = f[1]]
        /\ d.key = [c.key EXCEPT ![f[1]] = k] /\ d.value = c.value
<1>e. PICK e : e = f[1]  OBVIOUS
<1> DEFINE p == PopFreeList(c)
           tb == [c.table EXCEPT ![k] = e]
           ky == [c.key EXCEPT ![e] = k]
           a == [p EXCEPT !.key[e] = k, !.table[k] = e]
           d == PushLRUHead(a, e)
           w == Pushed(e, u, n)
           g == Popped(f, m)
<1>1. Lists(c, u, n, f, m) /\ Cover(c.block_capacity, u, n, f, m) /\ Indexed(c, u, n)
      /\ Blocks(c) /\ c.ok
  BY DEF Shape
<1>2. /\ c \in Caches /\ Distinct(u, n) /\ Distinct(f, m)
      /\ \A i \in 1 .. n, j \in 1 .. m : u[i] # f[j]
  BY <1>1 DEF Lists, Chain
<1>3. /\ c.free_list = e /\ e # Nil /\ Lists(p, u, n, g, m - 1)
      /\ Detached(p, e, u, n, g, m - 1) /\ SameData(c, p) /\ p.ok = c.ok
  <2>1. Lists(c, u, n, f, m)  BY <1>1
  <2>2. /\ c.free_list = f[1] /\ f[1] # Nil
        /\ Lists(p, u, n, g, m - 1) /\ Detached(p, f[1], u, n, g, m - 1)
        /\ SameData(c, p) /\ p.ok = c.ok
    BY <2>1, PopFreeKeeps
  <2> HIDE DEF p, g
  <2> QED  BY <2>2, <1>e
<1>4. /\ n \in Nat /\ e \in Elements /\ Off(e, u, n) /\ u \in [1 .. n -> Elements]
  BY <1>2, <1>3 DEF Detached, Distinct
<1>5. p \in Caches  BY <1>3 DEF Lists
<1> HIDE DEF p, g
<1>6. /\ a \in Caches /\ SameLinks(p, a) /\ a.table = tb /\ a.key = ky
      /\ a.value = c.value /\ a.block_count = c.block_count
      /\ a.block_capacity = c.block_capacity /\ a.next_block_size = c.next_block_size
      /\ a.ok
  <2>1. p.table = c.table /\ p.key = c.key  BY <1>3 DEF SameData
  <2>2. tb \in [Key -> Pointers] /\ ky \in [Elements -> Key \cup {NoKey}]
    BY <1>2, <1>4, CacheFields DEF Pointers
  <2>3. a = [p EXCEPT !.key = ky, !.table = tb]  BY <1>5, <2>1 DEF Caches
  <2> HIDE DEF tb, ky, a
  <2>4. a \in Caches  BY <1>5, <2>2, <2>3 DEF Caches
  <2>5. /\ SameLinks(p, a) /\ a.table = tb /\ a.key = ky
        /\ a.value = p.value /\ a.block_count = p.block_count
        /\ a.block_capacity = p.block_capacity
        /\ a.next_block_size = p.next_block_size /\ a.ok = p.ok
    BY <1>5, <2>3 DEF SameLinks, Caches
  <2> QED  BY <1>1, <1>3, <2>4, <2>5 DEF SameData
<1> HIDE DEF a
<1>7. Lists(a, u, n, g, m - 1)  BY <1>3, <1>6, ListsOfLinks
<1>8. Detached(a, e, u, n, g, m - 1)  BY <1>3, <1>6 DEF Detached, SameLinks
<1>9. Lists(d, w, n + 1, g, m - 1) /\ SameData(a, d) /\ d.ok = a.ok
  BY <1>7, <1>8, AttachKeeps
<1> HIDE DEF d
<1>10. /\ d.table = tb /\ d.key = ky /\ d.value = c.value
       /\ d.block_count = c.block_count /\ d.block_capacity = c.block_capacity
       /\ d.next_block_size = c.next_block_size /\ d.ok
  BY <1>6, <1>9 DEF SameData
<1>11. Cover(d.block_capacity, w, n + 1, g, m - 1)
  <2>1. Cover(c.block_capacity, Pushed(f[1], u, n), n + 1, Popped(f, m), m - 1)
    BY <1>1, <1>2, CoverTaken
  <2> QED  BY <1>10, <1>e, <2>1 DEF g
<1>12. Blocks(d)  BY <1>1, <1>10 DEF Blocks
<1>13. w[1] = e /\ \A i \in 1 .. n : w[i + 1] = u[i]  BY <1>2, <1>4, PushedFacts
<1>14. /\ tb[k] = e /\ \A x \in Key : x # k => tb[x] = c.table[x]
       /\ ky[e] = k /\ \A x \in Elements : x # e => ky[x] = c.key[x]
  BY <1>2, <1>4, CacheFields
<1> HIDE DEF w, tb, ky
<1>15. Indexed(d, w, n + 1)
  <2>1. ASSUME NEW i \in 1 .. n
        PROVE /\ d.key[u[i]] = c.key[u[i]] /\ c.key[u[i]] \in Key
              /\ d.table[c.key[u[i]]] = u[i]
    <3>1. u[i] \in Elements /\ u[i] # e /\ u[i] # Nil  BY <1>4, NilIsNoElement DEF Off
    <3>2. c.key[u[i]] \in Key /\ c.table[c.key[u[i]]] = u[i]  BY <1>1 DEF Indexed
    <3>3. c.key[u[i]] # k  BY <3>1, <3>2
    <3> QED  BY <1>10, <1>14, <3>1, <3>2, <3>3
  <2>2. ASSUME NEW j \in 1 .. n + 1
        PROVE d.key[w[j]] \in Key /\ d.table[d.key[w[j]]] = w[j]
    <3>1. CASE j = 1  BY <1>10, <1>13, <1>14, <3>1
    <3>2. CASE j > 1
      <4>1. j - 1 \in 1 .. n /\ (j - 1) + 1 = j  BY <1>4, <3>2
      <4>2. w[j] = u[j - 1]  BY <1>13, <4>1
      <4> QED  BY <2>1, <4>1, <4>2
    <3> QED  BY <1>4, <3>1, <3>2
  <2>3. ASSUME NEW x \in Key, d.table[x] # Nil
        PROVE d.key[d.table[x]] = x /\ \E j \in 1 .. n + 1 : w[j] = d.table[x]
    <3>1. CASE x = k
      <4>1. 1 \in 1 .. n + 1  BY <1>4
      <4> QED  BY <1>10, <1>13, <1>14, <3>1, <4>1
    <3>2. CASE x # k
      <4>1. d.table[x] = c.table[x]  BY <1>10, <1>14, <3>2
      <4>2. c.key[c.table[x]] = x  BY <1>1, <2>3, <4>1 DEF Indexed
      <4>3. PICK i \in 1 .. n : u[i] = c.table[x]  BY <1>1, <2>3, <4>1 DEF Indexed
      <4>4. d.key[d.table[x]] = x  BY <2>1, <4>1, <4>2, <4>3
      <4>5. i + 1 \in 1 .. n + 1 /\ w[i + 1] = d.table[x]  BY <1>4, <1>13, <4>1, <4>3
      <4> QED  BY <4>4, <4>5
    <3> QED  BY <3>1, <3>2
  <2> QED  BY <2>2, <2>3 DEF Indexed
<1>16. Shape(d, w, n + 1, g, m - 1)
  BY <1>9, <1>10, <1>11, <1>12, <1>15 DEF Shape
<1>17. Taken(c, k) = d  BY <1>3 DEF Taken, a, d, p
<1> QED  BY <1>10, <1>16, <1>17, <1>e DEF w, g, tb, ky

\* Refilled finds an element unless every element is in use.
LEMMA RefilledKeeps ==
  ASSUME max_elements \in Capacities, NEW c, NEW u, NEW n, NEW f, NEW m,
         Shape(c, u, n, f, m)
  PROVE \/ m > 0 /\ Refilled(c) = c /\ Refilled(c).free_list # Nil
        \/ \E g, s :
             /\ m = 0 /\ c.block_capacity < max_elements /\ s > 0
             /\ Shape(Refilled(c), u, n, g, s) /\ SameEntries(c, Refilled(c))
             /\ Refilled(c).free_list # Nil
        \/ m = 0 /\ n = max_elements /\ Refilled(c) = c /\ c.free_list = Nil
<1>1. Lists(c, u, n, f, m) /\ Cover(c.block_capacity, u, n, f, m) /\ Indexed(c, u, n)
      /\ Blocks(c) /\ c.ok
  BY DEF Shape
<1>2. /\ c \in Caches /\ n \in Nat /\ m \in Nat /\ f \in [1 .. m -> Elements]
      /\ c.free_list = IF m = 0 THEN Nil ELSE f[1]
  BY <1>1 DEF Lists, Chain, Distinct
<1>3. CASE m > 0
  <2>1. c.free_list # Nil
    <3>1. 1 \in 1 .. m /\ m # 0  BY <1>2, <1>3
    <3> QED  BY <1>2, <3>1, NilIsNoElement
  <2> QED  BY <1>3, <2>1 DEF Refilled
<1>4. CASE m = 0
  <2>1. Refilled(c) = AddBlock(c) /\ c.free_list = Nil  BY <1>2, <1>4 DEF Refilled
  <2>2. max_elements \in Nat /\ c.block_capacity \in 0 .. max_elements
        /\ n + m = c.block_capacity
    BY <1>1, <1>2, CacheFields, CapacityAssumption DEF Cover
  <2>3. CASE c.block_capacity < max_elements
    <3> DEFINE g == Fresh(c.block_capacity, c.next_block_size)
               d == AddBlock(c)
    <3>1. PICK s \in Nat \ {0} :
            /\ Lists(d, u, n, g, s) /\ Cover(d.block_capacity, u, n, g, s)
            /\ Blocks(d) /\ SameEntries(c, d) /\ d.ok = c.ok
      BY <1>1, <1>4, <2>3, AddBlockKeeps
    <3> HIDE DEF g, d
    <3>2. Indexed(d, u, n)  BY <1>1, <3>1 DEF Indexed, SameEntries
    <3>3. Shape(d, u, n, g, s)  BY <1>1, <3>1, <3>2 DEF Shape
    <3>4. d.free_list # Nil
      <4>1. g \in [1 .. s -> Elements] /\ d.free_list = IF s = 0 THEN Nil ELSE g[1]
        BY <3>1 DEF Lists, Chain, Distinct
      <4>2. 1 \in 1 .. s /\ s # 0  BY <3>1
      <4> QED  BY <4>1, <4>2, NilIsNoElement
    <3>5. s > 0  BY <3>1
    <3> QED  BY <1>4, <2>1, <2>3, <3>1, <3>3, <3>4, <3>5 DEF d
  <2>4. CASE c.block_capacity = max_elements
    <3>1. ~(c.block_capacity < max_elements)  BY <2>2, <2>4
    <3>2. Refilled(c) = c  BY <2>1, <3>1 DEF AddBlock
    <3>3. n = max_elements  BY <1>2, <1>4, <2>2, <2>4
    <3> QED  BY <1>4, <2>1, <3>2, <3>3
  <2> QED  BY <2>2, <2>3, <2>4
<1> QED  BY <1>2, <1>3, <1>4

-----------------------------------------------------------------------------
(* Insert.                                                                 *)

\* The three outcomes of Insert(k), from a cache c with the used elements u:
\* k was there and its element is used again; a free element is taken; or the
\* element at the end is taken from its key.
Renewed(c, d, k, u, n, i) ==
  /\ i \in 1 .. n /\ c.key[u[i]] = k /\ SameEntries(c, d)
  /\ \E g, s : Shape(d, Pushed(u[i], Without(u, n, i), n - 1), n, g, s)

Added(c, d, k, u, n, e) ==
  /\ c.table[k] = Nil /\ n < max_elements /\ e \in Elements /\ Off(e, u, n)
  /\ \E g, s : Shape(d, Pushed(e, u, n), n + 1, g, s)
  /\ d.table = [c.table EXCEPT ![k] = e] /\ d.key = [c.key EXCEPT ![e] = k]
  /\ d.value = c.value

Replaced(c, d, k, u, n) ==
  /\ c.table[k] = Nil /\ n = max_elements /\ n > 0
  /\ \E g, s : Shape(d, Pushed(u[n], Without(u, n, n), n - 1), n, g, s)
  /\ d.table = [[c.table EXCEPT ![c.key[u[n]]] = Nil] EXCEPT ![k] = u[n]]
  /\ d.key = [c.key EXCEPT ![u[n]] = k] /\ d.value = c.value

\* What Insert does once k is not in the cache.
Placed(c, k) ==
  LET c1 == Refilled(c)
      c2 == IF c1.free_list # Nil THEN c1 ELSE Refilled(Evict(c1, c1.lru_tail)) IN
    Taken(c2, k)

LEMMA InsertedIs ==
  ASSUME NEW k
  PROVE Inserted(k) = Placed(IF cache.table[k] = Nil THEN cache
                             ELSE Evict(cache, cache.table[k]), k)
BY DEF Inserted, Placed, Taken

\* A free element is taken as it is found.
LEMMA PlacedFree ==
  ASSUME max_elements \in Capacities, NEW c, NEW u, NEW n, NEW f, NEW m,
         Shape(c, u, n, f, m), m > 0, NEW k \in Key
  PROVE Placed(c, k) = Taken(c, k)
<1>1. m # 0  BY DEF Shape, Lists, Chain, Distinct
<1>2. Refilled(c) = c /\ c.free_list # Nil  BY <1>1, RefilledKeeps
<1> QED  BY <1>2 DEF Placed

\* A key that is there is put in front with its element.
LEMMA InsertPresent ==
  ASSUME max_elements \in Capacities, NEW u, NEW n, NEW f, NEW m,
         Shape(cache, u, n, f, m), NEW k \in Key, cache.table[k] # Nil
  PROVE \E i : Renewed(cache, Inserted(k), k, u, n, i)
<1>1. PICK i \in 1 .. n : u[i] = cache.table[k]  BY DEF Shape, Indexed
<1>2. cache.key[u[i]] = k  BY <1>1 DEF Shape, Indexed
<1>3. /\ cache \in Caches /\ Distinct(u, n) /\ Distinct(f, m)
      /\ \A j \in 1 .. m : u[i] # f[j]
  BY DEF Shape, Lists, Chain
<1>4. n \in Nat /\ m \in Nat /\ u[i] \in Elements /\ (n - 1) + 1 = n /\ m + 1 > 0
  BY <1>3 DEF Distinct
<1>5. cache.table \in [Key -> Pointers] /\ cache.key \in [Elements -> Key \cup {NoKey}]
  BY <1>3, CacheFields
<1> DEFINE c == Evict(cache, u[i])
           w == Without(u, n, i)
           g == Pushed(u[i], f, m)
           d == Taken(c, k)
<1>6. /\ Shape(c, w, n - 1, g, m + 1) /\ c.table = [cache.table EXCEPT ![k] = Nil]
      /\ c.key = cache.key /\ c.value = cache.value
  BY <1>2, EvictKeeps
<1>7. g[1] = u[i]
  <2>1. Off(u[i], f, m)  BY <1>3 DEF Off
  <2> QED  BY <1>3, <1>4, <2>1, PushedFacts
<1> HIDE DEF c, w, g
<1>8. c.table[k] = Nil  BY <1>5, <1>6
<1>9. /\ Shape(d, Pushed(g[1], w, n - 1), (n - 1) + 1, Popped(g, m + 1), (m + 1) - 1)
      /\ d.table = [c.table EXCEPT ![k] = g[1]]
      /\ d.key = [c.key EXCEPT ![g[1]] = k] /\ d.value = c.value
  BY <1>4, <1>6, <1>8, TakenKeeps
<1>10. Inserted(k) = d
  <2>1. Inserted(k) = Placed(c, k)  BY <1>1, InsertedIs DEF c
  <2> QED  BY <1>4, <1>6, <2>1, PlacedFree
<1> HIDE DEF d
<1>11. d.table = cache.table  BY <1>1, <1>5, <1>6, <1>7, <1>9
<1>12. d.key = cache.key  BY <1>2, <1>4, <1>5, <1>6, <1>7, <1>9
<1>13. SameEntries(cache, d)  BY <1>6, <1>9, <1>11, <1>12 DEF SameEntries
<1>14. Shape(d, Pushed(u[i], w, n - 1), n, Popped(g, m + 1), (m + 1) - 1)
  BY <1>4, <1>7, <1>9
<1>15. Renewed(cache, d, k, u, n, i)  BY <1>2, <1>13, <1>14 DEF Renewed, w
<1> QED  BY <1>10, <1>15

\* A free element is taken for a key that is not there.
LEMMA TakenAdds ==
  ASSUME max_elements \in Capacities, NEW c, NEW u, NEW n, NEW f, NEW m,
         Shape(c, u, n, f, m), m > 0, NEW k \in Key, c.table[k] = Nil
  PROVE Added(c, Taken(c, k), k, u, n, f[1])
<1> DEFINE d == Taken(c, k)
<1>1. /\ Shape(d, Pushed(f[1], u, n), n + 1, Popped(f, m), m - 1)
      /\ d.table = [c.table EXCEPT ![k] = f[1]]
      /\ d.key = [c.key EXCEPT ![f[1]] = k] /\ d.value = c.value
  BY TakenKeeps
<1>2. /\ c \in Caches /\ Distinct(u, n) /\ Distinct(f, m) /\ n + m = c.block_capacity
      /\ \A i \in 1 .. n, j \in 1 .. m : u[i] # f[j]
  BY DEF Shape, Lists, Chain, Cover
<1>3. n \in Nat /\ m \in Nat /\ f \in [1 .. m -> Elements]  BY <1>2 DEF Distinct
<1>4. 1 \in 1 .. m /\ f[1] \in Elements  BY <1>3
<1>5. c.block_capacity \in 0 .. max_elements /\ max_elements \in Nat
  BY <1>2, CacheFields, CapacityAssumption
<1>6. n < max_elements  BY <1>2, <1>3, <1>5
<1>7. Off(f[1], u, n)  BY <1>2, <1>4 DEF Off
<1> HIDE DEF d
<1>8. Added(c, d, k, u, n, f[1])  BY <1>1, <1>4, <1>6, <1>7 DEF Added
<1> QED  BY <1>8 DEF d

\* A key that is not there takes a free element, or the last one of a full
\* cache.
LEMMA InsertAbsent ==
  ASSUME max_elements \in Capacities, NEW u, NEW n, NEW f, NEW m,
         Shape(cache, u, n, f, m), NEW k \in Key, cache.table[k] = Nil
  PROVE \/ \E e : Added(cache, Inserted(k), k, u, n, e)
        \/ Replaced(cache, Inserted(k), k, u, n)
<1> DEFINE r == Refilled(cache)
<1>1. Inserted(k) = Placed(cache, k)  BY InsertedIs
<1>2. CASE m > 0 /\ r = cache /\ r.free_list # Nil
  <2>1. Placed(cache, k) = Taken(cache, k)  BY <1>2 DEF Placed
  <2>2. Added(cache, Taken(cache, k), k, u, n, f[1])  BY <1>2, TakenAdds
  <2> QED  BY <1>1, <2>1, <2>2
<1>3. CASE \E g, s : /\ m = 0 /\ cache.block_capacity < max_elements /\ s > 0
                     /\ Shape(r, u, n, g, s) /\ SameEntries(cache, r)
                     /\ r.free_list # Nil
  <2>1. PICK g, s : s > 0 /\ Shape(r, u, n, g, s) /\ SameEntries(cache, r)
                    /\ r.free_list # Nil
    BY <1>3
  <2>2. Placed(cache, k) = Taken(r, k)  BY <2>1 DEF Placed
  <2> HIDE DEF r
  <2>3. r.table[k] = Nil  BY <2>1 DEF SameEntries
  <2>4. Added(r, Taken(r, k), k, u, n, g[1])  BY <2>1, <2>3, TakenAdds
  <2>5. Added(cache, Taken(r, k), k, u, n, g[1])
    BY <2>1, <2>4 DEF Added, SameEntries
  <2> QED  BY <1>1, <2>2, <2>5
<1>4. CASE m = 0 /\ n = max_elements /\ r = cache /\ cache.free_list = Nil
  <2>1. /\ cache \in Caches /\ Distinct(u, n) /\ Distinct(f, m)
        /\ Backward(cache.prev, cache.lru_tail, u, n)
        /\ \A i \in 1 .. n, j \in 1 .. m : u[i] # f[j]
    BY DEF Shape, Lists, Chain
  <2>2. n \in Nat \ {0} /\ n \in 1 .. n /\ n > 0 /\ (n - 1) + 1 = n /\ m + 1 > 0
        /\ u[n] \in Elements
    BY <1>4, <2>1, CapacityAssumption DEF Distinct
  <2>3. cache.lru_tail = u[n]  BY <2>1, <2>2 DEF Backward
  <2> DEFINE c == Evict(cache, u[n])
             w == Without(u, n, n)
             g == Pushed(u[n], f, m)
             d == Taken(c, k)
  <2>4. /\ Shape(c, w, n - 1, g, m + 1)
        /\ c.table = [cache.table EXCEPT ![cache.key[u[n]]] = Nil]
        /\ c.key = cache.key /\ c.value = cache.value
    BY <2>2, EvictKeeps
  <2>5. g[1] = u[n]
    <3>1. Off(u[n], f, m)  BY <2>1, <2>2 DEF Off
    <3> QED  BY <2>1, <2>2, <3>1, PushedFacts
  <2>6. Placed(cache, k) = Taken(Refilled(c), k)  BY <1>4, <2>3 DEF Placed
  <2> HIDE DEF c, w, g
  <2>7. c.table[k] = Nil
    <3>1. cache.table \in [Key -> Pointers]  BY <2>1, CacheFields
    <3> QED  BY <2>4, <3>1
  <2>8. Refilled(c) = c
    <3>1. m + 1 # 0  BY <1>4
    <3> QED  BY <2>4, <3>1, RefilledKeeps
  <2>9. /\ Shape(d, Pushed(g[1], w, n - 1), (n - 1) + 1, Popped(g, m + 1), (m + 1) - 1)
        /\ d.table = [c.table EXCEPT ![k] = g[1]]
        /\ d.key = [c.key EXCEPT ![g[1]] = k] /\ d.value = c.value
    <3>1. PICK l, s : l = n - 1 /\ s = m + 1  OBVIOUS
    <3>2. Shape(c, w, l, g, s) /\ s > 0  BY <2>2, <2>4, <3>1
    <3>3. /\ Shape(d, Pushed(g[1], w, l), l + 1, Popped(g, s), s - 1)
          /\ d.table = [c.table EXCEPT ![k] = g[1]]
          /\ d.key = [c.key EXCEPT ![g[1]] = k] /\ d.value = c.value
      BY <3>2, <2>7, TakenKeeps
    <3> HIDE DEF d
    <3> QED  BY <3>1, <3>3
  <2> HIDE DEF d
  <2>10. Shape(d, Pushed(u[n], w, n - 1), n, Popped(g, m + 1), (m + 1) - 1)
    BY <2>2, <2>5, <2>9
  <2>11. Replaced(cache, d, k, u, n)
    BY <1>4, <2>2, <2>4, <2>5, <2>9, <2>10 DEF Replaced, w
  <2> QED  BY <1>1, <2>6, <2>8, <2>11 DEF d
<1> QED  BY <1>2, <1>3, <1>4, RefilledKeeps

-----------------------------------------------------------------------------
(* What List reads off the pointers.                                       *)

\* The equation that Walk is the solution of.
Walks(at, next, start) ==
  at = [n \in 0 .. max_elements |->
          IF n = 0 THEN start
          ELSE LET e == at[n - 1] IN IF e = Nil THEN Nil ELSE next[e]]

\* A walk visits the chain and ends.
LEMMA WalkIs ==
  ASSUME max_elements \in Capacities, NEW next, NEW start, NEW u, NEW n,
         Chain(next, start, u, n), n <= max_elements
  PROVE \A j \in 0 .. max_elements :
          Walk(next, start)[j] = IF j < n THEN u[j + 1] ELSE Nil
<1> DEFINE g == [j \in 0 .. max_elements |-> IF j < n THEN u[j + 1] ELSE Nil]
           at == Walk(next, start)
<1>1. max_elements \in Nat  BY CapacityAssumption
<1>2. /\ n \in Nat /\ u \in [1 .. n -> Elements]
      /\ start = IF n = 0 THEN Nil ELSE u[1]
      /\ \A i \in 1 .. n : next[u[i]] = IF i = n THEN Nil ELSE u[i + 1]
  BY DEF Chain, Distinct
<1>3. \A j \in 0 .. max_elements : g[j] = IF j < n THEN u[j + 1] ELSE Nil  OBVIOUS
<1>4. \A j \in 1 .. max_elements :
        g[j] = IF g[j - 1] = Nil THEN Nil ELSE next[g[j - 1]]
  <2> TAKE j \in 1 .. max_elements
  <2>1. j - 1 \in 0 .. max_elements /\ j \in 0 .. max_elements /\ (j - 1) + 1 = j
    BY <1>1
  <2>2. g[j - 1] = IF j - 1 < n THEN u[j] ELSE Nil  BY <1>3, <2>1
  <2>3. CASE j - 1 < n
    <3>1. j \in 1 .. n /\ (j = n <=> ~(j < n))  BY <1>1, <1>2, <2>3
    <3>2. u[j] \in Elements /\ u[j] # Nil  BY <1>2, <3>1, NilIsNoElement
    <3>3. next[u[j]] = IF j = n THEN Nil ELSE u[j + 1]  BY <1>2, <3>1
    <3>4. g[j] = IF j < n THEN u[j + 1] ELSE Nil  BY <1>3, <2>1
    <3> HIDE DEF g
    <3> QED  BY <2>2, <2>3, <3>1, <3>2, <3>3, <3>4
  <2>4. CASE ~(j - 1 < n)
    <3>1. ~(j < n)  BY <1>1, <1>2, <2>4
    <3>2. g[j] = Nil  BY <1>3, <2>1, <3>1
    <3> QED  BY <2>2, <2>4, <3>2
  <2> QED  BY <2>3, <2>4
<1>5. g[0] = start
  <2>1. 0 \in 0 .. max_elements /\ (0 < n <=> n # 0)  BY <1>1, <1>2
  <2> QED  BY <1>2, <1>3, <2>1
<1>6. Walks(g, next, start)
  <2> DEFINE h == [j \in 0 .. max_elements |->
                     IF j = 0 THEN start
                     ELSE LET e == g[j - 1] IN IF e = Nil THEN Nil ELSE next[e]]
  <2>1. ASSUME NEW j \in 0 .. max_elements PROVE g[j] = h[j]
    <3>1. j = 0 \/ j \in 1 .. max_elements  BY <1>1
    <3> HIDE DEF g
    <3> QED  BY <1>4, <1>5, <3>1
  <2>2. g = [j \in 0 .. max_elements |-> g[j]]  OBVIOUS
  <2> HIDE DEF g
  <2>3. h = [j \in 0 .. max_elements |-> h[j]]  OBVIOUS
  <2> HIDE DEF h
  <2>4. g = h  BY <2>1, <2>2, <2>3
  <2> QED  BY <2>4 DEF Walks, h
<1>7. at = CHOOSE x : Walks(x, next, start)  BY DEF Walk, Walks
<1>8. Walks(at, next, start)
  <2> HIDE DEF at, g
  <2> QED  BY <1>6, <1>7
<1> HIDE DEF at, g
<1>9. at[0] = start /\ \A j \in 1 .. max_elements :
        at[j] = IF at[j - 1] = Nil THEN Nil ELSE next[at[j - 1]]
  <2> DEFINE h == [j \in 0 .. max_elements |->
                     IF j = 0 THEN start
                     ELSE LET e == at[j - 1] IN IF e = Nil THEN Nil ELSE next[e]]
  <2>1. at = h  BY <1>8 DEF Walks
  <2>2. h[0] = start /\ \A j \in 1 .. max_elements :
          h[j] = IF at[j - 1] = Nil THEN Nil ELSE next[at[j - 1]]
    BY <1>1
  <2> HIDE DEF h
  <2> QED  BY <2>1, <2>2
<1> DEFINE T == {j \in Nat : j <= max_elements => at[j] = g[j]}
<1>10. 0 \in T  BY <1>5, <1>9
<1>11. ASSUME NEW j \in Nat, j \in T PROVE j + 1 \in T
  <2> SUFFICES ASSUME j + 1 <= max_elements PROVE at[j + 1] = g[j + 1]  OBVIOUS
  <2>1. j + 1 \in 1 .. max_elements /\ (j + 1) - 1 = j /\ j <= max_elements  BY <1>1
  <2>2. at[j] = g[j]  BY <1>11, <2>1
  <2> QED  BY <1>4, <1>9, <2>1, <2>2
<1>12. Nat \subseteq T
  <2> HIDE DEF T
  <2> QED  BY <1>10, <1>11, NatSetInduction
<1> QED  BY <1>1, <1>3, <1>12 DEF at

\* List is the chain.
LEMMA ListIs ==
  ASSUME max_elements \in Capacities, NEW next, NEW start, NEW u, NEW n,
         Chain(next, start, u, n), n <= max_elements
  PROVE List(next, start) = u
<1> DEFINE at == Walk(next, start)
           S == {j \in 0 .. max_elements : at[j] # Nil}
<1>1. max_elements \in Nat /\ n \in Nat /\ u \in [1 .. n -> Elements]
  BY CapacityAssumption DEF Chain, Distinct
<1>2. \A j \in 0 .. max_elements : at[j] = IF j < n THEN u[j + 1] ELSE Nil  BY WalkIs
<1>3. List(next, start) = [j \in 1 .. Cardinality(S) |-> at[j - 1]]  BY DEF List
<1> HIDE DEF at
<1>4. S = 0 .. n - 1
  <2>1. ASSUME NEW j \in 0 .. max_elements PROVE at[j] # Nil <=> j \in 0 .. n - 1
    <3>1. CASE j < n
      <4>1. j + 1 \in 1 .. n /\ j \in 0 .. n - 1  BY <1>1, <3>1
      <4>2. u[j + 1] # Nil  BY <1>1, <4>1, NilIsNoElement
      <4> QED  BY <1>2, <3>1, <4>1, <4>2
    <3>2. CASE ~(j < n)
      <4>1. ~(j \in 0 .. n - 1)  BY <1>1, <3>2
      <4> QED  BY <1>2, <3>2, <4>1
    <3> QED  BY <3>1, <3>2
  <2>2. 0 .. n - 1 \subseteq 0 .. max_elements  BY <1>1
  <2> QED  BY <2>1, <2>2
<1> HIDE DEF S
<1>5. Cardinality(S) = n
  <2>1. Cardinality(0 .. n - 1) = IF 0 > n - 1 THEN 0 ELSE (n - 1) - 0 + 1
    <3>1. 0 \in Int /\ n - 1 \in Int  BY <1>1
    <3> QED  BY <3>1, FS_Interval
  <2> QED  BY <1>1, <1>4, <2>1
<1>6. \A j \in 1 .. n : at[j - 1] = u[j]
  <2> TAKE j \in 1 .. n
  <2>1. j - 1 \in 0 .. max_elements /\ j - 1 < n /\ (j - 1) + 1 = j  BY <1>1
  <2> QED  BY <1>2, <2>1
<1>7. List(next, start) = [j \in 1 .. n |-> u[j]]  BY <1>3, <1>5, <1>6
<1> QED  BY <1>1, <1>7

\* The two lists of a cache, whose elements are at most its capacity.
LEMMA ShapeLists ==
  ASSUME max_elements \in Capacities, NEW u, NEW n, NEW f, NEW m,
         Shape(cache, u, n, f, m)
  PROVE LruList = u /\ FreeList = f /\ n <= max_elements /\ m <= max_elements
<1>1. /\ cache \in Caches /\ Distinct(u, n) /\ Distinct(f, m)
      /\ n + m = cache.block_capacity
      /\ Chain(cache.next, cache.lru_head, u, n)
      /\ Chain(cache.next, cache.free_list, f, m)
  BY DEF Shape, Lists, Chain, Cover
<1>2. n \in Nat /\ m \in Nat  BY <1>1 DEF Distinct
<1>3. cache.block_capacity \in 0 .. max_elements /\ max_elements \in Nat
  BY <1>1, CacheFields, CapacityAssumption
<1>4. n <= max_elements /\ m <= max_elements  BY <1>1, <1>2, <1>3
<1> QED  BY <1>1, <1>4, ListIs DEF LruList, FreeList

-----------------------------------------------------------------------------
(* Clear.                                                                  *)

\* The cache without entries, as Clear leaves it.
Emptied(c) ==
  [c EXCEPT !.table = [k \in Key |-> Nil], !.lru_head = Nil, !.lru_tail = Nil]

\* What Emptied leaves alone.
LEMMA EmptiedFields ==
  ASSUME NEW c \in Caches
  PROVE LET d == Emptied(c) IN
        /\ d \in Caches /\ d.table = [k \in Key |-> Nil]
        /\ d.lru_head = Nil /\ d.lru_tail = Nil /\ d.free_list = c.free_list
        /\ d.next = c.next /\ d.prev = c.prev /\ d.key = c.key /\ d.value = c.value
        /\ d.block_count = c.block_count /\ d.block_capacity = c.block_capacity
        /\ d.next_block_size = c.next_block_size /\ d.ok = c.ok
<1> DEFINE d == Emptied(c)
           tb == [k \in Key |-> Nil]
<1>1. tb \in [Key -> Pointers] /\ Nil \in Pointers  BY NilIsNoElement
<1>2. d = [c EXCEPT !.table = tb, !.lru_head = Nil, !.lru_tail = Nil]  BY DEF Emptied
<1> HIDE DEF tb, d
<1>3. d \in Caches  BY <1>1, <1>2 DEF Caches
<1>4. /\ d.table = tb /\ d.lru_head = Nil /\ d.lru_tail = Nil
      /\ d.free_list = c.free_list
      /\ d.next = c.next /\ d.prev = c.prev /\ d.key = c.key /\ d.value = c.value
      /\ d.block_count = c.block_count /\ d.block_capacity = c.block_capacity
      /\ d.next_block_size = c.next_block_size /\ d.ok = c.ok
  BY <1>2 DEF Caches
<1> QED  BY <1>3, <1>4 DEF d, tb

\* PushFreeList makes a cache of a cache, and does not see what Emptied drops.
LEMMA PushFreeFields ==
  ASSUME NEW c \in Caches, NEW e \in Elements
  PROVE LET d == PushFreeList(c, e) IN
        /\ d \in Caches /\ Emptied(d) = PushFreeList(Emptied(c), e)
        /\ SameData(c, d) /\ d.ok = c.ok
<1> DEFINE d == PushFreeList(c, e)
           nx == [c.next EXCEPT ![e] = c.free_list]
           pv == [c.prev EXCEPT ![e] = Nil]
<1>1. nx \in [Elements -> Pointers] /\ pv \in [Elements -> Pointers] /\ e \in Pointers
  BY CacheFields, NilIsNoElement DEF Pointers
<1>2. d = [c EXCEPT !.next = nx, !.prev = pv, !.free_list = e]
  BY DEF PushFreeList, Caches
<1>3. Emptied(d) = PushFreeList(Emptied(c), e)
  BY DEF Emptied, PushFreeList, Caches
<1> HIDE DEF nx, pv, d
<1>4. d \in Caches  BY <1>1, <1>2 DEF Caches
<1>5. SameData(c, d) /\ d.ok = c.ok  BY <1>2 DEF Caches, SameData
<1> QED  BY <1>3, <1>4, <1>5 DEF d

\* The equation that Freed is the solution of.
Frees(h, c, q) ==
  h = [n \in 0 .. Len(q) |-> IF n = 0 THEN c ELSE PushFreeList(h[n - 1], q[n])]

\* Freed pushes one element after the other.
LEMMA FreedUnfolds ==
  ASSUME NEW c \in Caches, NEW n \in Nat, NEW q \in [1 .. n -> Elements]
  PROVE /\ Freed(c, q)[0] = c /\ Len(q) = n
        /\ \A i \in 1 .. n : Freed(c, q)[i] = PushFreeList(Freed(c, q)[i - 1], q[i])
<1>1. Len(q) = n /\ q \in Seq(Elements)  OBVIOUS
<1> DEFINE step == [i \in Nat |->
                     [v \in Caches |->
                        IF i < n THEN PushFreeList(v, q[i + 1]) ELSE v]]
<1>2. \A i \in Nat, v \in Caches :
        (IF i < n THEN PushFreeList(v, q[i + 1]) ELSE v) \in Caches
  <2> TAKE i \in Nat, v \in Caches
  <2>1. i < n => q[i + 1] \in Elements
    <3>1. i < n => i + 1 \in 1 .. n  OBVIOUS
    <3> QED  BY <3>1
  <2>2. i < n => PushFreeList(v, q[i + 1]) \in Caches  BY <2>1, PushFreeFields
  <2> QED  BY <2>2
<1>3. step \in [Nat -> [Caches -> Caches]]  BY <1>2
<1>4. \A i \in Nat, v \in Caches : i < n => step[i][v] = PushFreeList(v, q[i + 1])
  OBVIOUS
<1> HIDE DEF step
<1>5. PICK f : Iterates(f, Caches, c, step)  BY <1>3, Iteration
<1>6. /\ f \in [Nat -> Caches] /\ f[0] = c
      /\ \A i \in Nat : f[i + 1] = step[i][f[i]]
  BY <1>5 DEF Iterates
<1>7. \A i \in 1 .. n : f[i] = PushFreeList(f[i - 1], q[i])
  <2> TAKE i \in 1 .. n
  <2>1. i - 1 \in Nat /\ i - 1 < n /\ (i - 1) + 1 = i  OBVIOUS
  <2>2. f[i] = step[i - 1][f[i - 1]] /\ f[i - 1] \in Caches  BY <1>6, <2>1
  <2>3. step[i - 1][f[i - 1]] = PushFreeList(f[i - 1], q[(i - 1) + 1])
    BY <1>4, <2>1, <2>2
  <2> QED  BY <2>1, <2>2, <2>3
<1> DEFINE h == [i \in 0 .. n |-> f[i]]
           r == Freed(c, q)
<1>8. Frees(h, c, q)
  <2> DEFINE g == [i \in 0 .. n |-> IF i = 0 THEN c ELSE PushFreeList(h[i - 1], q[i])]
  <2>1. ASSUME NEW i \in 0 .. n PROVE h[i] = g[i]
    <3>1. CASE i = 0  BY <1>6, <3>1
    <3>2. CASE i # 0
      <4>1. i \in 1 .. n /\ i - 1 \in 0 .. n  BY <3>2
      <4>2. h[i] = f[i] /\ h[i - 1] = f[i - 1]  BY <4>1
      <4>3. f[i] = PushFreeList(f[i - 1], q[i])  BY <1>7, <4>1
      <4> HIDE DEF h
      <4> QED  BY <3>2, <4>2, <4>3
    <3> QED  BY <3>1, <3>2
  <2>2. h = [i \in 0 .. n |-> h[i]]  OBVIOUS
  <2> HIDE DEF h
  <2>3. g = [i \in 0 .. n |-> g[i]]  OBVIOUS
  <2> HIDE DEF g
  <2>4. h = g  BY <2>1, <2>2, <2>3
  <2> QED  BY <1>1, <2>4 DEF Frees, g
<1>9. r = CHOOSE x : Frees(x, c, q)  BY DEF Freed, Frees
<1> HIDE DEF r, h
<1>10. Frees(r, c, q)  BY <1>8, <1>9
<1>11. r[0] = c /\ \A i \in 1 .. n : r[i] = PushFreeList(r[i - 1], q[i])
  <2> DEFINE g == [i \in 0 .. n |-> IF i = 0 THEN c ELSE PushFreeList(r[i - 1], q[i])]
  <2>1. r = g  BY <1>1, <1>10 DEF Frees
  <2>2. g[0] = c /\ \A i \in 1 .. n : g[i] = PushFreeList(r[i - 1], q[i])  OBVIOUS
  <2> HIDE DEF g
  <2> QED  BY <2>1, <2>2
<1> QED  BY <1>1, <1>11 DEF r

\* The first i elements of u are on the free list g, with those of f.
Given(g, u, i, f, m) ==
  /\ \A x : (\E j \in 1 .. m : f[j] = x) \/ (\E j \in 1 .. i : u[j] = x)
            <=> \E j \in 1 .. m + i : g[j] = x

\* A list of no elements.
None == [j \in 1 .. 0 |-> Nil]

\* The free list in the course of Clear.
Clearing(c, d, u, i, f, m) ==
  /\ d \in Caches /\ SameData(c, d) /\ d.ok = c.ok
  /\ \E g : Lists(Emptied(d), None, 0, g, m + i) /\ Given(g, u, i, f, m)

LEMMA ClearStarts ==
  ASSUME NEW c, NEW u, NEW n, NEW f, NEW m, Lists(c, u, n, f, m)
  PROVE Clearing(c, c, u, 0, f, m)
<1>1. /\ c \in Caches /\ m \in Nat
      /\ Chain(c.next, c.free_list, f, m) /\ \A j \in 1 .. m : c.prev[f[j]] = Nil
  BY DEF Lists, Chain, Distinct
<1> DEFINE d == Emptied(c)
<1>2. /\ d \in Caches /\ d.lru_head = Nil /\ d.lru_tail = Nil
      /\ d.free_list = c.free_list /\ d.next = c.next /\ d.prev = c.prev
  BY <1>1, EmptiedFields
<1> HIDE DEF d
<1>3. Chain(d.next, d.lru_head, None, 0)  BY <1>2 DEF Chain, Distinct, None
<1>4. Backward(d.prev, d.lru_tail, None, 0)  BY <1>2 DEF Backward
<1>5. Lists(d, None, 0, f, m)  BY <1>1, <1>2, <1>3, <1>4 DEF Lists
<1>6. m + 0 = m  BY <1>1
<1>7. Given(f, u, 0, f, m)  BY <1>6 DEF Given
<1> QED  BY <1>1, <1>5, <1>6, <1>7 DEF Clearing, SameData, d

LEMMA ClearGoesOn ==
  ASSUME NEW c, NEW d, NEW u, NEW n, NEW f, NEW m, Lists(c, u, n, f, m),
         NEW i \in Nat, i + 1 <= n, Clearing(c, d, u, i, f, m)
  PROVE Clearing(c, PushFreeList(d, u[i + 1]), u, i + 1, f, m)
<1>e. PICK e : e = u[i + 1]  OBVIOUS
<1>1. PICK g : Lists(Emptied(d), None, 0, g, m + i) /\ Given(g, u, i, f, m)
  BY DEF Clearing
<1>2. d \in Caches /\ SameData(c, d) /\ d.ok = c.ok  BY DEF Clearing
<1>3. /\ n \in Nat /\ m \in Nat /\ u \in [1 .. n -> Elements]
      /\ (\A x, y \in 1 .. n : u[x] = u[y] => x = y)
      /\ (\A x \in 1 .. n, j \in 1 .. m : u[x] # f[j])
  BY DEF Lists, Chain, Distinct
<1>4. i + 1 \in 1 .. n /\ e \in Elements  BY <1>3, <1>e
<1>5. Off(e, g, m + i) /\ Off(e, None, 0)
  <2>1. ~ \E j \in 1 .. m : f[j] = e  BY <1>3, <1>4, <1>e
  <2>2. ~ \E j \in 1 .. i : u[j] = e
    <3> SUFFICES ASSUME NEW j \in 1 .. i, u[j] = e PROVE FALSE  OBVIOUS
    <3>1. j \in 1 .. n /\ j # i + 1  BY <1>3
    <3> QED  BY <1>3, <1>4, <1>e, <3>1
  <2>3. ~ \E j \in 1 .. m + i : g[j] = e  BY <1>1, <2>1, <2>2 DEF Given
  <2> QED  BY <2>3 DEF Off
<1> DEFINE b == PushFreeList(d, e)
           w == Pushed(e, g, m + i)
<1>6. b \in Caches /\ Emptied(b) = PushFreeList(Emptied(d), e) /\ SameData(d, b)
      /\ b.ok = d.ok
  BY <1>2, <1>4, PushFreeFields
<1>7. Lists(Emptied(b), None, 0, w, (m + i) + 1)
  <2>1. Lists(PushFreeList(Emptied(d), e), None, 0, w, (m + i) + 1)
    BY <1>1, <1>4, <1>5, PushFreeKeeps
  <2> QED  BY <1>6, <2>1
<1>8. w[1] = e /\ \A j \in 1 .. m + i : w[j + 1] = g[j]
  <2>1. Distinct(g, m + i)  BY <1>1 DEF Lists, Chain
  <2> QED  BY <1>4, <1>5, <2>1, PushedFacts
<1> HIDE DEF b, w
<1>9. Given(w, u, i + 1, f, m)
  <2>1. ASSUME NEW x
        PROVE (\E j \in 1 .. m : f[j] = x) \/ (\E j \in 1 .. i + 1 : u[j] = x)
              <=> (\E j \in 1 .. m + i : g[j] = x) \/ x = e
    <3>1. (\E j \in 1 .. i + 1 : u[j] = x) <=> (\E j \in 1 .. i : u[j] = x) \/ x = e
      <4>1. \A j : j \in 1 .. i + 1 <=> j \in 1 .. i \/ j = i + 1  OBVIOUS
      <4> QED  BY <1>e, <4>1
    <3> QED  BY <1>1, <3>1 DEF Given
  <2>2. ASSUME NEW x
        PROVE (\E j \in 1 .. m + (i + 1) : w[j] = x)
              <=> (\E j \in 1 .. m + i : g[j] = x) \/ x = e
    <3>1. 1 \in 1 .. m + (i + 1)  BY <1>3
    <3>2. \A j \in 1 .. m + i : j + 1 \in 1 .. m + (i + 1) /\ w[j + 1] = g[j]
      BY <1>3, <1>8
    <3>3. \A j \in 1 .. m + (i + 1) :
            j = 1 \/ (j - 1 \in 1 .. m + i /\ w[j] = g[j - 1])
      <4> TAKE j \in 1 .. m + (i + 1)
      <4>1. j # 1 => j - 1 \in 1 .. m + i /\ (j - 1) + 1 = j  BY <1>3
      <4> QED  BY <1>8, <4>1
    <3> QED  BY <1>8, <3>1, <3>2, <3>3
  <2> QED  BY <2>1, <2>2 DEF Given
<1>10. (m + i) + 1 = m + (i + 1)  BY <1>3
<1>11. SameData(c, b) /\ b.ok = c.ok  BY <1>2, <1>6, SameDataTrans
<1>12. Lists(Emptied(b), None, 0, w, m + (i + 1))  BY <1>7, <1>10
<1>13. Clearing(c, b, u, i + 1, f, m)  BY <1>6, <1>9, <1>11, <1>12 DEF Clearing
<1> QED  BY <1>13, <1>e DEF b

\* Clear leaves every element on the free list.
LEMMA ClearKeeps ==
  ASSUME NEW c, NEW u, NEW n, NEW f, NEW m, Shape(c, u, n, f, m)
  PROVE LET d == Emptied(Freed(c, u)[n]) IN
        Len(u) = n /\ d.table = [k \in Key |-> Nil] /\ \E g, s : Shape(d, None, 0, g, s)
<1>1. /\ Lists(c, u, n, f, m) /\ Cover(c.block_capacity, u, n, f, m)
      /\ Blocks(c) /\ c.ok
  BY DEF Shape
<1>2. c \in Caches /\ n \in Nat /\ m \in Nat /\ u \in [1 .. n -> Elements]
  BY <1>1 DEF Lists, Chain, Distinct
<1> DEFINE r == Freed(c, u)
           T == {i \in Nat : i <= n => Clearing(c, r[i], u, i, f, m)}
<1>3. /\ r[0] = c /\ Len(u) = n
      /\ \A i \in 1 .. n : r[i] = PushFreeList(r[i - 1], u[i])
  BY <1>2, FreedUnfolds
<1> HIDE DEF r
<1>4. 0 \in T  BY <1>1, <1>3, ClearStarts
<1>5. ASSUME NEW i \in Nat, i \in T PROVE i + 1 \in T
  <2> SUFFICES ASSUME i + 1 <= n PROVE Clearing(c, r[i + 1], u, i + 1, f, m)
    OBVIOUS
  <2>1. Clearing(c, r[i], u, i, f, m)  BY <1>2, <1>5
  <2>2. r[i + 1] = PushFreeList(r[i], u[i + 1])
    <3>1. i + 1 \in 1 .. n /\ (i + 1) - 1 = i  BY <1>2
    <3>2. r[i + 1] = PushFreeList(r[(i + 1) - 1], u[i + 1])  BY <1>3, <3>1
    <3> QED  BY <3>1, <3>2
  <2> QED  BY <1>1, <2>1, <2>2, ClearGoesOn
<1>6. Nat \subseteq T
  <2> HIDE DEF T
  <2> QED  BY <1>4, <1>5, NatSetInduction
<1>7. Clearing(c, r[n], u, n, f, m)  BY <1>2, <1>6
<1>8. PICK g : Lists(Emptied(r[n]), None, 0, g, m + n) /\ Given(g, u, n, f, m)
  BY <1>7 DEF Clearing
<1> DEFINE d == Emptied(r[n])
<1>9. r[n] \in Caches /\ SameData(c, r[n]) /\ r[n].ok = c.ok  BY <1>7 DEF Clearing
<1>10. /\ d.table = [k \in Key |-> Nil] /\ d.block_count = c.block_count
       /\ d.block_capacity = c.block_capacity
       /\ d.next_block_size = c.next_block_size /\ d.ok
  BY <1>1, <1>9, EmptiedFields DEF SameData
<1> HIDE DEF d
<1>11. Cover(d.block_capacity, None, 0, g, m + n)
  <2>1. 0 + (m + n) = c.block_capacity  BY <1>1, <1>2 DEF Cover
  <2>2. \A j \in 1 .. m + n : g[j] <= c.block_capacity
    <3> TAKE j \in 1 .. m + n
    <3>1. (\E i \in 1 .. m : f[i] = g[j]) \/ (\E i \in 1 .. n : u[i] = g[j])
      BY <1>8 DEF Given
    <3> QED  BY <1>1, <3>1 DEF Cover
  <2>3. \A x \in 1 .. c.block_capacity : \E j \in 1 .. m + n : g[j] = x
    <3> TAKE x \in 1 .. c.block_capacity
    <3>1. (\E i \in 1 .. n : u[i] = x) \/ (\E j \in 1 .. m : f[j] = x)
      BY <1>1 DEF Cover
    <3> QED  BY <1>8, <3>1 DEF Given
  <2> QED  BY <1>10, <2>1, <2>2, <2>3 DEF Cover
<1>12. Indexed(d, None, 0)  BY <1>10 DEF Indexed
<1>13. Blocks(d)  BY <1>1, <1>10 DEF Blocks
<1>14. Lists(d, None, 0, g, m + n)  BY <1>8 DEF d
<1>15. Shape(d, None, 0, g, m + n)  BY <1>10, <1>11, <1>12, <1>13, <1>14 DEF Shape
<1> QED  BY <1>3, <1>10, <1>15 DEF d, r

-----------------------------------------------------------------------------
(* The invariant.                                                          *)

\* Two lists account for the whole cache.
CacheInv ==
  max_elements \in Capacities /\ \E u, n, f, m : Shape(cache, u, n, f, m)

\* Writing a value leaves the lists and the table alone.
LEMMA ValueKeeps ==
  ASSUME NEW c, NEW u, NEW n, NEW f, NEW m, Shape(c, u, n, f, m),
         NEW e \in Elements, NEW v \in Value
  PROVE LET d == [c EXCEPT !.value[e] = v] IN
        /\ Shape(d, u, n, f, m) /\ d.table = c.table /\ d.key = c.key
        /\ d.value = [c.value EXCEPT ![e] = v]
<1> DEFINE d == [c EXCEPT !.value[e] = v]
           vl == [c.value EXCEPT ![e] = v]
<1>1. Lists(c, u, n, f, m) /\ Cover(c.block_capacity, u, n, f, m) /\ Indexed(c, u, n)
      /\ Blocks(c) /\ c.ok /\ c \in Caches
  BY DEF Shape, Lists
<1>2. vl \in [Elements -> Value]  BY <1>1, CacheFields
<1>3. d = [c EXCEPT !.value = vl]  BY <1>1 DEF Caches
<1> HIDE DEF d, vl
<1>4. d \in Caches  BY <1>1, <1>2, <1>3 DEF Caches
<1>5. /\ SameLinks(c, d) /\ d.table = c.table /\ d.key = c.key /\ d.value = vl
      /\ d.block_count = c.block_count /\ d.block_capacity = c.block_capacity
      /\ d.next_block_size = c.next_block_size /\ d.ok = c.ok
  BY <1>1, <1>3 DEF Caches, SameLinks
<1>6. Lists(d, u, n, f, m)  BY <1>1, <1>4, <1>5, ListsOfLinks
<1>7. Indexed(d, u, n)  BY <1>1, <1>5 DEF Indexed
<1>8. Blocks(d)  BY <1>1, <1>5 DEF Blocks
<1>9. Shape(d, u, n, f, m)  BY <1>1, <1>5, <1>6, <1>7, <1>8 DEF Shape
<1> QED  BY <1>5, <1>9 DEF d, vl

\* The entries after Insert(k): k has an element, the others keep theirs or
\* lose it, and no value has changed.
Holds(c, d, k) ==
  /\ d.table[k] \in Elements /\ d.value = c.value
  /\ \A x \in Key : x # k => d.table[x] = Nil \/ d.table[x] = c.table[x]
  /\ c.table[k] # Nil => d.table[k] = c.table[k]

LEMMA InsertedHolds ==
  ASSUME max_elements \in Capacities, NEW u, NEW n, NEW f, NEW m,
         Shape(cache, u, n, f, m), NEW k \in Key
  PROVE /\ Holds(cache, Inserted(k), k)
        /\ \E w, l, g, s : Shape(Inserted(k), w, l, g, s)
<1> DEFINE d == Inserted(k)
<1>1. cache \in Caches /\ Distinct(u, n) /\ n \in Nat /\ u \in [1 .. n -> Elements]
  BY DEF Shape, Lists, Chain, Distinct
<1>2. cache.table \in [Key -> Pointers]  BY <1>1, CacheFields
<1>3. CASE cache.table[k] # Nil
  <2>1. PICK i : Renewed(cache, d, k, u, n, i)  BY <1>3, InsertPresent
  <2> HIDE DEF d
  <2>2. cache.table[k] \in Elements  BY <1>2, <1>3 DEF Pointers
  <2>3. Holds(cache, d, k)  BY <2>1, <2>2 DEF Renewed, SameEntries, Holds
  <2>4. \E w, l, g, s : Shape(d, w, l, g, s)  BY <2>1 DEF Renewed
  <2> QED  BY <2>3, <2>4 DEF d
<1>4. CASE cache.table[k] = Nil
  <2>1. CASE \E e : Added(cache, d, k, u, n, e)
    <3> HIDE DEF d
    <3>1. PICK e : Added(cache, d, k, u, n, e)  BY <2>1
    <3>2. /\ e \in Elements /\ d.table = [cache.table EXCEPT ![k] = e]
          /\ d.value = cache.value
      BY <3>1 DEF Added
    <3>3. Holds(cache, d, k)  BY <1>2, <1>4, <3>2 DEF Holds
    <3>4. \E w, l, g, s : Shape(d, w, l, g, s)  BY <3>1 DEF Added
    <3> QED  BY <3>3, <3>4 DEF d
  <2>2. CASE Replaced(cache, d, k, u, n)
    <3> HIDE DEF d
    <3>1. /\ n > 0 /\ d.value = cache.value
          /\ d.table = [[cache.table EXCEPT ![cache.key[u[n]]] = Nil]
                          EXCEPT ![k] = u[n]]
      BY <2>2 DEF Replaced
    <3>2. u[n] \in Elements  BY <1>1, <3>1
    <3>3. Holds(cache, d, k)  BY <1>2, <1>4, <3>1, <3>2 DEF Holds
    <3>4. \E w, l, g, s : Shape(d, w, l, g, s)  BY <2>2 DEF Replaced
    <3> QED  BY <3>3, <3>4 DEF d
  <2> QED  BY <1>4, <2>1, <2>2, InsertAbsent
<1> QED  BY <1>3, <1>4

\* The shape is the same thing in the next state.
LEMMA ShapeNext ==
  ASSUME max_elements' = max_elements, NEW c, NEW u, NEW n, NEW f, NEW m,
         Shape(c, u, n, f, m), cache' = c
  PROVE Shape(cache, u, n, f, m)'
<1>1. Elements' = Elements /\ Pointers' = Pointers /\ Value' = Value
  BY DEF Elements, Pointers, Value, Nil
<1>2. Caches' = Caches  BY <1>1 DEF Caches
<1>3. Distinct(u, n)' <=> Distinct(u, n)  BY <1>1 DEF Distinct
<1>4. Distinct(f, m)' <=> Distinct(f, m)  BY <1>1 DEF Distinct
<1>5. Lists(cache, u, n, f, m)'
  BY <1>2, <1>3, <1>4 DEF Shape, Lists, Chain, Backward, Nil
<1>6. Cover(cache.block_capacity, u, n, f, m)'  BY DEF Shape, Cover
<1>7. Indexed(cache, u, n)'  BY DEF Shape, Indexed, Nil
<1>8. Blocks(cache)'  BY DEF Shape, Blocks, Reaches
<1>9. cache'.ok  BY DEF Shape
<1> QED  BY <1>5, <1>6, <1>7, <1>8, <1>9 DEF Shape

LEMMA InitCacheInv == Init => CacheInv
<1> SUFFICES ASSUME Init PROVE CacheInv  OBVIOUS
<1>1. max_elements \in Capacities /\ max_elements \in Nat \ {0}
  BY CapacityAssumption DEF Init
<1> DEFINE size == InitialBlockSize(max_elements)
<1>2. size \in 1 .. max_elements  BY <1>1, InitialSize
<1>3. /\ MaxBlocks \in Nat \ {0} /\ SmallLimit \in Nat
      /\ max_elements <= size * (Shift[MaxBlocks] - 1)
      /\ max_elements > SmallLimit => size + MaxBlocks - 1 <= max_elements
  BY <1>1, CapacityAssumption
<1>4. max_elements <= SmallLimit => size = max_elements  BY DEF InitialBlockSize
<1> DEFINE tb == [k \in Key |-> Nil]
           nx == [e \in Elements |-> Nil]
           ky == [e \in Elements |-> NoKey]
           vl == [e \in Elements |-> NoKey]
<1>5. cache = [table |-> tb, next |-> nx, prev |-> nx, key |-> ky, value |-> vl,
               free_list |-> Nil, lru_head |-> Nil, lru_tail |-> Nil,
               block_count |-> 0, block_capacity |-> 0, next_block_size |-> size,
               ok |-> TRUE]
  BY DEF Init
<1>6. /\ tb \in [Key -> Pointers] /\ nx \in [Elements -> Pointers]
      /\ ky \in [Elements -> Key \cup {NoKey}] /\ vl \in [Elements -> Value]
      /\ Nil \in Pointers
  BY NilIsNoElement DEF Value
<1>7. \A k \in Key : tb[k] = Nil  OBVIOUS
<1> HIDE DEF size, tb, nx, ky, vl
<1>8. cache \in Caches
  <2>1. 0 \in 0 .. MaxBlocks /\ 0 \in 0 .. max_elements /\ size \in Nat
    BY <1>1, <1>2, <1>3
  <2> QED  BY <1>5, <1>6, <2>1 DEF Caches
<1>9. Lists(cache, None, 0, None, 0)
  <2>1. Distinct(None, 0)  BY DEF Distinct, None
  <2>2. Chain(cache.next, cache.lru_head, None, 0) /\ Chain(cache.next, cache.free_list, None, 0)
    BY <1>5, <2>1 DEF Chain
  <2>3. Backward(cache.prev, cache.lru_tail, None, 0)  BY <1>5 DEF Backward
  <2> QED  BY <1>8, <2>2, <2>3 DEF Lists
<1>10. Cover(cache.block_capacity, None, 0, None, 0)  BY <1>5 DEF Cover
<1>11. Indexed(cache, None, 0)  BY <1>5, <1>7 DEF Indexed
<1>12. Blocks(cache)
  <2>1. Reaches(max_elements, MaxBlocks, size)
    <3>1. size = max_elements \/ size + (MaxBlocks - 1) <= max_elements
      BY <1>1, <1>2, <1>3, <1>4
    <3>2. size <= max_elements  BY <1>2
    <3> QED  BY <1>3, <3>1, <3>2 DEF Reaches
  <2>2. max_elements - 0 = max_elements /\ MaxBlocks - 0 = MaxBlocks  BY <1>1, <1>3
  <2> QED  BY <1>5, <2>1, <2>2 DEF Blocks
<1>13. Shape(cache, None, 0, None, 0)
  BY <1>5, <1>9, <1>10, <1>11, <1>12 DEF Shape
<1> QED  BY <1>1, <1>13 DEF CacheInv

\* A look-up moves the element to the front of the list of use.
LEMMA MovedShape ==
  ASSUME NEW c, NEW u, NEW n, NEW f, NEW m, Shape(c, u, n, f, m), NEW i \in 1 .. n
  PROVE LET d == PushLRUHead(c, u[i]) IN
        /\ Shape(d, Pushed(u[i], Without(u, n, i), n - 1), n, f, m)
        /\ SameEntries(c, d)
<1> DEFINE d == PushLRUHead(c, u[i])
           v == Without(u, n, i)
           w == Pushed(u[i], v, n - 1)
<1>1. Lists(c, u, n, f, m) /\ Cover(c.block_capacity, u, n, f, m) /\ Indexed(c, u, n)
      /\ Blocks(c) /\ c.ok
  BY DEF Shape
<1>2. Distinct(u, n) /\ n \in Nat /\ m \in Nat /\ u[i] \in Elements
  BY <1>1 DEF Lists, Chain, Distinct
<1>3. Lists(d, w, n, f, m) /\ SameData(c, d) /\ d.ok = c.ok  BY <1>1, MoveKeeps
<1>4. /\ \A x \in 1 .. n : x # i => \E j \in 1 .. n - 1 : v[j] = u[x]
      /\ \A j \in 1 .. n - 1 : \E x \in 1 .. n : x # i /\ v[j] = u[x]
      /\ Distinct(v, n - 1) /\ Off(u[i], v, n - 1)
  <2>1. AllBut(v, u, n, i) /\ Distinct(v, n - 1) /\ Off(u[i], v, n - 1)
    BY <1>2, WithoutFacts
  <2> HIDE DEF v
  <2> QED  BY <2>1 DEF AllBut
<1> HIDE DEF d, v
<1>5. w[1] = u[i] /\ \A j \in 1 .. n - 1 : w[j + 1] = v[j]
  BY <1>2, <1>4, PushedFacts
<1> HIDE DEF w
<1>6. \A j \in 1 .. n : \E x \in 1 .. n : w[j] = u[x]
  <2> TAKE j \in 1 .. n
  <2>1. CASE j = 1  BY <1>5, <2>1
  <2>2. CASE j > 1
    <3>1. j - 1 \in 1 .. n - 1 /\ (j - 1) + 1 = j  BY <1>2, <2>2
    <3>2. w[j] = v[j - 1]  BY <1>5, <3>1
    <3> QED  BY <1>4, <3>1, <3>2
  <2> QED  BY <1>2, <2>1, <2>2
<1>7. \A x \in 1 .. n : \E j \in 1 .. n : w[j] = u[x]
  <2> TAKE x \in 1 .. n
  <2>1. CASE x = i
    <3>1. 1 \in 1 .. n  BY <1>2
    <3> QED  BY <1>5, <2>1, <3>1
  <2>2. CASE x # i
    <3>1. PICK j \in 1 .. n - 1 : v[j] = u[x]  BY <1>4, <2>2
    <3>2. j + 1 \in 1 .. n /\ w[j + 1] = u[x]  BY <1>2, <1>5, <3>1
    <3> QED  BY <3>2
  <2> QED  BY <2>1, <2>2
<1>8. Cover(d.block_capacity, w, n, f, m)
  <2>1. d.block_capacity = c.block_capacity  BY <1>3 DEF SameData
  <2>2. \A j \in 1 .. n : w[j] <= c.block_capacity  BY <1>1, <1>6 DEF Cover
  <2>3. \A x \in 1 .. c.block_capacity :
          (\E j \in 1 .. n : w[j] = x) \/ (\E j \in 1 .. m : f[j] = x)
    BY <1>1, <1>7 DEF Cover
  <2> QED  BY <1>1, <2>1, <2>2, <2>3 DEF Cover
<1>9. SameEntries(c, d)  BY <1>3 DEF SameData, SameEntries
<1>10. Indexed(d, w, n)
  <2>1. \A j \in 1 .. n : d.key[w[j]] \in Key /\ d.table[d.key[w[j]]] = w[j]
    BY <1>1, <1>6, <1>9 DEF Indexed, SameEntries
  <2>2. \A x \in Key : d.table[x] # Nil =>
          d.key[d.table[x]] = x /\ \E j \in 1 .. n : w[j] = d.table[x]
    BY <1>1, <1>7, <1>9 DEF Indexed, SameEntries
  <2> QED  BY <2>1, <2>2 DEF Indexed
<1>11. Blocks(d)  BY <1>1, <1>3 DEF Blocks, SameData
<1>12. Shape(d, w, n, f, m)  BY <1>1, <1>3, <1>8, <1>10, <1>11 DEF Shape
<1> QED  BY <1>9, <1>12 DEF d, w, v

\* Insert, and a value written to the element it returns.
Writes(k, v) ==
  /\ cache' = [Inserted(k) EXCEPT !.value[Inserted(k).table[k]] = v]
  /\ max_elements' = max_elements

\* The value that the element for k has when Insert returns.
Found(k) == Inserted(k).value[Inserted(k).table[k]]

LEMMA InsertWrites ==
  ASSUME CacheInv, NEW k \in Key
  PROVE /\ k \in Value /\ Merged(Found(k), k) \in Value
        /\ Insert(k) => Writes(k, k)
        /\ LearnEntry(k) =>
             Writes(k, IF k \in Present(cache) THEN Merged(Found(k), k) ELSE k)
        /\ AddHistoryEntry(k) => Writes(k, Merged(Found(k), k))
<1> DEFINE d == Inserted(k)
<1>1. PICK u, n, f, m : Shape(cache, u, n, f, m)  BY DEF CacheInv
<1>2. Holds(cache, d, k) /\ \E w, l, g, s : Shape(d, w, l, g, s)
  BY <1>1, InsertedHolds DEF CacheInv
<1>3. d \in Caches /\ d.table[k] \in Elements  BY <1>2 DEF Shape, Lists, Holds
<1>4. k \in Value /\ Merged(Found(k), k) \in Value  BY DEF Value, Merged
<1> HIDE DEF d
<1>5. \A v : [d EXCEPT !.value[d.table[k]] = v]
             = [d EXCEPT !.value = [d.value EXCEPT ![d.table[k]] = v]]
  BY <1>3 DEF Caches
<1>6. Insert(k) => Writes(k, k)  BY DEF Insert, Writes, d
<1>7. LearnEntry(k) =>
        Writes(k, IF k \in Present(cache) THEN Merged(Found(k), k) ELSE k)
  BY DEF LearnEntry, Writes, Found, d
<1>8. AddHistoryEntry(k) => Writes(k, Merged(Found(k), k))
  BY DEF AddHistoryEntry, Writes, Found, d
<1> QED  BY <1>4, <1>6, <1>7, <1>8

\* An insertion keeps the invariant.
LEMMA WritesKeep ==
  ASSUME CacheInv, NEW k \in Key, NEW v \in Value, Writes(k, v)
  PROVE CacheInv'
<1> DEFINE d == Inserted(k)
           b == [d EXCEPT !.value[d.table[k]] = v]
<1>1. PICK u, n, f, m : Shape(cache, u, n, f, m)  BY DEF CacheInv
<1>2. Holds(cache, d, k) /\ \E w, l, g, s : Shape(d, w, l, g, s)
  BY <1>1, InsertedHolds DEF CacheInv
<1>3. PICK w, l, g, s : Shape(d, w, l, g, s)  BY <1>2
<1>4. d.table[k] \in Elements  BY <1>2 DEF Holds
<1>5. cache' = b /\ max_elements' = max_elements  BY DEF Writes
<1> HIDE DEF d
<1>6. Shape(b, w, l, g, s)  BY <1>3, <1>4, ValueKeeps
<1> HIDE DEF b
<1>7. Shape(cache, w, l, g, s)'  BY <1>5, <1>6, ShapeNext
<1> QED  BY <1>5, <1>7 DEF CacheInv

\* So does everything else.
LEMMA NextCacheInv == CacheInv /\ [Next]_vars => CacheInv'
<1> SUFFICES ASSUME CacheInv, [Next]_vars PROVE CacheInv'  OBVIOUS
<1>1. PICK u, n, f, m : Shape(cache, u, n, f, m)  BY DEF CacheInv
<1>2. max_elements \in Capacities  BY DEF CacheInv
<1>3. ASSUME NEW k \in Key, Insert(k) \/ LearnEntry(k) \/ AddHistoryEntry(k)
      PROVE CacheInv'
  <2>1. PICK v \in Value : Writes(k, v)
    <3>1. k \in Value /\ Merged(Found(k), k) \in Value  BY InsertWrites
    <3>2. (IF k \in Present(cache) THEN Merged(Found(k), k) ELSE k) \in Value
      BY <3>1
    <3> QED  BY <1>3, <3>1, <3>2, InsertWrites
  <2> QED  BY <2>1, WritesKeep
<1>4. ASSUME NEW k \in Key, MutableLookup(k) \/ Erase(k) PROVE CacheInv'
  <2>1. cache.table[k] # Nil /\ max_elements' = max_elements
    BY <1>4 DEF MutableLookup, Erase
  <2>2. PICK i \in 1 .. n : u[i] = cache.table[k]  BY <1>1, <2>1 DEF Shape, Indexed
  <2>3. CASE MutableLookup(k)
    <3> DEFINE d == PushLRUHead(cache, u[i])
               w == Pushed(u[i], Without(u, n, i), n - 1)
    <3>1. cache' = d  BY <2>2, <2>3 DEF MutableLookup
    <3>2. Shape(d, w, n, f, m)  BY <1>1, MovedShape
    <3> HIDE DEF d, w
    <3>3. Shape(cache, w, n, f, m)'  BY <2>1, <3>1, <3>2, ShapeNext
    <3> QED  BY <1>2, <2>1, <3>3 DEF CacheInv
  <2>4. CASE Erase(k)
    <3> DEFINE d == Evict(cache, u[i])
               w == Without(u, n, i)
               g == Pushed(u[i], f, m)
    <3>1. cache' = d  BY <2>2, <2>4 DEF Erase
    <3>2. Shape(d, w, n - 1, g, m + 1)  BY <1>1, EvictKeeps
    <3> HIDE DEF d, w, g
    <3>3. Shape(cache, w, n - 1, g, m + 1)'  BY <2>1, <3>1, <3>2, ShapeNext
    <3> QED  BY <1>2, <2>1, <3>3 DEF CacheInv
  <2> QED  BY <1>4, <2>3, <2>4
<1>5. ASSUME Clear PROVE CacheInv'
  <2>1. LruList = u  BY <1>1, <1>2, ShapeLists
  <2> DEFINE d == Emptied(Freed(cache, u)[n])
  <2>2. Len(u) = n /\ \E g, s : Shape(d, None, 0, g, s)  BY <1>1, ClearKeeps
  <2>3. cache' = d /\ max_elements' = max_elements
    BY <1>5, <2>1, <2>2 DEF Clear, Emptied
  <2> HIDE DEF d
  <2>4. PICK g, s : Shape(d, None, 0, g, s)  BY <2>2
  <2>5. Shape(cache, None, 0, g, s)'  BY <2>3, <2>4, ShapeNext
  <2> QED  BY <1>2, <2>3, <2>5 DEF CacheInv
<1>6. ASSUME UNCHANGED vars PROVE CacheInv'
  <2>1. max_elements' = max_elements /\ cache' = cache  BY <1>6 DEF vars
  <2>2. Shape(cache, u, n, f, m)'  BY <1>1, <2>1, ShapeNext
  <2> QED  BY <1>2, <2>1, <2>2 DEF CacheInv
<1> QED  BY <1>3, <1>4, <1>5, <1>6 DEF Next

\* Every reachable cache is accounted for by two lists.
THEOREM CacheInvHolds == Spec => []CacheInv
BY InitCacheInv, NextCacheInv, PTL DEF Spec

\* Only keys are added.
LEMMA AddedHolds == Spec => [](added \subseteq Key)
<1>1. Init => added \subseteq Key  BY DEF Init
<1>2. added \subseteq Key /\ [Next]_vars => (added \subseteq Key)'
  BY DEF Next, vars, Insert, LearnEntry, AddHistoryEntry, MutableLookup, Erase, Clear
<1> QED  BY <1>1, <1>2, PTL DEF Spec

\* The consequences for the state.
LEMMA InvConsistent == CacheInv /\ added \subseteq Key => ListsAreConsistent
<1> SUFFICES ASSUME CacheInv, added \subseteq Key PROVE ListsAreConsistent  OBVIOUS
<1>1. max_elements \in Capacities  BY DEF CacheInv
<1>2. PICK u, n, f, m : Shape(cache, u, n, f, m)  BY DEF CacheInv
<1>3. LruList = u /\ FreeList = f  BY <1>1, <1>2, ShapeLists
<1>4. /\ Lists(cache, u, n, f, m) /\ Cover(cache.block_capacity, u, n, f, m)
      /\ Indexed(cache, u, n) /\ cache.ok
  BY <1>2 DEF Shape
<1>5. /\ cache \in Caches /\ Distinct(u, n) /\ Distinct(f, m)
      /\ Backward(cache.prev, cache.lru_tail, u, n)
      /\ \A i \in 1 .. n, j \in 1 .. m : u[i] # f[j]
  BY <1>4 DEF Lists, Chain
<1>6. /\ n \in Nat /\ m \in Nat /\ u \in [1 .. n -> Elements]
      /\ f \in [1 .. m -> Elements]
  BY <1>5 DEF Distinct
<1>7. /\ DOMAIN u = 1 .. n /\ DOMAIN f = 1 .. m /\ Len(u) = n
  BY <1>6
<1>8. TypeOK  BY <1>1, <1>4, <1>5 DEF TypeOK
<1>9. IsInjective(u) /\ IsInjective(f)
  BY <1>5, <1>7 DEF IsInjective, Distinct
<1>10. ToSet(u) \cap ToSet(f) = {}  BY <1>5, <1>7 DEF ToSet
<1>11. ToSet(u) \cup ToSet(f) = 1 .. cache.block_capacity
  <2>1. ASSUME NEW x \in ToSet(u) \cup ToSet(f) PROVE x \in 1 .. cache.block_capacity
    <3>1. x \in Elements /\ x <= cache.block_capacity
      BY <1>4, <1>6, <1>7, <2>1 DEF ToSet, Cover
    <3>2. cache.block_capacity \in 0 .. max_elements  BY <1>5, CacheFields
    <3> QED  BY <3>1, <3>2 DEF Elements
  <2>2. ASSUME NEW x \in 1 .. cache.block_capacity PROVE x \in ToSet(u) \cup ToSet(f)
    BY <1>4, <1>7 DEF ToSet, Cover
  <2> QED  BY <2>1, <2>2
<1>12. \A i \in DOMAIN u :
         /\ cache.prev[u[i]] = IF i = 1 THEN Nil ELSE u[i - 1]
         /\ cache.table[cache.key[u[i]]] = u[i]
  BY <1>4, <1>5, <1>7 DEF Backward, Indexed
<1>13. cache.lru_tail = IF u = << >> THEN Nil ELSE Last(u)
  <2>1. u = << >> <=> n = 0  BY <1>6, <1>7
  <2>2. Last(u) = u[n]  BY <1>7 DEF Last
  <2> QED  BY <1>5, <2>1, <2>2 DEF Backward
<1>14. \A k \in Key : cache.table[k] # Nil =>
         cache.table[k] \in ToSet(u) /\ cache.key[cache.table[k]] = k
  BY <1>4, <1>7 DEF Indexed, ToSet
<1> QED  BY <1>3, <1>8, <1>9, <1>10, <1>11, <1>12, <1>13, <1>14 DEF ListsAreConsistent

\* After any sequence of insertions, look-ups, removals, evictions and added
\* blocks, in a cache of any capacity, every allocated element is on exactly
\* one of the two lists, the list of use is linked both ways, the table agrees
\* with it, and no CHECK of lru_cache.h has failed.
THEOREM ListsAreConsistentHolds == Spec => []ListsAreConsistent
BY CacheInvHolds, AddedHolds, InvConsistent, PTL

-----------------------------------------------------------------------------
(* Recycled elements.                                                      *)

\* Two keys never lead to one element.
LEMMA OneElementEach ==
  ASSUME NEW c, NEW u, NEW n, NEW f, NEW m, Shape(c, u, n, f, m),
         NEW x \in Key, NEW y \in Key, x # y, c.table[x] # Nil
  PROVE c.table[x] # c.table[y]
BY DEF Shape, Indexed

\* What an insertion does to the entries, whatever it writes.
LEMMA WritesEntries ==
  ASSUME CacheInv, NEW k \in Key, NEW v \in Value, Writes(k, v)
  PROVE /\ cache'.table[k] # Nil /\ cache'.value[cache'.table[k]] = v
        /\ \A x \in Key : x # k /\ cache'.table[x] # Nil =>
             /\ cache.table[x] # Nil
             /\ cache'.value[cache'.table[x]] = cache.value[cache.table[x]]
<1> DEFINE d == Inserted(k)
           b == [d EXCEPT !.value[d.table[k]] = v]
<1>1. PICK u, n, f, m : Shape(cache, u, n, f, m)  BY DEF CacheInv
<1>2. Holds(cache, d, k) /\ \E w, l, g, s : Shape(d, w, l, g, s)
  BY <1>1, InsertedHolds DEF CacheInv
<1>3. PICK w, l, g, s : Shape(d, w, l, g, s)  BY <1>2
<1>4. cache' = b  BY DEF Writes
<1> HIDE DEF d
<1>5. d.table[k] \in Elements /\ d.table[k] # Nil  BY <1>2, NilIsNoElement DEF Holds
<1>6. b.table = d.table /\ b.value = [d.value EXCEPT ![d.table[k]] = v]
  BY <1>3, <1>5, ValueKeeps
<1> HIDE DEF b
<1>7. d \in Caches  BY <1>3 DEF Shape, Lists
<1>8. d.value \in [Elements -> Value] /\ d.table \in [Key -> Pointers]
  BY <1>7, CacheFields
<1>9. b.value[d.table[k]] = v  BY <1>5, <1>6, <1>8
<1>10. ASSUME NEW x \in Key, x # k, d.table[x] # Nil
       PROVE cache.table[x] # Nil /\ b.value[d.table[x]] = cache.value[cache.table[x]]
  <2>1. d.table[x] = cache.table[x] /\ d.value = cache.value
    BY <1>2, <1>10 DEF Holds
  <2>2. d.table[x] # d.table[k]  BY <1>3, <1>10, OneElementEach
  <2>3. d.table[x] \in Elements  BY <1>8, <1>10 DEF Pointers
  <2>4. b.value[d.table[x]] = d.value[d.table[x]]  BY <1>6, <1>8, <2>2, <2>3
  <2> QED  BY <1>10, <2>1, <2>4
<1> QED  BY <1>4, <1>5, <1>6, <1>9, <1>10

\* Erase takes its key out of the table, Clear all of them.
LEMMA EraseEmpties ==
  ASSUME CacheInv, NEW k \in Key, Erase(k)
  PROVE cache'.table = [cache.table EXCEPT ![k] = Nil] /\ cache'.table[k] = Nil
        /\ cache'.value = cache.value
<1>1. PICK u, n, f, m : Shape(cache, u, n, f, m)  BY DEF CacheInv
<1>2. PICK i \in 1 .. n : u[i] = cache.table[k] /\ cache.key[u[i]] = k
  BY <1>1 DEF Erase, Shape, Indexed
<1> DEFINE d == Evict(cache, u[i])
<1>3. cache' = d  BY <1>2 DEF Erase
<1>4. d.table = [cache.table EXCEPT ![k] = Nil] /\ d.value = cache.value
  BY <1>1, <1>2, EvictKeeps
<1>5. cache.table \in [Key -> Pointers]  BY <1>1, CacheFields DEF Shape, Lists
<1> HIDE DEF d
<1> QED  BY <1>3, <1>4, <1>5

LEMMA ClearEmpties ==
  ASSUME CacheInv, Clear
  PROVE \A x \in Key : cache'.table[x] = Nil
<1>1. PICK u, n, f, m : Shape(cache, u, n, f, m)  BY DEF CacheInv
<1>2. max_elements \in Capacities  BY DEF CacheInv
<1>3. LruList = u  BY <1>1, <1>2, ShapeLists
<1> DEFINE d == Emptied(Freed(cache, u)[n])
<1>4. Len(u) = n /\ d.table = [x \in Key |-> Nil]  BY <1>1, ClearKeeps
<1>5. cache' = d  BY <1>3, <1>4 DEF Clear, Emptied
<1> HIDE DEF d
<1> QED  BY <1>4, <1>5

\* What the other methods do to them.
LEMMA OtherEntries ==
  ASSUME CacheInv, NEW k \in Key, MutableLookup(k) \/ Erase(k) \/ Clear \/ UNCHANGED vars
  PROVE \A x \in Key : cache'.table[x] # Nil =>
             /\ cache.table[x] # Nil
             /\ cache'.value[cache'.table[x]] = cache.value[cache.table[x]]
<1>1. PICK u, n, f, m : Shape(cache, u, n, f, m)  BY DEF CacheInv
<1>2. max_elements \in Capacities  BY DEF CacheInv
<1>3. CASE MutableLookup(k)
  <2>1. PICK i \in 1 .. n : u[i] = cache.table[k]
    BY <1>1, <1>3 DEF MutableLookup, Shape, Indexed
  <2>2. cache' = PushLRUHead(cache, u[i])  BY <1>3, <2>1 DEF MutableLookup
  <2>3. SameEntries(cache, PushLRUHead(cache, u[i]))  BY <1>1, MovedShape
  <2> QED  BY <2>2, <2>3 DEF SameEntries
<1>4. CASE Erase(k)
  <2>1. cache.table \in [Key -> Pointers]  BY <1>1, CacheFields DEF Shape, Lists
  <2> QED  BY <1>4, <2>1, EraseEmpties
<1>5. CASE Clear  BY <1>5, ClearEmpties
<1>6. CASE UNCHANGED vars  BY <1>6 DEF vars
<1> QED  BY <1>3, <1>4, <1>5, <1>6

LEMMA OwnDataNext ==
  ASSUME CacheInv, EntryHoldsOwnData, [Next]_vars
  PROVE EntryHoldsOwnData'
<1>0. Nil' = Nil  BY DEF Nil
<1>1. ASSUME NEW k \in Key, Insert(k) \/ LearnEntry(k) \/ AddHistoryEntry(k)
      PROVE EntryHoldsOwnData'
  <2>1. PICK v \in Value : Writes(k, v) /\ (v = k \/ k \in added')
    <3>1. k \in Present(cache) => Merged(Found(k), k) = k \/ k \in added
      <4>1. PICK u, n, f, m : Shape(cache, u, n, f, m)  BY DEF CacheInv
      <4>2. Holds(cache, Inserted(k), k)  BY <4>1, InsertedHolds DEF CacheInv
      <4>3. cache.table[k] # Nil => Found(k) = cache.value[cache.table[k]]
        BY <4>2 DEF Holds, Found
      <4> QED  BY <4>3 DEF EntryHoldsOwnData, Present, Merged
    <3>2. k \in Value /\ Merged(Found(k), k) \in Value  BY InsertWrites
    <3>3. ASSUME NEW v \in Value, Writes(k, v) PROVE k \in Present(cache')
      BY <3>3, <1>0, WritesEntries DEF Present
    <3>4. CASE Insert(k)  BY <3>2, <3>4, InsertWrites
    <3>5. CASE LearnEntry(k)
      <4>1. Writes(k, IF k \in Present(cache) THEN Merged(Found(k), k) ELSE k)
        BY <3>5, InsertWrites
      <4>2. added' = added \cap Present(cache')  BY <3>5 DEF LearnEntry
      <4> QED  BY <3>1, <3>2, <3>3, <4>1, <4>2
    <3>6. CASE AddHistoryEntry(k)
      <4>1. Writes(k, Merged(Found(k), k))  BY <3>6, InsertWrites
      <4>2. added' = (added \cup ({k} \ Present(cache))) \cap Present(cache')
        BY <3>6 DEF AddHistoryEntry
      <4> QED  BY <3>1, <3>2, <3>3, <4>1, <4>2
    <3> QED  BY <1>1, <3>4, <3>5, <3>6
  <2>2. /\ cache'.table[k] # Nil /\ cache'.value[cache'.table[k]] = v
        /\ \A x \in Key : x # k /\ cache'.table[x] # Nil =>
             /\ cache.table[x] # Nil
             /\ cache'.value[cache'.table[x]] = cache.value[cache.table[x]]
    BY <2>1, WritesEntries
  <2>3. \A x \in added : x # k /\ cache'.table[x] # Nil /\ x \in Key => x \in added'
    BY <1>0, <1>1 DEF Insert, LearnEntry, AddHistoryEntry, Present
  <2> QED  BY <1>0, <2>1, <2>2, <2>3 DEF EntryHoldsOwnData
<1>2. ASSUME NEW k \in Key, MutableLookup(k) \/ Erase(k) \/ Clear \/ UNCHANGED vars
      PROVE EntryHoldsOwnData'
  <2>1. \A x \in Key : cache'.table[x] # Nil =>
             /\ cache.table[x] # Nil
             /\ cache'.value[cache'.table[x]] = cache.value[cache.table[x]]
    BY <1>2, OtherEntries
  <2>2. \A x \in Key : cache'.table[x] # Nil /\ x \in added => x \in added'
    <3>1. CASE Erase(k)
      <4>1. cache'.table[k] = Nil  BY <3>1, EraseEmpties
      <4> QED  BY <3>1, <4>1 DEF Erase
    <3>2. CASE Clear  BY <3>2, ClearEmpties
    <3>3. CASE MutableLookup(k)  BY <3>3 DEF MutableLookup
    <3>4. CASE UNCHANGED vars  BY <3>4 DEF vars
    <3> QED  BY <1>2, <3>1, <3>2, <3>3, <3>4
  <2> QED  BY <1>0, <2>1, <2>2 DEF EntryHoldsOwnData
<1>3. Key = {} => EntryHoldsOwnData'  BY DEF EntryHoldsOwnData
<1> QED  BY <1>1, <1>2, <1>3 DEF Next

\* Although elements are recycled, what is found under a key is that key's
\* own data, unless AddHistoryEntry put the key in as a new one: loading and
\* learning rely on Insert giving a present key its own element back, and on
\* clearing what a new one gets.
THEOREM EntryHoldsOwnDataHolds == Spec => []EntryHoldsOwnData
<1>1. Init => EntryHoldsOwnData  BY DEF Init, EntryHoldsOwnData
<1>2. CacheInv /\ EntryHoldsOwnData /\ [Next]_vars => EntryHoldsOwnData'
  BY OwnDataNext
<1> QED  BY CacheInvHolds, <1>1, <1>2, PTL DEF Spec

-----------------------------------------------------------------------------
(* The abstract map: what its operations do to a list of keys.             *)

\* The equation that the abstract map's Rest is the solution of.
Rests(h, q, ks) ==
  h = [i \in 0 .. Len(q) |->
         IF i = 0 THEN << >>
         ELSE IF q[i] \in ks THEN h[i - 1] ELSE Append(h[i - 1], q[i])]

\* Whoever starts with nothing and keeps or drops one key at a time ends with
\* what the abstract map keeps.
LEMMA UnlinkedIs ==
  ASSUME NEW n \in Nat, NEW q \in [1 .. n -> Key], NEW ks, NEW g,
         g[0] = << >>,
         \A i \in 1 .. n :
           g[i] = IF q[i] \in ks THEN g[i - 1] ELSE Append(g[i - 1], q[i])
  PROVE Map!Unlinked(q, ks) = g[n]
<1>1. Len(q) = n  OBVIOUS
<1> DEFINE h == [i \in 0 .. n |-> g[i]]
           r == Map!Rest(q, ks)
<1>2. Rests(h, q, ks)
  <2> DEFINE b == [i \in 0 .. n |->
                     IF i = 0 THEN << >>
                     ELSE IF q[i] \in ks THEN h[i - 1] ELSE Append(h[i - 1], q[i])]
  <2>1. ASSUME NEW i \in 0 .. n PROVE h[i] = b[i]
    <3>1. CASE i = 0  BY <3>1
    <3>2. CASE i # 0
      <4>1. i \in 1 .. n /\ i - 1 \in 0 .. n  BY <3>2
      <4>2. h[i] = g[i] /\ h[i - 1] = g[i - 1]  BY <4>1
      <4> HIDE DEF h
      <4> QED  BY <3>2, <4>1, <4>2
    <3> QED  BY <3>1, <3>2
  <2>2. h = [i \in 0 .. n |-> h[i]]  OBVIOUS
  <2> HIDE DEF h
  <2>3. b = [i \in 0 .. n |-> b[i]]  OBVIOUS
  <2> HIDE DEF b
  <2>4. h = b  BY <2>1, <2>2, <2>3
  <2> QED  BY <1>1, <2>4 DEF Rests, b
<1>3. r = CHOOSE x : Rests(x, q, ks)  BY DEF Map!Rest, Rests
<1> HIDE DEF r, h
<1>4. Rests(r, q, ks)  BY <1>2, <1>3
<1>5. /\ r[0] = << >>
      /\ \A i \in 1 .. n :
           r[i] = IF q[i] \in ks THEN r[i - 1] ELSE Append(r[i - 1], q[i])
  <2> DEFINE b == [i \in 0 .. n |->
                     IF i = 0 THEN << >>
                     ELSE IF q[i] \in ks THEN r[i - 1] ELSE Append(r[i - 1], q[i])]
  <2>1. r = b  BY <1>1, <1>4 DEF Rests
  <2>2. /\ b[0] = << >>
        /\ \A i \in 1 .. n :
             b[i] = IF q[i] \in ks THEN r[i - 1] ELSE Append(r[i - 1], q[i])
    OBVIOUS
  <2> HIDE DEF b
  <2> QED  BY <2>1, <2>2
<1> DEFINE T == {i \in Nat : i <= n => r[i] = g[i]}
<1>6. 0 \in T  BY <1>5
<1>7. ASSUME NEW i \in Nat, i \in T PROVE i + 1 \in T
  <2> SUFFICES ASSUME i + 1 <= n PROVE r[i + 1] = g[i + 1]  OBVIOUS
  <2>1. i + 1 \in 1 .. n /\ (i + 1) - 1 = i /\ r[i] = g[i]  BY <1>7
  <2> QED  BY <1>5, <2>1
<1>8. Nat \subseteq T
  <2> HIDE DEF T
  <2> QED  BY <1>6, <1>7, NatSetInduction
<1>9. r[n] = g[n]  BY <1>8
<1> QED  BY <1>1, <1>9 DEF r, Map!Unlinked

\* The first keys of a list.
First(q, i) == [j \in 1 .. i |-> q[j]]

LEMMA FirstAppend ==
  ASSUME NEW n \in Nat, NEW q \in [1 .. n -> Key], NEW i \in 1 .. n
  PROVE Append(First(q, i - 1), q[i]) = First(q, i)
<1> DEFINE a == First(q, i - 1)
           b == Append(a, q[i])
<1>1. i - 1 \in Nat /\ (i - 1) + 1 = i /\ \A j \in 1 .. i : j \in 1 .. n  OBVIOUS
<1>2. a \in [1 .. i - 1 -> Key]  BY DEF First
<1>3. a \in Seq(Key) /\ Len(a) = i - 1  BY <1>1, <1>2
<1>4. \A j \in 1 .. i - 1 : a[j] = q[j]  BY DEF First
<1> HIDE DEF a
<1>5. b \in Seq(Key) /\ Len(b) = i /\ b[i] = q[i] /\ \A j \in 1 .. i - 1 : b[j] = a[j]
  BY <1>1, <1>3, AppendProperties
<1>6. DOMAIN b = 1 .. i /\ b = [j \in 1 .. i |-> b[j]]  BY <1>5
<1> HIDE DEF b
<1>7. \A j \in 1 .. i : b[j] = q[j]
  <2> TAKE j \in 1 .. i
  <2>1. j = i \/ j \in 1 .. i - 1  OBVIOUS
  <2> QED  BY <1>4, <1>5, <2>1
<1>8. b = First(q, i)  BY <1>6, <1>7 DEF First
<1> QED  BY <1>8 DEF a, b

\* The first none and the first n keys.
LEMMA FirstEnds ==
  ASSUME NEW n \in Nat, NEW q \in [1 .. n -> Key]
  PROVE First(q, 0) = << >> /\ First(q, n) = q
BY DEF First

\* Nothing goes.
LEMMA UnlinkNone ==
  ASSUME NEW n \in Nat, NEW q \in [1 .. n -> Key], NEW ks,
         \A i \in 1 .. n : q[i] \notin ks
  PROVE Map!Unlinked(q, ks) = q
<1> DEFINE g == [i \in 0 .. n |-> First(q, i)]
<1>1. g[0] = << >> /\ g[n] = q  BY FirstEnds
<1>2. \A i \in 1 .. n : g[i] = Append(g[i - 1], q[i])
  <2> TAKE i \in 1 .. n
  <2>1. g[i] = First(q, i) /\ g[i - 1] = First(q, i - 1)  OBVIOUS
  <2> HIDE DEF g
  <2> QED  BY <2>1, FirstAppend
<1> HIDE DEF g
<1>3. \A i \in 1 .. n :
        g[i] = IF q[i] \in ks THEN g[i - 1] ELSE Append(g[i - 1], q[i])
  BY <1>2
<1> QED  BY <1>1, <1>3, UnlinkedIs

\* Everything goes.
LEMMA UnlinkAll ==
  ASSUME NEW n \in Nat, NEW q \in [1 .. n -> Key], NEW ks,
         \A i \in 1 .. n : q[i] \in ks
  PROVE Map!Unlinked(q, ks) = << >>
<1> DEFINE g == [i \in 0 .. n |-> << >>]
<1>1. g[0] = << >> /\ g[n] = << >> /\ \A i \in 1 .. n : g[i] = g[i - 1]  OBVIOUS
<1> HIDE DEF g
<1>2. \A i \in 1 .. n :
        g[i] = IF q[i] \in ks THEN g[i - 1] ELSE Append(g[i - 1], q[i])
  BY <1>1
<1> QED  BY <1>1, <1>2, UnlinkedIs

\* One key goes.
LEMMA UnlinkOne ==
  ASSUME NEW n \in Nat, NEW q \in [1 .. n -> Key], NEW p \in 1 .. n,
         \A i, j \in 1 .. n : q[i] = q[j] => i = j
  PROVE Map!Unlinked(q, {q[p]}) = Without(q, n, p)
<1> DEFINE w == Without(q, n, p)
           g == [i \in 0 .. n |-> IF i < p THEN First(q, i) ELSE First(w, i - 1)]
<1>1. n - 1 \in Nat  OBVIOUS
<1>2. \A j \in 1 .. n - 1 : w[j] = IF j < p THEN q[j] ELSE q[j + 1]  BY DEF Without
<1>3. w \in [1 .. n - 1 -> Key]
  <2>1. \A j \in 1 .. n - 1 : j \in 1 .. n /\ j + 1 \in 1 .. n  OBVIOUS
  <2>2. \A j \in 1 .. n - 1 : w[j] \in Key
    <3> HIDE DEF w
    <3> QED  BY <1>2, <2>1
  <2>3. w = [j \in 1 .. n - 1 |-> w[j]]  BY DEF Without
  <2> HIDE DEF w
  <2> QED  BY <2>2, <2>3
<1> HIDE DEF w
<1>4. g[0] = << >>
  <2>1. 0 < p /\ 0 \in 0 .. n  OBVIOUS
  <2> QED  BY <2>1, FirstEnds
<1>5. g[n] = w
  <2>1. ~(n < p) /\ n \in 0 .. n  OBVIOUS
  <2>2. First(w, n - 1) = w  BY <1>1, <1>3, FirstEnds
  <2> QED  BY <2>1, <2>2
<1>6. ASSUME NEW i \in 1 .. n
      PROVE g[i] = IF q[i] \in {q[p]} THEN g[i - 1] ELSE Append(g[i - 1], q[i])
  <2>1. /\ g[i] = IF i < p THEN First(q, i) ELSE First(w, i - 1)
        /\ g[i - 1] = IF i - 1 < p THEN First(q, i - 1) ELSE First(w, (i - 1) - 1)
    OBVIOUS
  <2> HIDE DEF g
  <2>2. q[i] \in {q[p]} <=> i = p  OBVIOUS
  <2>3. CASE i < p
    <3>1. i - 1 < p /\ i # p  BY <2>3
    <3>2. Append(First(q, i - 1), q[i]) = First(q, i)  BY FirstAppend
    <3> QED  BY <2>1, <2>2, <2>3, <3>1, <3>2
  <2>4. CASE i = p
    <3>1. ~(i < p) /\ i - 1 < p  BY <2>4
    <3>2. \A j \in 1 .. i - 1 : w[j] = q[j]
      <4>1. \A j \in 1 .. i - 1 : j \in 1 .. n - 1 /\ j < p  BY <2>4
      <4> QED  BY <1>2, <4>1
    <3>3. First(w, i - 1) = First(q, i - 1)  BY <3>2 DEF First
    <3> QED  BY <2>1, <2>2, <2>4, <3>1, <3>3
  <2>5. CASE i > p
    <3>1. ~(i < p) /\ ~(i - 1 < p) /\ i # p /\ i - 1 \in 1 .. n - 1 /\ (i - 1) + 1 = i
      BY <2>5
    <3>2. w[i - 1] = q[i]  BY <1>2, <3>1
    <3>3. Append(First(w, (i - 1) - 1), w[i - 1]) = First(w, i - 1)
      BY <1>1, <1>3, <3>1, FirstAppend
    <3> QED  BY <2>1, <2>2, <3>1, <3>2, <3>3
  <2> QED  BY <2>3, <2>4, <2>5
<1> HIDE DEF g
<1>7. Map!Unlinked(q, {q[p]}) = g[n]  BY <1>4, <1>6, UnlinkedIs
<1> QED  BY <1>5, <1>7 DEF w

\* A key in front of a list.
LEMMA ConcatOne ==
  ASSUME NEW n \in Nat, NEW q \in [1 .. n -> Key], NEW k \in Key
  PROVE <<k>> \o q = Pushed(k, q, n)
<1> DEFINE a == <<k>> \o q
           b == Pushed(k, q, n)
<1>1. q \in Seq(Key) /\ Len(q) = n /\ <<k>> \in Seq(Key) /\ Len(<<k>>) = 1
      /\ <<k>>[1] = k
  OBVIOUS
<1>2. /\ a \in Seq(Key) /\ Len(a) = 1 + n
      /\ \A j \in 1 .. 1 + n : a[j] = IF j <= 1 THEN <<k>>[j] ELSE q[j - 1]
  BY <1>1, ConcatProperties
<1>3. DOMAIN a = 1 .. 1 + n /\ a = [j \in 1 .. 1 + n |-> a[j]]  BY <1>2
<1> HIDE DEF a
<1>4. 1 + n = n + 1  OBVIOUS
<1>5. \A j \in 1 .. n + 1 : a[j] = IF j = 1 THEN k ELSE q[j - 1]
  <2> TAKE j \in 1 .. n + 1
  <2>1. j <= 1 <=> j = 1  OBVIOUS
  <2> QED  BY <1>1, <1>2, <1>4, <2>1
<1>6. a = [j \in 1 .. n + 1 |-> IF j = 1 THEN k ELSE q[j - 1]]  BY <1>3, <1>4, <1>5
<1>7. a = b  BY <1>6 DEF Pushed
<1> QED  BY <1>7 DEF a

-----------------------------------------------------------------------------
(* The cache implements the abstract map.                                  *)

\* The keys of the elements of a list.
KeysOf(c, u, n) == [i \in 1 .. n |-> c.key[u[i]]]

\* What the abstract map sees of a cache with the used elements u.
Seen(u, n) ==
  /\ KeyOrder = KeysOf(cache, u, n)
  /\ KeysOf(cache, u, n) \in [1 .. n -> Key]
  /\ \A i, j \in 1 .. n : KeysOf(cache, u, n)[i] = KeysOf(cache, u, n)[j] => i = j
  /\ Map!Present = {x \in Key : cache.table[x] # Nil}

SeenAlways ==
  CacheInv => \A u, n, f, m : Shape(cache, u, n, f, m) => Seen(u, n)

LEMMA SeenHolds == SeenAlways
<1> SUFFICES ASSUME CacheInv, NEW u, NEW n, NEW f, NEW m, Shape(cache, u, n, f, m)
             PROVE Seen(u, n)
  BY DEF SeenAlways
<1> DEFINE q == KeysOf(cache, u, n)
<1>1. max_elements \in Capacities  BY DEF CacheInv
<1>2. LruList = u  BY <1>1, ShapeLists
<1>3. /\ Indexed(cache, u, n) /\ n \in Nat /\ u \in [1 .. n -> Elements]
      /\ \A i, j \in 1 .. n : u[i] = u[j] => i = j
  BY DEF Shape, Lists, Chain, Distinct
<1>4. DOMAIN u = 1 .. n  BY <1>3
<1>5. KeyOrder = q  BY <1>2, <1>4 DEF KeyOrder, KeysOf
<1>6. \A i \in 1 .. n : q[i] = cache.key[u[i]] /\ q[i] \in Key /\ cache.table[q[i]] = u[i]
  BY <1>3 DEF Indexed, KeysOf
<1>7. q = [i \in 1 .. n |-> q[i]] /\ DOMAIN q = 1 .. n  BY DEF KeysOf
<1> HIDE DEF q
<1>8. q \in [1 .. n -> Key]  BY <1>6, <1>7
<1>9. \A i, j \in 1 .. n : q[i] = q[j] => i = j  BY <1>3, <1>6
<1>10. Map!ToSet(q) = {q[i] : i \in 1 .. n}  BY <1>7 DEF Map!ToSet
<1>11. {q[i] : i \in 1 .. n} = {x \in Key : cache.table[x] # Nil}
  <2>1. ASSUME NEW i \in 1 .. n PROVE q[i] \in Key /\ cache.table[q[i]] # Nil
    BY <1>3, <1>6, NilIsNoElement
  <2>2. ASSUME NEW x \in Key, cache.table[x] # Nil PROVE \E i \in 1 .. n : q[i] = x
    <3>1. PICK i \in 1 .. n : u[i] = cache.table[x]  BY <1>3, <2>2 DEF Indexed
    <3>2. cache.key[u[i]] = x  BY <1>3, <2>2, <3>1 DEF Indexed
    <3> QED  BY <1>6, <3>2
  <2> QED  BY <2>1, <2>2
<1>12. Map!Present = {x \in Key : cache.table[x] # Nil}
  BY <1>5, <1>10, <1>11 DEF Map!Present
<1> QED  BY <1>5, <1>8, <1>9, <1>12 DEF Seen, q

LEMMA SeenNext == SeenAlways'
BY SeenHolds, PTL

\* The values of the abstract map after a step that may change that of k.
LEMMA SetsIs ==
  ASSUME CacheInv', NEW k \in Key, NEW v \in Value, cache'.table[k] # Nil,
         cache'.value[cache'.table[k]] = v,
         \A x \in Key : x # k /\ cache'.table[x] # Nil =>
           /\ cache.table[x] # Nil
           /\ cache'.value[cache'.table[x]] = cache.value[cache.table[x]]
  PROVE Map!Sets(k)
<1>1. PICK u, n, f, m : Shape(cache, u, n, f, m)'  BY DEF CacheInv
<1>2. Seen(u, n)'  BY <1>1, SeenNext DEF SeenAlways
<1> DEFINE P == {x \in Key : cache.table[x] # Nil}
           Q == {x \in Key : cache'.table[x] # Nil}
           old == [x \in P |-> cache.value[cache.table[x]]]
           new == [x \in Q |-> cache'.value[cache'.table[x]]]
<1>3. Map!ToSet(KeyOrder') = Q  BY <1>2 DEF Seen, Map!Present, Nil
<1>4. \A x \in Q : new[x] = IF x = k THEN v ELSE old[x]  OBVIOUS
<1>5. new = [x \in Q |-> IF x = k THEN v ELSE old[x]]
  <2>1. new = [x \in Q |-> new[x]]  OBVIOUS
  <2> HIDE DEF new, old, Q
  <2> QED  BY <1>4, <2>1
<1>6. new = [x \in Map!ToSet(KeyOrder') |-> IF x = k THEN v ELSE old[x]]
  <2> HIDE DEF new, old, Q
  <2> QED  BY <1>3, <1>5
<1> QED  BY <1>6 DEF Map!Sets, Nil, Present

\* The list r has the keys of the elements of w.
Matches(c, w, r, l) ==
  r \in [1 .. l -> Key] /\ \A j \in 1 .. l : c.key[w[j]] = r[j]

\* The keys after a step that puts the element e of k in front of w.
LEMMA OrderIs ==
  ASSUME CacheInv', NEW e, NEW w, NEW l \in Nat, NEW g, NEW s,
         Shape(cache, Pushed(e, w, l), l + 1, g, s)',
         NEW k \in Key, NEW r, cache'.key[e] = k, Matches(cache', w, r, l)
  PROVE KeyOrder' = <<k>> \o r
<1> DEFINE p == Pushed(e, w, l)
<1>0. r \in [1 .. l -> Key] /\ \A j \in 1 .. l : cache'.key[w[j]] = r[j]
  BY DEF Matches
<1>1. Seen(p, l + 1)'  BY SeenNext DEF SeenAlways
<1>2. KeyOrder' = [j \in 1 .. l + 1 |-> cache'.key[p[j]]]
  <2>1. p' = p  BY DEF Pushed
  <2> HIDE DEF p
  <2> QED  BY <1>1, <2>1 DEF Seen, KeysOf
<1>3. \A j \in 1 .. l + 1 : p[j] = IF j = 1 THEN e ELSE w[j - 1]  BY DEF Pushed
<1> HIDE DEF p
<1>4. \A j \in 1 .. l + 1 : cache'.key[p[j]] = IF j = 1 THEN k ELSE r[j - 1]
  <2> TAKE j \in 1 .. l + 1
  <2>1. CASE j = 1  BY <1>3, <2>1
  <2>2. CASE j # 1
    <3>1. j - 1 \in 1 .. l  BY <2>2
    <3> QED  BY <1>0, <1>3, <2>2, <3>1
  <2> QED  BY <2>1, <2>2
<1>5. KeyOrder' = [j \in 1 .. l + 1 |-> IF j = 1 THEN k ELSE r[j - 1]]
  BY <1>2, <1>4
<1>6. KeyOrder' = Pushed(k, r, l)  BY <1>5 DEF Pushed
<1> QED  BY <1>0, <1>6, ConcatOne

\* The keys of a list without its i-th element.
LEMMA KeysWithout ==
  ASSUME NEW c, NEW n \in Nat, NEW u \in [1 .. n -> Elements],
         NEW q \in [1 .. n -> Key], q = KeysOf(c, u, n), NEW i \in 1 .. n
  PROVE Matches(c, Without(u, n, i), Without(q, n, i), n - 1)
<1> DEFINE w == Without(q, n, i)
<1>1. \A j \in 1 .. n : q[j] = c.key[u[j]] /\ q[j] \in Key  BY DEF KeysOf
<1>2. \A j \in 1 .. n - 1 : w[j] = IF j < i THEN q[j] ELSE q[j + 1]  BY DEF Without
<1>3. \A j \in 1 .. n - 1 : Without(u, n, i)[j] = IF j < i THEN u[j] ELSE u[j + 1]
  BY DEF Without
<1>4. w = [j \in 1 .. n - 1 |-> w[j]]  BY DEF Without
<1>5. \A j \in 1 .. n - 1 : j \in 1 .. n /\ j + 1 \in 1 .. n  OBVIOUS
<1> HIDE DEF w
<1>6. \A j \in 1 .. n - 1 : w[j] \in Key  BY <1>1, <1>2, <1>5
<1>7. w \in [1 .. n - 1 -> Key]  BY <1>4, <1>6
<1>8. \A j \in 1 .. n - 1 : c.key[Without(u, n, i)[j]] = w[j]
  BY <1>1, <1>2, <1>3, <1>5
<1> QED  BY <1>7, <1>8 DEF w, Matches

\* A list without its last key.
LEMMA WithoutLast ==
  ASSUME NEW n \in Nat, NEW q \in [1 .. n -> Key], n > 0
  PROVE SubSeq(q, 1, n - 1) = Without(q, n, n) /\ Len(q) = n
<1>1. q \in Seq(Key) /\ Len(q) = n  OBVIOUS
<1>2. SubSeq(q, 1, n - 1) = [j \in 1 .. n - 1 |-> q[j]]
  <2> DEFINE a == SubSeq(q, 1, n - 1)
  <2>1. 1 \in 1 .. Len(q) + 1 /\ n - 1 \in 0 .. Len(q)  BY <1>1
  <2>2. a \in Seq(Key) /\ Len(a) = n - 1 /\ \A j \in 1 .. n - 1 : a[j] = q[j]
    BY <1>1, <2>1, SubSeqProperties
  <2>3. a = [j \in 1 .. n - 1 |-> a[j]]  BY <2>2
  <2> HIDE DEF a
  <2>4. a = [j \in 1 .. n - 1 |-> q[j]]  BY <2>2, <2>3
  <2> QED  BY <2>4 DEF a
<1>3. \A j \in 1 .. n - 1 : j < n  OBVIOUS
<1>4. Without(q, n, n) = [j \in 1 .. n - 1 |-> q[j]]  BY <1>3 DEF Without
<1> QED  BY <1>1, <1>2, <1>4

\* What an insertion leaves behind, with the value written.
LEMMA WritesShape ==
  ASSUME CacheInv, NEW k \in Key, NEW v \in Value, Writes(k, v),
         NEW w, NEW l, NEW g, NEW s, Shape(Inserted(k), w, l, g, s)
  PROVE Shape(cache, w, l, g, s)' /\ cache'.key = Inserted(k).key
<1> DEFINE d == Inserted(k)
           b == [d EXCEPT !.value[d.table[k]] = v]
<1>1. PICK u, n, f, m : Shape(cache, u, n, f, m)  BY DEF CacheInv
<1>2. Holds(cache, d, k)  BY <1>1, InsertedHolds DEF CacheInv
<1>3. cache' = b /\ max_elements' = max_elements  BY DEF Writes
<1> HIDE DEF d
<1>4. d.table[k] \in Elements  BY <1>2 DEF Holds
<1>5. Shape(d, w, l, g, s)  BY DEF d
<1>6. Shape(b, w, l, g, s) /\ b.key = d.key  BY <1>4, <1>5, ValueKeeps
<1> HIDE DEF b
<1>7. Shape(cache, w, l, g, s)'  BY <1>3, <1>6, ShapeNext
<1> QED  BY <1>3, <1>6, <1>7 DEF d

\* The keys after an insertion: k and what the abstract map keeps.
LEMMA InsertOrder ==
  ASSUME CacheInv, CacheInv', NEW k \in Key, NEW v \in Value, Writes(k, v)
  PROVE LET others == Map!Unlinked(KeyOrder, {k})
            kept == IF Len(others) = max_elements
                    THEN SubSeq(others, 1, Len(others) - 1) ELSE others IN
        KeyOrder' = <<k>> \o kept
<1> DEFINE d == Inserted(k)
<1>1. PICK u, n, f, m : Shape(cache, u, n, f, m)  BY DEF CacheInv
<1>2. max_elements \in Capacities /\ max_elements \in Nat /\ n <= max_elements
  BY <1>1, ShapeLists, CapacityAssumption DEF CacheInv
<1>3. Seen(u, n)  BY <1>1, SeenHolds DEF SeenAlways
<1>4. PICK q : q = KeysOf(cache, u, n)  OBVIOUS
<1>5. /\ KeyOrder = q /\ q \in [1 .. n -> Key]
      /\ \A i, j \in 1 .. n : q[i] = q[j] => i = j
  BY <1>3, <1>4 DEF Seen
<1>6. /\ cache \in Caches /\ Distinct(u, n) /\ n \in Nat /\ u \in [1 .. n -> Elements]
      /\ Indexed(cache, u, n) /\ \A i, j \in 1 .. n : u[i] = u[j] => i = j
  BY <1>1 DEF Shape, Lists, Chain, Distinct
<1>7. \A i \in 1 .. n : q[i] = cache.key[u[i]] /\ cache.table[q[i]] = u[i]
  BY <1>4, <1>6 DEF KeysOf, Indexed
<1>8. cache.key \in [Elements -> Key \cup {NoKey}]  BY <1>6, CacheFields
<1> DEFINE others == Map!Unlinked(q, {k})
           kept == IF Len(others) = max_elements
                   THEN SubSeq(others, 1, Len(others) - 1) ELSE others
<1>9. ASSUME cache.table[k] = Nil PROVE others = q /\ Len(q) = n
  <2>1. \A i \in 1 .. n : q[i] # k  BY <1>6, <1>7, <1>9, NilIsNoElement
  <2>2. \A i \in 1 .. n : q[i] \notin {k}  BY <2>1
  <2> QED  BY <1>5, <1>6, <2>2, UnlinkNone
<1>10. ASSUME NEW i, Renewed(cache, d, k, u, n, i) PROVE KeyOrder' = <<k>> \o kept
  <2> DEFINE w == Without(u, n, i)
             r == Without(q, n, i)
  <2>1. PICK g, s : Shape(d, Pushed(u[i], w, n - 1), n, g, s)  BY <1>10 DEF Renewed
  <2>2. i \in 1 .. n /\ cache.key[u[i]] = k /\ d.key = cache.key
    BY <1>10 DEF Renewed, SameEntries
  <2>3. Matches(cache, w, r, n - 1)
    BY <1>4, <1>5, <1>6, <2>2, KeysWithout
  <2>4. others = r /\ q[i] = k
    <3>1. q[i] = k  BY <1>7, <2>2
    <3>2. Map!Unlinked(q, {q[i]}) = r  BY <1>5, <1>6, <2>2, UnlinkOne
    <3> QED  BY <3>1, <3>2
  <2> HIDE DEF w, r, others
  <2>5. n - 1 \in Nat /\ (n - 1) + 1 = n  BY <1>6, <2>2
  <2>6. Len(r) = n - 1  BY <2>3, <2>5 DEF Matches
  <2>7. kept = r  BY <1>2, <1>6, <2>4, <2>6
  <2>8. /\ Shape(cache, Pushed(u[i], w, n - 1), n, g, s)' /\ cache'.key = d.key
    BY <2>1, WritesShape
  <2>9. Shape(cache, Pushed(u[i], w, n - 1), (n - 1) + 1, g, s)'  BY <2>5, <2>8
  <2>10. cache'.key[u[i]] = k /\ Matches(cache', w, r, n - 1)
    BY <2>2, <2>3, <2>8 DEF Matches
  <2>11. KeyOrder' = <<k>> \o r  BY <2>5, <2>9, <2>10, OrderIs
  <2> HIDE DEF kept
  <2> QED  BY <2>7, <2>11
<1>11. ASSUME NEW e, Added(cache, d, k, u, n, e) PROVE KeyOrder' = <<k>> \o kept
  <2>1. PICK g, s : Shape(d, Pushed(e, u, n), n + 1, g, s)  BY <1>11 DEF Added
  <2>2. /\ cache.table[k] = Nil /\ n < max_elements /\ e \in Elements /\ Off(e, u, n)
        /\ d.key = [cache.key EXCEPT ![e] = k]
    BY <1>11 DEF Added
  <2>3. others = q /\ Len(q) = n  BY <1>9, <2>2
  <2> HIDE DEF others
  <2>4. kept = q  BY <1>2, <1>6, <2>2, <2>3
  <2>5. Shape(cache, Pushed(e, u, n), n + 1, g, s)' /\ cache'.key = d.key
    BY <2>1, WritesShape
  <2>6. d.key[e] = k /\ \A j \in 1 .. n : d.key[u[j]] = cache.key[u[j]]
    BY <1>6, <1>8, <2>2 DEF Off
  <2>7. cache'.key[e] = k /\ Matches(cache', u, q, n)
    BY <1>5, <1>7, <2>5, <2>6 DEF Matches
  <2>8. KeyOrder' = <<k>> \o q  BY <1>6, <2>5, <2>7, OrderIs
  <2> HIDE DEF kept
  <2> QED  BY <2>4, <2>8
<1>12. ASSUME Replaced(cache, d, k, u, n) PROVE KeyOrder' = <<k>> \o kept
  <2> DEFINE w == Without(u, n, n)
             r == Without(q, n, n)
  <2>1. PICK g, s : Shape(d, Pushed(u[n], w, n - 1), n, g, s)  BY <1>12 DEF Replaced
  <2>2. /\ cache.table[k] = Nil /\ n = max_elements /\ n > 0
        /\ d.key = [cache.key EXCEPT ![u[n]] = k]
    BY <1>12 DEF Replaced
  <2>3. others = q /\ Len(q) = n  BY <1>9, <2>2
  <2>4. n \in 1 .. n /\ n - 1 \in Nat /\ (n - 1) + 1 = n  BY <1>6, <2>2
  <2>5. SubSeq(q, 1, n - 1) = r  BY <1>5, <1>6, <2>2, WithoutLast
  <2>6. Matches(cache, w, r, n - 1)
    BY <1>4, <1>5, <1>6, <2>4, KeysWithout
  <2>7. Distinct(w, n - 1) /\ Off(u[n], w, n - 1)  BY <1>6, <2>4, WithoutFacts
  <2> HIDE DEF w, r, others
  <2>8. kept = r  BY <2>2, <2>3, <2>5
  <2>9. /\ Shape(cache, Pushed(u[n], w, n - 1), n, g, s)' /\ cache'.key = d.key
    BY <2>1, WritesShape
  <2>10. Shape(cache, Pushed(u[n], w, n - 1), (n - 1) + 1, g, s)'  BY <2>4, <2>9
  <2>11. d.key[u[n]] = k /\ \A j \in 1 .. n - 1 : d.key[w[j]] = cache.key[w[j]]
    BY <1>6, <1>8, <2>2, <2>4, <2>7 DEF Off, Distinct
  <2>12. cache'.key[u[n]] = k /\ Matches(cache', w, r, n - 1)
    BY <2>6, <2>9, <2>11 DEF Matches
  <2>13. KeyOrder' = <<k>> \o r  BY <2>4, <2>10, <2>12, OrderIs
  <2> HIDE DEF kept
  <2> QED  BY <2>8, <2>13
<1>13. KeyOrder' = <<k>> \o kept
  <2> HIDE DEF d, kept
  <2>1. CASE cache.table[k] # Nil
    <3>1. \E i : Renewed(cache, d, k, u, n, i)  BY <1>1, <1>2, <2>1, InsertPresent DEF d
    <3> QED  BY <1>10, <3>1
  <2>2. CASE cache.table[k] = Nil
    <3>1. (\E e : Added(cache, d, k, u, n, e)) \/ Replaced(cache, d, k, u, n)
      BY <1>1, <1>2, <2>2, InsertAbsent DEF d
    <3> QED  BY <1>11, <1>12, <3>1
  <2> QED  BY <2>1, <2>2
<1> QED  BY <1>5, <1>13

LEMMA InsertIsMapStep ==
  ASSUME CacheInv, CacheInv', NEW k \in Key, NEW v \in Value, Writes(k, v)
  PROVE Map!Insert(k)
<1> DEFINE others == Map!Unlinked(KeyOrder, {k})
<1>1. Map!Sets(k)
  <2>1. /\ cache'.table[k] # Nil /\ cache'.value[cache'.table[k]] = v
        /\ \A x \in Key : x # k /\ cache'.table[x] # Nil =>
             /\ cache.table[x] # Nil
             /\ cache'.value[cache'.table[x]] = cache.value[cache.table[x]]
    BY WritesEntries
  <2> QED  BY <2>1, SetsIs
<1>2. KeyOrder' = <<k>> \o (IF Len(others) = max_elements
                           THEN SubSeq(others, 1, Len(others) - 1) ELSE others)
  BY InsertOrder
<1>3. Map!Front(others) = SubSeq(others, 1, Len(others) - 1)  BY DEF Map!Front
<1>4. max_elements' = max_elements  BY DEF Writes
<1>5. KeyOrder' = <<k>> \o (IF Len(others) = max_elements
                           THEN Map!Front(others) ELSE others)
  BY <1>2, <1>3
<1> QED  BY <1>1, <1>4, <1>5 DEF Map!Insert

\* A look-up uses its key.
LEMMA LookupIsMapStep ==
  ASSUME CacheInv, CacheInv', NEW k \in Key, MutableLookup(k)
  PROVE Map!Use(k)
<1>1. PICK u, n, f, m : Shape(cache, u, n, f, m)  BY DEF CacheInv
<1>2. cache.table[k] # Nil /\ max_elements' = max_elements  BY DEF MutableLookup
<1>3. PICK i \in 1 .. n : u[i] = cache.table[k] /\ cache.key[u[i]] = k
  BY <1>1, <1>2 DEF Shape, Indexed
<1> DEFINE d == PushLRUHead(cache, u[i])
           w == Without(u, n, i)
<1>4. cache' = d  BY <1>3 DEF MutableLookup
<1>5. Shape(d, Pushed(u[i], w, n - 1), n, f, m) /\ SameEntries(cache, d)
  BY <1>1, MovedShape
<1> HIDE DEF d
<1>6. /\ cache \in Caches /\ n \in Nat /\ u \in [1 .. n -> Elements]
  BY <1>1 DEF Shape, Lists, Chain, Distinct
<1>7. Seen(u, n)  BY <1>1, SeenHolds DEF SeenAlways
<1>8. PICK q : q = KeysOf(cache, u, n)  OBVIOUS
<1>9. /\ KeyOrder = q /\ q \in [1 .. n -> Key] /\ q[i] = k
      /\ \A x, j \in 1 .. n : q[x] = q[j] => x = j
      /\ Map!Present = {x \in Key : cache.table[x] # Nil}
  BY <1>3, <1>7, <1>8 DEF Seen, KeysOf
<1> DEFINE r == Without(q, n, i)
<1>10. Matches(cache, w, r, n - 1)
  BY <1>6, <1>8, <1>9, KeysWithout
<1>11. Map!Unlinked(KeyOrder, {k}) = r
  <2>1. Map!Unlinked(q, {q[i]}) = r  BY <1>6, <1>9, UnlinkOne
  <2> HIDE DEF r
  <2> QED  BY <1>9, <2>1
<1> HIDE DEF w, r
<1>12. KeyOrder' = <<k>> \o r
  <2>1. n - 1 \in Nat /\ (n - 1) + 1 = n  BY <1>6
  <2>2. Shape(d, Pushed(u[i], w, n - 1), (n - 1) + 1, f, m)  BY <1>5, <2>1
  <2>3. Shape(cache, Pushed(u[i], w, n - 1), (n - 1) + 1, f, m)'
    BY <1>2, <1>4, <2>2, ShapeNext
  <2>4. cache'.key[u[i]] = k /\ Matches(cache', w, r, n - 1)
    BY <1>3, <1>4, <1>5, <1>10 DEF SameEntries, Matches
  <2> QED  BY <2>1, <2>3, <2>4, OrderIs
<1>13. Map!Sets(k)
  <2>1. cache'.table = cache.table /\ cache'.value = cache.value
    BY <1>4, <1>5 DEF SameEntries
  <2>2. cache.value[cache.table[k]] \in Value
    <3>1. cache.value \in [Elements -> Value] /\ cache.table[k] \in Elements
      BY <1>3, <1>6, CacheFields
    <3> QED  BY <3>1
  <2> QED  BY <1>2, <2>1, <2>2, SetsIs
<1>14. k \in Map!Present  BY <1>2, <1>9
<1> QED  BY <1>2, <1>11, <1>12, <1>13, <1>14 DEF Map!Use

\* The values of the abstract map after a step that removes the keys of ks.
LEMMA DropsIs ==
  ASSUME CacheInv, NEW ks, ks \subseteq Map!Present,
         \A x \in Key : cache'.table[x] # Nil <=> cache.table[x] # Nil /\ x \notin ks,
         \A x \in Key : cache'.table[x] # Nil =>
           cache'.value[cache'.table[x]] = cache.value[cache.table[x]],
         KeyOrder' = Map!Unlinked(KeyOrder, ks), max_elements' = max_elements
  PROVE Map!Erase
<1>1. PICK u, n, f, m : Shape(cache, u, n, f, m)  BY DEF CacheInv
<1>2. Seen(u, n)  BY <1>1, SeenHolds DEF SeenAlways
<1> DEFINE P == {x \in Key : cache.table[x] # Nil}
           Q == {x \in Key : cache'.table[x] # Nil}
           old == [x \in P |-> cache.value[cache.table[x]]]
           new == [x \in Q |-> cache'.value[cache'.table[x]]]
<1>3. Map!Present = P  BY <1>2 DEF Seen
<1>4. Q = P \ ks  OBVIOUS
<1>5. \A x \in Q : new[x] = old[x]  OBVIOUS
<1>6. new = [x \in Map!Present \ ks |-> old[x]]
  <2>1. new = [x \in Q |-> new[x]]  OBVIOUS
  <2> HIDE DEF new, old, Q, P
  <2> QED  BY <1>3, <1>4, <1>5, <2>1
<1> QED  BY <1>6 DEF Map!Erase, Nil, Present

LEMMA EraseIsMapStep ==
  ASSUME CacheInv, CacheInv', NEW k \in Key, Erase(k)
  PROVE Map!Erase
<1>1. PICK u, n, f, m : Shape(cache, u, n, f, m)  BY DEF CacheInv
<1>2. cache.table[k] # Nil /\ max_elements' = max_elements  BY DEF Erase
<1>3. PICK i \in 1 .. n : u[i] = cache.table[k] /\ cache.key[u[i]] = k
  BY <1>1, <1>2 DEF Shape, Indexed
<1> DEFINE d == Evict(cache, u[i])
           w == Without(u, n, i)
           g == Pushed(u[i], f, m)
<1>4. cache' = d  BY <1>3 DEF Erase
<1>5. /\ Shape(d, w, n - 1, g, m + 1) /\ d.table = [cache.table EXCEPT ![k] = Nil]
      /\ d.key = cache.key /\ d.value = cache.value
  BY <1>1, <1>3, EvictKeeps
<1> HIDE DEF d, g
<1>6. /\ cache \in Caches /\ n \in Nat /\ u \in [1 .. n -> Elements]
  BY <1>1 DEF Shape, Lists, Chain, Distinct
<1>7. Seen(u, n)  BY <1>1, SeenHolds DEF SeenAlways
<1>8. PICK q : q = KeysOf(cache, u, n)  OBVIOUS
<1>9. /\ KeyOrder = q /\ q \in [1 .. n -> Key] /\ q[i] = k
      /\ \A x, j \in 1 .. n : q[x] = q[j] => x = j
      /\ Map!Present = {x \in Key : cache.table[x] # Nil}
  BY <1>3, <1>7, <1>8 DEF Seen, KeysOf
<1> DEFINE r == Without(q, n, i)
<1>10. Matches(cache, w, r, n - 1)  BY <1>6, <1>8, <1>9, KeysWithout
<1>11. Map!Unlinked(KeyOrder, {k}) = r
  <2>1. Map!Unlinked(q, {q[i]}) = r  BY <1>6, <1>9, UnlinkOne
  <2> HIDE DEF r
  <2> QED  BY <1>9, <2>1
<1>12. w' = w  BY DEF Without
<1> HIDE DEF w, r
<1>13. KeyOrder' = r
  <2>1. Shape(cache, w, n - 1, g, m + 1)'  BY <1>2, <1>4, <1>5, ShapeNext
  <2>2. Seen(w, n - 1)'  BY <2>1, SeenNext DEF SeenAlways
  <2>3. KeyOrder' = [j \in 1 .. n - 1 |-> cache'.key[w[j]]]
    BY <1>12, <2>2 DEF Seen, KeysOf
  <2>4. \A j \in 1 .. n - 1 : cache'.key[w[j]] = r[j]
    BY <1>4, <1>5, <1>10 DEF Matches
  <2>5. KeyOrder' = [j \in 1 .. n - 1 |-> r[j]]  BY <2>3, <2>4
  <2>6. r = [j \in 1 .. n - 1 |-> r[j]]  BY <1>10 DEF Matches
  <2> QED  BY <2>5, <2>6
<1>14. cache.table \in [Key -> Pointers]  BY <1>6, CacheFields
<1>15. \A x \in Key : cache'.table[x] # Nil <=> cache.table[x] # Nil /\ x \notin {k}
  BY <1>4, <1>5, <1>14
<1>16. \A x \in Key : cache'.table[x] # Nil =>
         cache'.value[cache'.table[x]] = cache.value[cache.table[x]]
  BY <1>4, <1>5, <1>14
<1>17. {k} \subseteq Map!Present  BY <1>2, <1>9
<1> QED  BY <1>2, <1>11, <1>13, <1>15, <1>16, <1>17, DropsIs

LEMMA ClearIsMapStep ==
  ASSUME CacheInv, CacheInv', Clear
  PROVE Map!Erase
<1>1. PICK u, n, f, m : Shape(cache, u, n, f, m)  BY DEF CacheInv
<1>2. max_elements \in Capacities  BY DEF CacheInv
<1>3. LruList = u  BY <1>1, <1>2, ShapeLists
<1> DEFINE d == Emptied(Freed(cache, u)[n])
<1>4. /\ Len(u) = n /\ d.table = [k \in Key |-> Nil]
      /\ \E g, s : Shape(d, None, 0, g, s)
  BY <1>1, ClearKeeps
<1>5. cache' = d /\ max_elements' = max_elements
  BY <1>3, <1>4 DEF Clear, Emptied
<1> HIDE DEF d
<1>6. PICK g, s : Shape(d, None, 0, g, s)  BY <1>4
<1>7. KeyOrder' = << >>
  <2>1. Shape(cache, None, 0, g, s)'  BY <1>5, <1>6, ShapeNext DEF None, Nil
  <2>2. Seen(None, 0)'  BY <2>1, SeenNext DEF SeenAlways
  <2>3. KeyOrder' = [j \in 1 .. 0 |-> cache'.key[None'[j]]]
    BY <2>2 DEF Seen, KeysOf
  <2> QED  BY <2>3
<1>8. Seen(u, n)  BY <1>1, SeenHolds DEF SeenAlways
<1>9. PICK q : q = KeysOf(cache, u, n)  OBVIOUS
<1>10. /\ KeyOrder = q /\ q \in [1 .. n -> Key]
       /\ Map!Present = {x \in Key : cache.table[x] # Nil}
  BY <1>8, <1>9 DEF Seen
<1>11. PICK ks : ks = Map!Present  OBVIOUS
<1>12. Map!Unlinked(KeyOrder, ks) = << >>
  <2>1. n \in Nat  BY <1>1 DEF Shape, Lists, Chain, Distinct
  <2>2. Map!ToSet(q) = ks  BY <1>10, <1>11 DEF Map!Present
  <2>3. \A i \in 1 .. n : q[i] \in ks  BY <1>10, <2>2 DEF Map!ToSet
  <2>4. Map!Unlinked(q, ks) = << >>  BY <1>10, <2>1, <2>3, UnlinkAll
  <2> QED  BY <1>10, <2>4
<1>13. \A x \in Key : cache'.table[x] = Nil  BY <1>4, <1>5
<1>14. \A x \in Key : cache'.table[x] # Nil <=> cache.table[x] # Nil /\ x \notin ks
  BY <1>10, <1>11, <1>13
<1>15. \A x \in Key : cache'.table[x] # Nil =>
         cache'.value[cache'.table[x]] = cache.value[cache.table[x]]
  BY <1>13
<1>16. ks \subseteq Map!Present /\ KeyOrder' = Map!Unlinked(KeyOrder, ks)
  BY <1>7, <1>11, <1>12
<1> QED  BY <1>5, <1>14, <1>15, <1>16, DropsIs

\* Every method of the container is one operation of a bounded map with a
\* least-recently-used order, whichever element, block or pointer it touches;
\* only an insertion of a new key into a full cache evicts, and what it evicts
\* is the key that was not used for the longest time.
THEOREM ImplementsLruMapHolds == Spec => ImplementsLruMap
<1>1. Init => Map!Init
  <2> SUFFICES ASSUME Init PROVE Map!Init  OBVIOUS
  <2>1. CacheInv  BY InitCacheInv
  <2>2. PICK u, n, f, m : Shape(cache, u, n, f, m)  BY <2>1 DEF CacheInv
  <2>3. Seen(u, n)  BY <2>1, <2>2, SeenHolds DEF SeenAlways
  <2>4. \A x \in Key : cache.table[x] = Nil  BY DEF Init
  <2>5. KeyOrder = << >>
    <3>1. n \in Nat /\ Indexed(cache, u, n) /\ u \in [1 .. n -> Elements]
      BY <2>2 DEF Shape, Lists, Chain, Distinct
    <3>2. \A i \in 1 .. n : FALSE
      <4> SUFFICES ASSUME NEW i \in 1 .. n PROVE FALSE  OBVIOUS
      <4>1. cache.key[u[i]] \in Key /\ cache.table[cache.key[u[i]]] = u[i]
        BY <3>1 DEF Indexed
      <4> QED  BY <2>4, <3>1, <4>1, NilIsNoElement
    <3>3. n = 0  BY <3>1, <3>2
    <3>4. KeyOrder = [i \in 1 .. 0 |-> cache.key[u[i]]]
      BY <2>3, <3>3 DEF Seen, KeysOf
    <3> QED  BY <3>4
  <2>6. [k \in {x \in Key : cache.table[x] # Nil} |-> cache.value[cache.table[k]]]
          = [k \in {} |-> k]
    <3>1. {x \in Key : cache.table[x] # Nil} = {}  BY <2>4
    <3> QED  BY <3>1
  <2>7. max_elements \in Nat \ {0}  BY CapacityAssumption DEF Init
  <2> QED  BY <2>5, <2>6, <2>7 DEF Map!Init, Present
<1>2. CacheInv /\ CacheInv' /\ [Next]_vars => [Map!Next]_(Map!vars)
  <2> SUFFICES ASSUME CacheInv, CacheInv', [Next]_vars
               PROVE [Map!Next]_(Map!vars)
    OBVIOUS
  <2>1. ASSUME NEW k \in Key, Insert(k) \/ LearnEntry(k) \/ AddHistoryEntry(k)
        PROVE Map!Next
    <3>1. PICK v \in Value : Writes(k, v)
      <4>1. k \in Value /\ Merged(Found(k), k) \in Value  BY InsertWrites
      <4>2. (IF k \in Present(cache) THEN Merged(Found(k), k) ELSE k) \in Value
        BY <4>1
      <4> QED  BY <2>1, <4>1, <4>2, InsertWrites
    <3>2. Map!Insert(k)  BY <3>1, InsertIsMapStep
    <3> QED  BY <3>2 DEF Map!Next
  <2>2. ASSUME NEW k \in Key, MutableLookup(k) PROVE Map!Next
    <3>1. Map!Use(k)  BY <2>2, LookupIsMapStep
    <3> QED  BY <3>1 DEF Map!Next
  <2>3. ASSUME NEW k \in Key, Erase(k) PROVE Map!Next
    <3>1. Map!Erase  BY <2>3, EraseIsMapStep
    <3> QED  BY <3>1 DEF Map!Next
  <2>4. ASSUME Clear PROVE Map!Next
    <3>1. Map!Erase  BY <2>4, ClearIsMapStep
    <3> QED  BY <3>1 DEF Map!Next
  <2>5. CASE UNCHANGED vars
    <3>1. max_elements' = max_elements /\ cache' = cache  BY <2>5 DEF vars
    <3>2. KeyOrder' = KeyOrder
      BY <3>1 DEF KeyOrder, LruList, List, Walk, Nil
    <3> QED  BY <3>1, <3>2 DEF Map!vars, Nil, Present
  <2> QED  BY <2>1, <2>2, <2>3, <2>4, <2>5 DEF Next
<1> QED  BY CacheInvHolds, <1>1, <1>2, PTL DEF Spec, ImplementsLruMap, Map!Spec
=============================================================================

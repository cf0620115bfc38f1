-------------------------- MODULE GpuWorkerProofs --------------------------
(* Theorems about GpuWorker for every width of a limb, every digest, every *)
(* size of a launch and every order of its work items.                     *)
EXTENDS GpuWorker, FiniteSetTheorems, SequenceTheorems, TLAPS

-----------------------------------------------------------------------------
(* What comprehensions keep.                                               *)

\* A set of numbers that is not empty has a smallest.
LEMMA Least ==
    ASSUME NEW T, T \subseteq Nat, T # {}
    PROVE  \E x \in T : \A y \in T : x <= y
<1>. DEFINE R == StrictSubsetOrdering(Nat)
            U == {0..x : x \in T}
<1>1. U \subseteq FiniteSubsetsOf(Nat) /\ U # {}
  <2>1. \A x \in T : 0..x \in SUBSET Nat /\ IsFiniteSet(0..x)
    BY FS_Interval
  <2>. QED  BY <2>1 DEF FiniteSubsetsOf
<1>2. IsWellFoundedOn(R, FiniteSubsetsOf(Nat))
  BY FS_StrictSubsetOrderingWellFounded
<1>. HIDE DEF R
<1>3. PICK u \in U : \A v \in U : <<v, u>> \notin R
  BY <1>1, <1>2, WFMin
<1>4. PICK x \in T : u = 0..x
  OBVIOUS
<1>5. ASSUME NEW y \in T, y < x PROVE FALSE
  <2>1. 0..y \in U /\ 0..y \subseteq 0..x /\ x \in 0..x /\ x \notin 0..y
    BY <1>5
  <2>2. 0..y \in SUBSET Nat /\ 0..x \in SUBSET Nat
    OBVIOUS
  <2>3. << 0..y, 0..x >> \in R
    BY <2>1, <2>2 DEF R, StrictSubsetOrdering
  <2>. QED  BY <1>3, <1>4, <2>1, <2>3
<1>. QED  BY <1>5

\* Places of a finite set can be put in order: else there were a smallest set whose places
\* cannot, and put before the order of the others its smallest place.
LEMMA CanAscend ==
    ASSUME NEW S, S \subseteq Nat, IsFiniteSet(S)
    PROVE  Ascending(S) # {}
<1>. DEFINE R == StrictSubsetOrdering(Nat)
            Bad == {X \in FiniteSubsetsOf(Nat) : Ascending(X) = {}}
<1>. SUFFICES ASSUME Bad # {} PROVE FALSE
  BY DEF FiniteSubsetsOf
<1>1. IsWellFoundedOn(R, FiniteSubsetsOf(Nat))
  BY FS_StrictSubsetOrderingWellFounded
<1>. HIDE DEF R
<1>2. PICK X \in Bad : \A Y \in Bad : <<Y, X>> \notin R
  BY <1>1, WFMin
<1>3. X \subseteq Nat /\ IsFiniteSet(X) /\ Ascending(X) = {}
  BY DEF FiniteSubsetsOf
<1>4. X # {}
  <2>. SUFFICES ASSUME X = {} PROVE FALSE
    OBVIOUS
  <2>1. Cardinality(X) = 0
    BY FS_EmptySet
  <2>. DEFINE none == [k \in 1..0 |-> 0]
  <2>2. none \in [1..0 -> X] /\ \A k \in 1..0 : FALSE
    OBVIOUS
  <2>3. none \in Ascending(X)
    BY <2>1, <2>2 DEF Ascending
  <2>. QED  BY <1>3, <2>3
<1>5. PICK x \in X : \A y \in X : x <= y
  BY <1>3, <1>4, Least
<1>. DEFINE Y == X \ {x}
            m == Cardinality(Y)
<1>6. IsFiniteSet(Y) /\ m \in Nat /\ Cardinality(X) = m + 1
  <2>1. IsFiniteSet(Y) /\ Cardinality(Y) = Cardinality(X) - 1
    BY <1>3, FS_RemoveElement
  <2>2. Cardinality(Y) \in Nat /\ Cardinality(X) \in Nat
    BY <1>3, <2>1, FS_CardinalityType
  <2>. QED  BY <2>1, <2>2
<1>7. <<Y, X>> \in R
  BY <1>3 DEF R, StrictSubsetOrdering
<1>8. PICK order \in Ascending(Y) : TRUE
  BY <1>2, <1>3, <1>6, <1>7 DEF FiniteSubsetsOf
<1>9. order \in [1..m -> Y] /\ \A j, k \in 1..m : j < k => order[j] < order[k]
  BY <1>8 DEF Ascending
<1>. HIDE DEF m
<1>. DEFINE next == [k \in 1..(m + 1) |-> IF k = 1 THEN x ELSE order[k - 1]]
<1>10. \A k \in 1..(m + 1) : k # 1 => k - 1 \in 1..m /\ next[k] = order[k - 1] /\ next[k] \in Y
  BY <1>6, <1>9
<1>11. next[1] = x
  BY <1>6
<1>12. next \in [1..(m + 1) -> X]
  BY <1>10, <1>11
<1>. HIDE DEF next
<1>13. ASSUME NEW j \in 1..(m + 1), NEW k \in 1..(m + 1), j < k PROVE next[j] < next[k]
  <2>1. k # 1 /\ next[k] \in Y
    BY <1>10, <1>13
  <2>2. CASE j = 1
    <3>1. x <= next[k] /\ x # next[k] /\ next[k] \in Nat /\ x \in Nat
      BY <1>3, <1>5, <2>1
    <3>. QED  BY <1>11, <2>2, <3>1
  <2>3. CASE j # 1
    <3>1. j - 1 < k - 1
      BY <1>6, <1>13
    <3>. QED  BY <1>9, <1>10, <2>1, <2>3, <3>1
  <2>. QED  BY <2>2, <2>3
<1>14. next \in Ascending(X)
  BY <1>6, <1>12, <1>13 DEF Ascending
<1>. QED  BY <1>3, <1>14

\* What is kept of a list is a list of things of the list.
LEMMA InOrderType ==
    ASSUME NEW T, NEW list \in Seq(T), NEW S, S \subseteq 1..Len(list)
    PROVE  /\ InOrder(list, S) \in Seq(T)
           /\ InOrder(list, S) = <<>> <=> S = {}
<1>. DEFINE order == CHOOSE o \in Ascending(S) : TRUE
            m == Cardinality(S)
<1>1. IsFiniteSet(S) /\ S \subseteq Nat /\ m \in Nat
  <2>1. IsFiniteSet(1..Len(list)) /\ 1..Len(list) \subseteq Nat
    BY FS_Interval
  <2>2. IsFiniteSet(S)
    BY <2>1, FS_Subset
  <2>. QED  BY <2>1, <2>2, FS_CardinalityType
<1>2. order \in Ascending(S)
  BY <1>1, CanAscend
<1>3. order \in [1..m -> S]
  BY <1>2 DEF Ascending
<1>. HIDE DEF order
<1>4. InOrder(list, S) = [k \in 1..m |-> list[order[k]]]
  BY DEF InOrder, order
<1>5. \A k \in 1..m : list[order[k]] \in T
  <2>1. \A k \in 1..m : order[k] \in 1..Len(list)
    BY <1>3
  <2>. QED  BY <2>1, ElementOfSeq
<1>6. m = 0 <=> S = {}
  BY <1>1, FS_EmptySet
<1>. HIDE DEF m
<1>7. InOrder(list, S) \in Seq(T) /\ Len(InOrder(list, S)) = m
  BY <1>1, <1>4, <1>5
<1>. QED  BY <1>1, <1>6, <1>7

\* What is selected are devices of the machine (gpu.py:90-105).
LEMMA SelectedType ==
    ASSUME NEW T, NEW devs \in Seq(T), NEW spec \in {All} \union Seq(Int),
           spec # All => Selectable(devs, spec)
    PROVE  SelectDevices(devs, spec) \in Seq(T)
<1>1. CASE spec = All
  <2>1. InOrder(devs, {k \in 1..Len(devs) : devs[k].gpu}) \in Seq(T)
    BY InOrderType
  <2>. QED  BY <1>1, <2>1 DEF SelectDevices
<1>2. CASE spec # All
  <2>. DEFINE place(k) == CHOOSE x \in 1..Len(devs) : devs[x].index = spec[k]
  <2>1. \A k \in 1..Len(spec) : place(k) \in 1..Len(devs)
    BY <1>2 DEF Selectable
  <2>2. \A k \in 1..Len(spec) : devs[place(k)] \in T
    BY <2>1, ElementOfSeq
  <2>. HIDE DEF place
  <2>3. [k \in 1..Len(spec) |-> devs[place(k)]] \in Seq(T)
    BY <1>2, <2>2
  <2>. QED  BY <1>2, <2>3 DEF SelectDevices, place
<1>. QED  BY <1>1, <1>2

-----------------------------------------------------------------------------
(* Words and limbs.                                                        *)

Digits == 0..(Limb - 1)

IsWord(l) == l[1] \in Digits /\ l[2] \in Digits /\ l[3] \in Digits /\ l[4] \in Digits

\* Quotient and remainder by the limb.
LEMMA LimbDivision ==
    ASSUME NEW x \in Nat
    PROVE  x = (x % Limb) + Limb * (x \div Limb) /\ x % Limb \in Digits /\ x \div Limb \in Nat
BY GpuAssumption DEF Digits

\* Two numbers compare by their quotients, and by their remainders where these are equal.
LEMMA LimbCompare ==
    ASSUME NEW x \in Digits, NEW y \in Digits, NEW p \in Nat, NEW q \in Nat
    PROVE  x + Limb * p < y + Limb * q <=> p < q \/ (p = q /\ x < y)
<1>. USE GpuAssumption DEF Digits
<1>1. ASSUME p < q PROVE x + Limb * p < y + Limb * q
  <2>1. q - p - 1 \in Nat
    BY <1>1
  <2>2. Limb * (q - p - 1) \in Nat
    BY <2>1
  <2>3. Limb * q = Limb * p + Limb + Limb * (q - p - 1)
    OBVIOUS
  <2>. QED  BY <2>2, <2>3
<1>2. ASSUME q < p PROVE y + Limb * q < x + Limb * p
  <2>1. p - q - 1 \in Nat
    BY <1>2
  <2>2. Limb * (p - q - 1) \in Nat
    BY <2>1
  <2>3. Limb * p = Limb * q + Limb + Limb * (p - q - 1)
    OBVIOUS
  <2>. QED  BY <2>2, <2>3
<1>3. Limb * p \in Nat /\ Limb * q \in Nat
  OBVIOUS
<1>4. CASE p = q
  BY <1>3, <1>4
<1>5. CASE p # q
  BY <1>1, <1>2, <1>3, <1>5
<1>. QED  BY <1>4, <1>5

\* The sum of two limbs, and the carry as the kernel finds it.
LEMMA LimbSum ==
    ASSUME NEW x \in Digits, NEW y \in Digits
    PROVE  LET z == (x + y) % Limb
               carry == IF z < x THEN 1 ELSE 0
           IN  z \in Digits /\ carry \in {0, 1} /\ x + y = z + Limb * carry
<1>. USE GpuAssumption DEF Digits
<1>1. CASE x + y < Limb
  <2>1. (x + y) % Limb = x + y
    BY <1>1
  <2>. QED  BY <2>1
<1>2. CASE x + y >= Limb
  <2>1. (x + y) % Limb = x + y - Limb
    BY <1>2
  <2>. QED  BY <1>2, <2>1
<1>. QED  BY <1>1, <1>2

\* One limb more.
LEMMA LimbBound ==
    ASSUME NEW x \in Digits, NEW m \in Nat \ {0}, NEW p \in 0..(m - 1)
    PROVE  x + Limb * p \in 0..(m * Limb - 1) /\ m * Limb \in Nat \ {0}
<1>. USE GpuAssumption DEF Digits
<1>1. Limb * p \in Nat /\ m - 1 - p \in Nat
  OBVIOUS
<1>2. Limb * (m - 1 - p) \in Nat
  BY <1>1
<1>3. m * Limb = Limb * p + Limb * (m - 1 - p) + Limb
  OBVIOUS
<1>. QED  BY <1>1, <1>2, <1>3

\* A word is below Word.
LEMMA WordType ==
    ASSUME NEW l, IsWord(l)
    PROVE  FromLimbs(l) \in 0..(Word - 1)
<1>. DEFINE h3 == l[3] + Limb * l[4]
            h2 == l[2] + Limb * h3
            L2 == Limb * Limb
            L3 == L2 * Limb
<1>1. Limb \in Nat \ {0} /\ l[4] \in 0..(Limb - 1)
  BY GpuAssumption DEF IsWord, Digits
<1>2. h3 \in 0..(L2 - 1) /\ L2 \in Nat \ {0}
  BY <1>1, LimbBound DEF IsWord
<1>. HIDE DEF h3, L2
<1>3. h2 \in 0..(L3 - 1) /\ L3 \in Nat \ {0}
  BY <1>2, LimbBound DEF IsWord
<1>. HIDE DEF h2, L3
<1>4. l[1] + Limb * h2 \in 0..(L3 * Limb - 1)
  BY <1>3, LimbBound DEF IsWord
<1>. QED  BY <1>4 DEF FromLimbs, Word, h2, h3, L2, L3

LEMMA LimbsOfWord ==
    ASSUME NEW x \in 0..(Word - 1)
    PROVE  IsWord(NonceLimbs(x)) /\ FromLimbs(NonceLimbs(x)) = x
<1>. DEFINE x1 == x \div Limb
            x2 == x1 \div Limb
            x3 == x2 \div Limb
            x4 == x3 \div Limb
            l == NonceLimbs(x)
<1>1. /\ l[1] = x % Limb /\ l[2] = x1 % Limb /\ l[3] = x2 % Limb /\ l[4] = x3 % Limb
  BY DEF NonceLimbs
<1>2. x \in Nat /\ x < Word
  BY GpuAssumption DEF Word
<1>3. x = l[1] + Limb * x1 /\ l[1] \in Digits /\ x1 \in Nat
  BY <1>1, <1>2, LimbDivision
<1>. HIDE DEF x1
<1>4. x1 = l[2] + Limb * x2 /\ l[2] \in Digits /\ x2 \in Nat
  BY <1>1, <1>3, LimbDivision
<1>. HIDE DEF x2
<1>5. x2 = l[3] + Limb * x3 /\ l[3] \in Digits /\ x3 \in Nat
  BY <1>1, <1>4, LimbDivision
<1>. HIDE DEF x3
<1>6. x3 = l[4] + Limb * x4 /\ l[4] \in Digits /\ x4 \in Nat
  BY <1>1, <1>5, LimbDivision
<1>. HIDE DEF x4, l
<1>7. x4 = 0
  <2>. USE GpuAssumption DEF Digits
  <2>. SUFFICES ASSUME x4 # 0 PROVE FALSE
    OBVIOUS
  <2>1. x3 >= Limb
    <3>1. Limb * x4 = Limb + Limb * (x4 - 1) /\ Limb * (x4 - 1) \in Nat
      BY <1>6
    <3>. QED  BY <1>6, <3>1
  <2>2. x2 >= Limb * Limb
    <3>1. Limb * x3 = Limb * Limb + Limb * (x3 - Limb) /\ Limb * (x3 - Limb) \in Nat
      BY <1>5, <2>1
    <3>. QED  BY <1>5, <3>1
  <2>. DEFINE L2 == Limb * Limb
              L3 == L2 * Limb
  <2>3. L2 \in Nat /\ x2 >= L2
    BY <2>2
  <2>. HIDE DEF L2
  <2>4. x1 >= L3 /\ L3 \in Nat
    <3>1. Limb * x2 = L3 + Limb * (x2 - L2) /\ Limb * (x2 - L2) \in Nat
      BY <1>4, <2>3
    <3>. QED  BY <1>4, <2>3, <3>1
  <2>. HIDE DEF L3
  <2>5. x >= L3 * Limb
    <3>1. Limb * x1 = L3 * Limb + Limb * (x1 - L3) /\ Limb * (x1 - L3) \in Nat
      BY <1>3, <2>4
    <3>. QED  BY <1>3, <2>4, <3>1
  <2>6. Word = L3 * Limb
    BY DEF Word, L3, L2
  <2>. QED  BY <1>2, <2>4, <2>5, <2>6
<1>8. x3 = l[4]
  BY <1>6, <1>7, GpuAssumption DEF Digits
<1>9. IsWord(l) /\ FromLimbs(l) = x
  BY <1>3, <1>4, <1>5, <1>6, <1>8 DEF IsWord, FromLimbs
<1>. QED  BY <1>9 DEF l

\* The kernel's comparison is that of the numbers.
LEMMA BelowIsLess ==
    ASSUME NEW d \in 0..(Word - 1), NEW t \in 0..(Word - 1)
    PROVE  Below(TargetLimbs(d), TargetLimbs(t)) <=> d < t
<1>. DEFINE a == NonceLimbs(d)
            b == NonceLimbs(t)
<1>1. IsWord(a) /\ IsWord(b) /\ d = FromLimbs(a) /\ t = FromLimbs(b)
  BY LimbsOfWord
<1>2. Below(TargetLimbs(d), TargetLimbs(t)) <=>
         \/ a[4] < b[4]
         \/ a[4] = b[4] /\ \/ a[3] < b[3]
                           \/ a[3] = b[3] /\ \/ a[2] < b[2]
                                             \/ a[2] = b[2] /\ a[1] < b[1]
  BY DEF Below, TargetLimbs
<1>. HIDE DEF a, b
<1>. DEFINE a3 == a[3] + Limb * a[4]
            a2 == a[2] + Limb * a3
            b3 == b[3] + Limb * b[4]
            b2 == b[2] + Limb * b3
<1>3. \A x \in Digits, p \in Nat : x \in Nat /\ x + Limb * p \in Nat
  BY GpuAssumption DEF Digits
<1>4. a[4] \in Nat /\ b[4] \in Nat /\ a3 \in Nat /\ b3 \in Nat /\ a2 \in Nat /\ b2 \in Nat
  BY <1>1, <1>3 DEF IsWord
<1>5. a3 < b3 <=> a[4] < b[4] \/ (a[4] = b[4] /\ a[3] < b[3])
  BY <1>1, <1>4, LimbCompare DEF IsWord
<1>6. a3 = b3 <=> a[4] = b[4] /\ a[3] = b[3]
  <2>1. b3 < a3 <=> b[4] < a[4] \/ (a[4] = b[4] /\ b[3] < a[3])
    BY <1>1, <1>4, LimbCompare DEF IsWord
  <2>2. a[3] \in Nat /\ b[3] \in Nat
    BY <1>1, <1>3 DEF IsWord
  <2>. HIDE DEF a3, b3
  <2>. QED  BY <1>4, <1>5, <2>1, <2>2
<1>. HIDE DEF a3, b3
<1>7. a2 < b2 <=> a3 < b3 \/ (a3 = b3 /\ a[2] < b[2])
  BY <1>1, <1>4, LimbCompare DEF IsWord
<1>8. a2 = b2 <=> a3 = b3 /\ a[2] = b[2]
  <2>1. b2 < a2 <=> b3 < a3 \/ (a3 = b3 /\ b[2] < a[2])
    BY <1>1, <1>4, LimbCompare DEF IsWord
  <2>2. a[2] \in Nat /\ b[2] \in Nat
    BY <1>1, <1>3 DEF IsWord
  <2>. HIDE DEF a2, b2
  <2>. QED  BY <1>4, <1>7, <2>1, <2>2
<1>. HIDE DEF a2, b2
<1>9. a[1] + Limb * a2 < b[1] + Limb * b2 <=> a2 < b2 \/ (a2 = b2 /\ a[1] < b[1])
  BY <1>1, <1>4, LimbCompare DEF IsWord
<1>10. FromLimbs(a) = a[1] + Limb * a2 /\ FromLimbs(b) = b[1] + Limb * b2
  BY DEF FromLimbs, a2, b2, a3, b3
<1>. QED  BY <1>1, <1>2, <1>5, <1>6, <1>7, <1>8, <1>9, <1>10

\* A number and another one a multiple of the divisor apart have the same remainder.
LEMMA SameRemainder ==
    ASSUME NEW m \in Nat \ {0}, NEW x \in 0..(m - 1), NEW carry \in {0, 1}
    PROVE  (x + m * carry) % m = x
<1>1. CASE carry = 0
  BY <1>1
<1>2. CASE carry = 1
  BY <1>2
<1>. QED  BY <1>1, <1>2

\* The kernel's nonce is the sum, modulo the word.
LEMMA NonceIsSum ==
    ASSUME NEW base \in 0..(Word - 1), NEW g \in Digits
    PROVE  LET n == NonceOf(NonceLimbs(base), g)
           IN  IsWord(n) /\ FromLimbs(n) = (base + g) % Word
<1>. DEFINE nb == NonceLimbs(base)
            n0 == (nb[1] + g) % Limb
            c0 == IF n0 < nb[1] THEN 1 ELSE 0
            n1 == (nb[2] + c0) % Limb
            c1 == IF n1 < nb[2] THEN 1 ELSE 0
            n2 == (nb[3] + c1) % Limb
            c2 == IF n2 < nb[3] THEN 1 ELSE 0
            n3 == (nb[4] + c2) % Limb
            c3 == IF n3 < nb[4] THEN 1 ELSE 0
            n == NonceOf(nb, g)
<1>1. IsWord(nb) /\ FromLimbs(nb) = base
  BY LimbsOfWord
<1>2. n[1] = n0 /\ n[2] = n1 /\ n[3] = n2 /\ n[4] = n3
  BY DEF NonceOf
<1>. HIDE DEF nb, n
<1>3. \A c \in {0, 1} : c \in Digits
  BY GpuAssumption DEF Digits
<1>4. n0 \in Digits /\ c0 \in {0, 1} /\ nb[1] + g = n0 + Limb * c0
  BY <1>1, LimbSum DEF IsWord
<1>. HIDE DEF c0, n0
<1>5. n1 \in Digits /\ c1 \in {0, 1} /\ nb[2] + c0 = n1 + Limb * c1
  BY <1>1, <1>3, <1>4, LimbSum DEF IsWord
<1>. HIDE DEF c1, n1
<1>6. n2 \in Digits /\ c2 \in {0, 1} /\ nb[3] + c1 = n2 + Limb * c2
  BY <1>1, <1>3, <1>5, LimbSum DEF IsWord
<1>. HIDE DEF c2, n2
<1>7. n3 \in Digits /\ c3 \in {0, 1} /\ nb[4] + c2 = n3 + Limb * c3
  BY <1>1, <1>3, <1>6, LimbSum DEF IsWord
<1>. HIDE DEF c3, n3
<1>8. IsWord(n)
  BY <1>2, <1>4, <1>5, <1>6, <1>7 DEF IsWord
<1>9. base + g = FromLimbs(n) + Word * c3
  <2>1. /\ Limb \in Int /\ g \in Int /\ c0 \in Int /\ c1 \in Int /\ c2 \in Int /\ c3 \in Int
        /\ n0 \in Int /\ n1 \in Int /\ n2 \in Int /\ n3 \in Int
        /\ nb[1] \in Int /\ nb[2] \in Int /\ nb[3] \in Int /\ nb[4] \in Int
    <3>1. \A x \in Digits : x \in Int
      BY GpuAssumption DEF Digits
    <3>2. \A c \in {0, 1} : c \in Int
      OBVIOUS
    <3>3. Limb \in Int /\ g \in Int
      BY <3>1, GpuAssumption
    <3>4. c0 \in Int /\ c1 \in Int /\ c2 \in Int /\ c3 \in Int
      BY <1>4, <1>5, <1>6, <1>7, <3>2
    <3>5. n0 \in Int /\ n1 \in Int /\ n2 \in Int /\ n3 \in Int
      BY <1>4, <1>5, <1>6, <1>7, <3>1
    <3>6. nb[1] \in Int /\ nb[2] \in Int /\ nb[3] \in Int /\ nb[4] \in Int
      BY <1>1, <3>1 DEF IsWord
    <3>. QED  BY <3>3, <3>4, <3>5, <3>6
  <2>. DEFINE h3 == n3 + Limb * c3
              h2 == n2 + Limb * (n3 + Limb * c3)
              h1 == n1 + Limb * (n2 + Limb * (n3 + Limb * c3))
  <2>2. (nb[3] + Limb * nb[4]) + c1 = h2
    <3>. DEFINE b4 == nb[4]
    <3>1. b4 \in Int /\ h3 \in Int /\ b4 + c2 = h3
      BY <1>7, <2>1
    <3>. HIDE DEF b4, h3
    <3>2. nb[3] + Limb * b4 + c1 = n2 + Limb * (b4 + c2)
      BY <1>6, <2>1, <3>1
    <3>3. nb[3] + Limb * b4 + c1 = n2 + Limb * h3
      BY <3>1, <3>2
    <3>. QED  BY <3>3 DEF b4, h3
  <2>3. (nb[2] + Limb * (nb[3] + Limb * nb[4])) + c0 = h1
    <3>. DEFINE b3 == nb[3] + Limb * nb[4]
    <3>1. b3 \in Int /\ h2 \in Int
      BY <2>1
    <3>. HIDE DEF b3, h2
    <3>2. nb[2] + Limb * b3 + c0 = n1 + Limb * (b3 + c1)
      BY <1>5, <2>1, <3>1
    <3>3. b3 + c1 = h2
      BY <2>2 DEF b3
    <3>4. nb[2] + Limb * b3 + c0 = n1 + Limb * h2
      BY <3>2, <3>3
    <3>. QED  BY <3>4 DEF b3, h2
  <2>4. base + g = n0 + Limb * h1
    <3>. DEFINE b2 == nb[2] + Limb * (nb[3] + Limb * nb[4])
    <3>1. b2 \in Int /\ h1 \in Int
      BY <2>1
    <3>2. b2 + c0 = h1
      BY <2>3
    <3>3. base = nb[1] + Limb * b2
      BY <1>1 DEF FromLimbs
    <3>. HIDE DEF b2, h1
    <3>4. nb[1] + Limb * b2 + g = n0 + Limb * (b2 + c0)
      BY <1>4, <2>1, <3>1
    <3>. QED  BY <3>2, <3>3, <3>4
  <2>5. n0 + Limb * h1 = FromLimbs(n) + Word * c3
    <3>1. FromLimbs(n) = n0 + Limb * (n1 + Limb * (n2 + Limb * n3))
      BY <1>2 DEF FromLimbs
    <3>2. Limb * (n3 + Limb * c3) = Limb * n3 + Limb * Limb * c3
      BY <2>1
    <3>3. Limb * (n2 + Limb * (n3 + Limb * c3))
             = Limb * (n2 + Limb * n3) + Limb * Limb * Limb * c3
      BY <2>1
    <3>4. Limb * h1 = Limb * (n1 + Limb * (n2 + Limb * n3)) + Word * c3
      BY <2>1 DEF Word
    <3>5. Limb * (n1 + Limb * (n2 + Limb * n3)) \in Int /\ Word * c3 \in Int
      BY <2>1 DEF Word
    <3>. HIDE DEF h1
    <3>. QED  BY <2>1, <3>1, <3>4, <3>5
  <2>. QED  BY <2>4, <2>5
<1>10. FromLimbs(n) \in 0..(Word - 1) /\ Word \in Nat \ {0}
  <2>1. Word \in Nat
    BY GpuAssumption DEF Word
  <2>2. FromLimbs(n) \in 0..(Word - 1)
    BY <1>8, WordType
  <2>. QED  BY <2>1, <2>2
<1>11. (base + g) % Word = FromLimbs(n)
  BY <1>7, <1>9, <1>10, SameRemainder
<1>. QED  BY <1>8, <1>11 DEF n, nb

-----------------------------------------------------------------------------
(* Launches.                                                               *)

\* Everything a program may do with a worker: make it, launch no more work items than a limb
\* counts, run the kernel in any order of the items, collect.  Every use in Cli is one of these.
GpuNext ==
    \/ \E width \in Nat, size \in Int, ms \in Int : NewWorker([maxWorkGroup |-> width], size, ms)
    \/ /\ launch = NoLaunch /\ localSize > 0
       /\ \E challenge \in Challenges, target \in 0..(Word - 1), n \in 0..Limb, base \in 0..(Word - 1) :
             Launch(challenge, target, n, base)
       /\ UNCHANGED elapsed
    \/ Kernel
    \/ \E size \in MinBatch..MaxBatch, time \in Int : Collect(size, time)

\* The nonce of a work item, and whether it is a hit, of launch l.
Nth(l, g) == NonceOf(NonceLimbs(l.base), g)
HitIn(l, g) ==
    /\ g < l.n
    /\ Below(TargetLimbs(Digest[l.challenge][FromLimbs(Nth(l, g))]), TargetLimbs(l.target))

\* The hits the counter has counted.
Counted(l, its) == {g \in DOMAIN its : HitIn(l, g) /\ its[g][1] # "ready"}

\* Every counted hit got an index of its own, every index was given to one, and a hit has
\* still to write its nonce in the slot of its index or has written it there.
Placed(l, its, count, sl, given) ==
    /\ given \in [Counted(l, its) -> 0..(count - 1)]
    /\ \A i, j \in Counted(l, its) : given[i] = given[j] => i = j
    /\ \A k \in 0..(count - 1) : \E i \in Counted(l, its) : given[i] = k
    /\ \A i \in Counted(l, its) :
          \/ its[i][1] = "hit" /\ its[i][2] = given[i]
          \/ its[i][1] = "done" /\ (given[i] < MaxResults => sl[given[i]] = Nth(l, i))

LaunchType(l) ==
    /\ l.challenge \in Challenges /\ l.target \in 0..(Word - 1)
    /\ l.n \in 0..Limb /\ l.base \in 0..(Word - 1)

ItemsType(l, its) ==
    /\ DOMAIN its \subseteq Nat /\ 0..(l.n - 1) \subseteq DOMAIN its
    /\ \A g \in DOMAIN its : /\ its[g][1] \in {"ready", "hit", "done"}
                             /\ its[g][1] = "hit" => HitIn(l, g)

LaunchInv(l, its, count, sl) ==
    /\ LaunchType(l)
    /\ ItemsType(l, its)
    /\ count \in Nat
    /\ \E index \in [Counted(l, its) -> 0..(count - 1)] : Placed(l, its, count, sl, index)

\* The inductive invariant.
GpuInv ==
    /\ localSize \in Nat
    /\ DOMAIN slots = 0..(MaxResults - 1)
    /\ launch # NoLaunch => LaunchInv(launch, items, outCount, slots)

-----------------------------------------------------------------------------
(* A step of the kernel.                                                   *)

\* The kernel's test says whether the digest of the nonce of an item is below the target.
LEMMA HitMeans ==
    ASSUME NEW l, LaunchType(l), NEW g \in 0..(l.n - 1)
    PROVE  /\ FromLimbs(Nth(l, g)) = (l.base + g) % Word
           /\ (l.base + g) % Word \in 0..(Word - 1)
           /\ HitIn(l, g) <=> Digest[l.challenge][(l.base + g) % Word] < l.target
<1>. DEFINE x == (l.base + g) % Word
<1>1. l.n \in 0..Limb /\ l.base \in 0..(Word - 1) /\ l.target \in 0..(Word - 1)
  BY DEF LaunchType
<1>2. g \in Digits /\ g < l.n
  BY <1>1, GpuAssumption DEF Digits
<1>3. IsWord(Nth(l, g)) /\ FromLimbs(Nth(l, g)) = x
  BY <1>1, <1>2, NonceIsSum DEF Nth
<1>4. x \in 0..(Word - 1)
  BY <1>3, WordType
<1>. HIDE DEF x
<1>5. Digest[l.challenge][x] \in 0..(Word - 1)
  BY <1>4, GpuAssumption DEF LaunchType
<1>6. HitIn(l, g) <=> Digest[l.challenge][x] < l.target
  BY <1>1, <1>2, <1>3, <1>5, BelowIsLess DEF HitIn
<1>. QED  BY <1>3, <1>4, <1>6 DEF x

\* An item that is no hit is done without a trace.
LEMMA MissStep ==
    ASSUME NEW l, NEW its, NEW count, NEW sl, LaunchInv(l, its, count, sl),
           NEW g \in DOMAIN its, its[g][1] = "ready", ~HitIn(l, g)
    PROVE  LaunchInv(l, [its EXCEPT ![g] = <<"done">>], count, sl)
<1>. DEFINE next == [its EXCEPT ![g] = <<"done">>]
<1>1. /\ DOMAIN next = DOMAIN its /\ next[g][1] = "done"
      /\ \A h \in DOMAIN its : h # g => next[h] = its[h]
  OBVIOUS
<1>. HIDE DEF next
<1>2. ItemsType(l, next)
  BY <1>1 DEF ItemsType, LaunchInv
<1>3. Counted(l, next) = Counted(l, its)
  BY <1>1 DEF Counted
<1>4. g \notin Counted(l, its)
  BY DEF Counted
<1>5. PICK index \in [Counted(l, its) -> 0..(count - 1)] : Placed(l, its, count, sl, index)
  BY DEF LaunchInv
<1>6. \A h \in Counted(l, its) : next[h] = its[h]
  BY <1>1, <1>4 DEF Counted
<1>7. Placed(l, next, count, sl, index)
  BY <1>3, <1>5, <1>6 DEF Placed
<1>8. LaunchInv(l, next, count, sl)
  BY <1>2, <1>3, <1>5, <1>7 DEF LaunchInv
<1>. QED  BY <1>8 DEF next

\* A hit that is counted gets the next index.
LEMMA CountStep ==
    ASSUME NEW l, NEW its, NEW count, NEW sl, LaunchInv(l, its, count, sl),
           NEW g \in DOMAIN its, its[g][1] = "ready", HitIn(l, g)
    PROVE  LaunchInv(l, [its EXCEPT ![g] = <<"hit", count>>], count + 1, sl)
<1>. DEFINE next == [its EXCEPT ![g] = <<"hit", count>>]
            Old == Counted(l, its)
            New == Counted(l, next)
<1>1. /\ DOMAIN next = DOMAIN its /\ next[g][1] = "hit" /\ next[g][2] = count
      /\ \A h \in DOMAIN its : h # g => next[h] = its[h]
  OBVIOUS
<1>. HIDE DEF next
<1>2. ItemsType(l, next)
  BY <1>1 DEF ItemsType, LaunchInv
<1>3. New = Old \union {g} /\ g \notin Old
  BY <1>1 DEF Counted
<1>4. \A h \in Old : next[h] = its[h]
  BY <1>1, <1>3 DEF Counted
<1>. HIDE DEF Old, New
<1>5. PICK index \in [Old -> 0..(count - 1)] : Placed(l, its, count, sl, index)
  BY DEF LaunchInv, Old
<1>6. count \in Nat
  BY DEF LaunchInv
<1>. DEFINE further == [h \in New |-> IF h = g THEN count ELSE index[h]]
            top == count + 1
<1>7. further[g] = count /\ \A h \in Old : further[h] = index[h]
  BY <1>3
<1>8. \A h \in Old : index[h] \in 0..(count - 1)
  BY <1>5
<1>9. further \in [New -> 0..(top - 1)] /\ top \in Nat
  BY <1>3, <1>6, <1>8
<1>. HIDE DEF further
<1>10. \A h, i \in New : further[h] = further[i] => h = i
  <2>1. \A h, i \in Old : index[h] = index[i] => h = i
    BY <1>5 DEF Placed, Old
  <2>2. \A h \in Old : index[h] # count
    BY <1>6, <1>8
  <2>. QED  BY <1>3, <1>7, <2>1, <2>2
<1>11. \A k \in 0..(top - 1) : \E h \in New : further[h] = k
  <2>. SUFFICES ASSUME NEW k \in 0..(top - 1) PROVE \E h \in New : further[h] = k
    OBVIOUS
  <2>1. CASE k = count
    BY <1>3, <1>7, <2>1
  <2>2. CASE k # count
    <3>1. k \in 0..(count - 1)
      BY <1>6, <2>2 DEF top
    <3>2. PICK h \in Old : index[h] = k
      BY <1>5, <3>1 DEF Placed, Old
    <3>. QED  BY <1>3, <1>7, <3>2
  <2>. QED  BY <2>1, <2>2
<1>12. \A h \in New :
          \/ next[h][1] = "hit" /\ next[h][2] = further[h]
          \/ next[h][1] = "done" /\ (further[h] < MaxResults => sl[further[h]] = Nth(l, h))
  <2>1. \A h \in Old :
          \/ its[h][1] = "hit" /\ its[h][2] = index[h]
          \/ its[h][1] = "done" /\ (index[h] < MaxResults => sl[index[h]] = Nth(l, h))
    BY <1>5 DEF Placed, Old
  <2>. QED  BY <1>1, <1>3, <1>4, <1>7, <2>1
<1>. HIDE DEF top
<1>13. Placed(l, next, top, sl, further)
  BY <1>9, <1>10, <1>11, <1>12 DEF Placed, New
<1>14. LaunchInv(l, next, top, sl)
  BY <1>2, <1>9, <1>13 DEF LaunchInv, New
<1>. QED  BY <1>14 DEF next, top

\* A hit writes its own slot and nobody else's.
LEMMA StoreStep ==
    ASSUME NEW l, NEW its, NEW count, NEW sl, LaunchInv(l, its, count, sl),
           DOMAIN sl = 0..(MaxResults - 1),
           NEW g \in DOMAIN its, its[g][1] = "hit",
           NEW written, \A k \in DOMAIN sl : written[k] = IF k = its[g][2] THEN Nth(l, g) ELSE sl[k]
    PROVE  LaunchInv(l, [its EXCEPT ![g] = <<"done">>], count, written)
<1>. DEFINE next == [its EXCEPT ![g] = <<"done">>]
            Old == Counted(l, its)
<1>1. /\ DOMAIN next = DOMAIN its /\ next[g][1] = "done"
      /\ \A h \in DOMAIN its : h # g => next[h] = its[h]
  OBVIOUS
<1>. HIDE DEF next
<1>2. ItemsType(l, next)
  BY <1>1 DEF ItemsType, LaunchInv
<1>3. g \in Old
  BY DEF Counted, LaunchInv, ItemsType
<1>4. Counted(l, next) = Old
  BY <1>1, <1>3 DEF Counted
<1>5. \A h \in Old : h # g => next[h] = its[h]
  BY <1>1 DEF Counted
<1>. HIDE DEF Old
<1>6. PICK index \in [Old -> 0..(count - 1)] : Placed(l, its, count, sl, index)
  BY DEF LaunchInv, Old
<1>7. count \in Nat /\ MaxResults \in Nat
  BY GpuAssumption DEF LaunchInv
<1>8. \A h \in Old :
          \/ its[h][1] = "hit" /\ its[h][2] = index[h]
          \/ its[h][1] = "done" /\ (index[h] < MaxResults => sl[index[h]] = Nth(l, h))
  BY <1>6 DEF Placed, Old
<1>9. its[g][2] = index[g]
  BY <1>3, <1>8
<1>10. \A h \in Old : index[h] < MaxResults => index[h] \in DOMAIN sl
  BY <1>6, <1>7
<1>11. \A k \in DOMAIN sl : written[k] = IF k = index[g] THEN Nth(l, g) ELSE sl[k]
  BY <1>9
<1>12. \A h \in Old : h # g => index[h] # index[g]
  BY <1>3, <1>6 DEF Placed, Old
<1>13. \A h \in Old :
          \/ next[h][1] = "hit" /\ next[h][2] = index[h]
          \/ next[h][1] = "done" /\ (index[h] < MaxResults => written[index[h]] = Nth(l, h))
  <2>. SUFFICES ASSUME NEW h \in Old
                PROVE  \/ next[h][1] = "hit" /\ next[h][2] = index[h]
                       \/ next[h][1] = "done" /\ (index[h] < MaxResults => written[index[h]] = Nth(l, h))
    OBVIOUS
  <2>1. CASE h = g
    BY <1>1, <1>10, <1>11, <2>1
  <2>2. CASE h # g
    <3>1. next[h] = its[h] /\ index[h] # index[g]
      BY <1>5, <1>12, <2>2
    <3>2. index[h] < MaxResults => written[index[h]] = sl[index[h]]
      BY <1>10, <1>11, <3>1
    <3>. QED  BY <1>8, <3>1, <3>2
  <2>. QED  BY <2>1, <2>2
<1>14. Placed(l, next, count, written, index)
  BY <1>4, <1>6, <1>13 DEF Placed, Old
<1>15. LaunchInv(l, next, count, written)
  BY <1>2, <1>4, <1>6, <1>14 DEF LaunchInv, Old
<1>. QED  BY <1>15 DEF next

\* The work items, rounded up to whole work groups, are no fewer than asked for.
LEMMA RoundedUp ==
    ASSUME NEW n \in Nat, NEW size \in Nat \ {0}
    PROVE  /\ ((n + size - 1) \div size) * size \in Nat
           /\ n <= ((n + size - 1) \div size) * size
<1>. DEFINE m == n + size - 1
            q == m \div size
<1>1. m \in Nat /\ q \in Nat /\ m = (m % size) + size * q /\ m % size \in 0..(size - 1)
  OBVIOUS
<1>. HIDE DEF q
<1>2. q * size = size * q /\ q * size \in Nat
  BY <1>1
<1>3. n <= q * size
  BY <1>1, <1>2
<1>. QED  BY <1>2, <1>3 DEF q

LEMMA LaunchStep ==
    ASSUME GpuInv, localSize > 0, NEW challenge \in Challenges, NEW target \in 0..(Word - 1),
           NEW n \in 0..Limb, NEW base \in 0..(Word - 1), Launch(challenge, target, n, base)
    PROVE  LaunchInv(launch', items', outCount', slots')
<1>. DEFINE l == [challenge |-> challenge, target |-> target, n |-> n, base |-> base]
            total == ((n + localSize - 1) \div localSize) * localSize
            its == [g \in 0..(total - 1) |-> <<"ready">>]
<1>1. launch' = l /\ items' = its /\ outCount' = 0
  BY DEF Launch
<1>2. LaunchType(l) /\ l.n = n
  BY DEF LaunchType
<1>3. n \in Nat /\ localSize \in Nat \ {0}
  BY GpuAssumption DEF GpuInv
<1>4. total \in Nat /\ n <= total
  BY <1>3, RoundedUp
<1>. HIDE DEF l, total
<1>5. DOMAIN its = 0..(total - 1) /\ \A g \in DOMAIN its : its[g][1] = "ready"
  OBVIOUS
<1>. HIDE DEF its
<1>6. ItemsType(l, its)
  BY <1>2, <1>3, <1>4, <1>5 DEF ItemsType
<1>7. Counted(l, its) = {}
  BY <1>5 DEF Counted
<1>. DEFINE index == [g \in {} |-> 0]
<1>8. index \in [Counted(l, its) -> 0..(0 - 1)]
  BY <1>7
<1>9. \A k \in 0..(0 - 1) : FALSE
  OBVIOUS
<1>10. Placed(l, its, 0, slots', index)
  BY <1>7, <1>8, <1>9 DEF Placed
<1>. HIDE DEF index
<1>11. LaunchInv(l, its, 0, slots')
  BY <1>2, <1>6, <1>8, <1>10 DEF LaunchInv
<1>. QED  BY <1>1, <1>11

LEMMA KernelStep ==
    ASSUME GpuInv, launch # NoLaunch, Kernel
    PROVE  LaunchInv(launch', items', outCount', slots')
<1>1. LaunchInv(launch, items, outCount, slots) /\ launch' = launch
  BY DEF GpuInv, Kernel, Miss, Count, Store
<1>2. PICK g \in DOMAIN items : Miss(g) \/ Count(g) \/ Store(g)
  BY DEF Kernel
<1>3. IsHit(g) <=> HitIn(launch, g)
  BY DEF IsHit, HitIn, ItemNonce, Nth
<1>4. items[g] = <<"ready">> => items[g][1] = "ready"
  OBVIOUS
<1>5. CASE Miss(g)
  <2>1. /\ items[g][1] = "ready" /\ ~HitIn(launch, g)
        /\ items' = [items EXCEPT ![g] = <<"done">>] /\ outCount' = outCount /\ slots' = slots
    BY <1>3, <1>4, <1>5 DEF Miss, ItemGoesTo
  <2>2. LaunchInv(launch, [items EXCEPT ![g] = <<"done">>], outCount, slots)
    BY <1>1, <2>1, MissStep
  <2>. QED  BY <1>1, <2>1, <2>2
<1>6. CASE Count(g)
  <2>1. /\ items[g][1] = "ready" /\ HitIn(launch, g)
        /\ items' = [items EXCEPT ![g] = <<"hit", outCount>>]
        /\ outCount' = outCount + 1 /\ slots' = slots
    BY <1>3, <1>4, <1>6 DEF Count, ItemGoesTo
  <2>2. LaunchInv(launch, [items EXCEPT ![g] = <<"hit", outCount>>], outCount + 1, slots)
    BY <1>1, <2>1, CountStep
  <2>. QED  BY <1>1, <2>1, <2>2
<1>7. CASE Store(g)
  <2>1. items[g][1] = "hit" /\ items' = [items EXCEPT ![g] = <<"done">>] /\ outCount' = outCount
    BY <1>7 DEF Store
  <2>2. \A k \in DOMAIN slots : slots'[k] = IF k = items[g][2] THEN Nth(launch, g) ELSE slots[k]
    BY <1>7 DEF Store, ItemNonce, Nth
  <2>3. DOMAIN slots = 0..(MaxResults - 1)
    BY DEF GpuInv
  <2>4. LaunchInv(launch, [items EXCEPT ![g] = <<"done">>], outCount, slots')
    BY <1>1, <2>1, <2>2, <2>3, StoreStep
  <2>. QED  BY <1>1, <2>1, <2>4
<1>. QED  BY <1>2, <1>5, <1>6, <1>7

LEMMA GpuStep == GpuInv /\ [GpuNext]_gpuVars => GpuInv'
<1>. SUFFICES ASSUME GpuInv, [GpuNext]_gpuVars PROVE GpuInv'
  OBVIOUS
<1>1. ASSUME NEW width \in Nat, NEW size \in Int, NEW ms \in Int,
             NewWorker([maxWorkGroup |-> width], size, ms)
      PROVE  GpuInv'
  <2>1. localSize' \in Nat
    BY <1>1, GpuAssumption DEF NewWorker, LargerOf, SmallerOf
  <2>2. launch' = NoLaunch /\ DOMAIN slots' = 0..(MaxResults - 1)
    BY <1>1 DEF NewWorker
  <2>. QED  BY <2>1, <2>2 DEF GpuInv, NoLaunch
<1>2. ASSUME localSize > 0,
             NEW challenge \in Challenges, NEW target \in 0..(Word - 1),
             NEW n \in 0..Limb, NEW base \in 0..(Word - 1), Launch(challenge, target, n, base)
      PROVE  GpuInv'
  <2>1. LaunchInv(launch', items', outCount', slots')
    BY <1>2, LaunchStep
  <2>2. UNCHANGED <<localSize, slots>>
    BY <1>2 DEF Launch
  <2>3. localSize' \in Nat /\ DOMAIN slots' = 0..(MaxResults - 1)
    BY <2>2 DEF GpuInv
  <2>. QED  BY <2>1, <2>3 DEF GpuInv
<1>3. CASE Kernel
  <2>1. launch' = launch /\ localSize' = localSize /\ DOMAIN slots' = DOMAIN slots
    BY <1>3 DEF Kernel, Miss, Count, Store
  <2>2. localSize' \in Nat /\ DOMAIN slots' = 0..(MaxResults - 1)
    BY <2>1 DEF GpuInv
  <2>3. launch' # NoLaunch => LaunchInv(launch', items', outCount', slots')
    BY <1>3, <2>1, KernelStep
  <2>. QED  BY <2>2, <2>3 DEF GpuInv, NoLaunch
<1>4. ASSUME NEW size, NEW time, Collect(size, time) PROVE GpuInv'
  BY <1>4 DEF Collect, GpuInv, NoLaunch
<1>5. CASE UNCHANGED gpuVars
  <2>1. UNCHANGED <<localSize, launch, items, outCount, slots>>
    BY <1>5 DEF gpuVars
  <2>2. launch' # NoLaunch => LaunchInv(launch', items', outCount', slots')
    BY <2>1 DEF GpuInv
  <2>. QED  BY <2>1, <2>2 DEF GpuInv, NoLaunch
<1>. QED  BY <1>1, <1>2, <1>3, <1>4, <1>5 DEF GpuNext

-----------------------------------------------------------------------------
(* What a launch returns.                                                  *)

\* A word has at least as many values as a limb.
LEMMA WordSize == Word \in Nat /\ Limb <= Word
<1>1. Limb \in Nat /\ Limb >= 1
  BY GpuAssumption
<1>2. \A x \in Nat \ {0} : x * Limb \in Nat \ {0} /\ x * Limb >= x
  <2>. SUFFICES ASSUME NEW x \in Nat \ {0} PROVE x * Limb \in Nat \ {0} /\ x * Limb >= x
    OBVIOUS
  <2>1. x * Limb = x + x * (Limb - 1) /\ x * (Limb - 1) \in Nat
    BY <1>1
  <2>. QED  BY <2>1
<1>. DEFINE L2 == Limb * Limb
            L3 == L2 * Limb
<1>3. L2 \in Nat \ {0} /\ L2 >= Limb
  BY <1>1, <1>2
<1>. HIDE DEF L2
<1>4. L3 \in Nat \ {0} /\ L3 >= L2
  BY <1>2, <1>3
<1>. HIDE DEF L3
<1>5. L3 * Limb \in Nat \ {0} /\ L3 * Limb >= L3
  BY <1>2, <1>4
<1>6. Word = L3 * Limb
  BY DEF Word, L3, L2
<1>. QED  BY <1>1, <1>3, <1>4, <1>5, <1>6

\* The nonces of a launch that is not longer than a word are distinct.
LEMMA RangeIsDistinct ==
    ASSUME NEW l, LaunchType(l), NEW g \in 0..(l.n - 1), NEW h \in 0..(l.n - 1),
           (l.base + g) % Word = (l.base + h) % Word
    PROVE  g = h
<1>1. Word \in Nat /\ Limb <= Word
  BY WordSize
<1>2. l.base \in 0..(Word - 1) /\ g \in Nat /\ h \in Nat /\ g < Word /\ h < Word
  <2>1. l.n \in 0..Limb /\ l.base \in 0..(Word - 1) /\ Limb \in Nat
    BY GpuAssumption DEF LaunchType
  <2>. QED  BY <1>1, <2>1
<1>3. \A i \in 0..(Word - 1) :
         (l.base + i) % Word = IF l.base + i < Word THEN l.base + i ELSE l.base + i - Word
  <2>. SUFFICES ASSUME NEW i \in 0..(Word - 1)
                PROVE  (l.base + i) % Word
                          = IF l.base + i < Word THEN l.base + i ELSE l.base + i - Word
    OBVIOUS
  <2>. DEFINE carry == IF l.base + i < Word THEN 0 ELSE 1
              x == l.base + i - Word * carry
  <2>1. Word \in Nat \ {0} /\ x \in 0..(Word - 1) /\ carry \in {0, 1} /\ l.base + i = x + Word * carry
    BY <1>1, <1>2
  <2>2. (x + Word * carry) % Word = x
    BY <2>1, SameRemainder
  <2>. QED  BY <1>1, <1>2, <2>1, <2>2
<1>. QED  BY <1>1, <1>2, <1>3

\* As many things as indices, if the indices name distinct things.
LEMMA Indexed ==
    ASSUME NEW m \in Nat, NEW f, \A j, k \in 1..m : f[j] = f[k] => j = k
    PROVE  Cardinality({f[k] : k \in 1..m}) = m
<1>. DEFINE F == [k \in 1..m |-> f[k]]
            S == {f[k] : k \in 1..m}
<1>1. F \in Bijection(1..m, S)
  BY DEF Bijection, Injection, Surjection, IsInjective
<1>. QED  BY <1>1, FS_CountingElements DEF ExistsBijection

\* When every item is done, the slots hold the hits, each one once, and none is missing but
\* those for which there was no slot.
LEMMA FinishedFindsHits == GpuInv => FoundAreHits
<1>. SUFFICES ASSUME GpuInv, launch # NoLaunch, Finished
              PROVE  LET returned == {Found[k] : k \in 1..Len(Found)}
                     IN  /\ returned \subseteq Hits
                         /\ Cardinality(returned) = Len(Found)
                         /\ Len(Found) = SmallerOf(Cardinality(Hits), MaxResults)
  BY DEF FoundAreHits
<1>. DEFINE l == launch
            C == Counted(l, items)
            x(g) == (l.base + g) % Word
            m == SmallerOf(outCount, MaxResults)
<1>1. LaunchInv(l, items, outCount, slots)
  BY DEF GpuInv
<1>. HIDE DEF C
<1>2. PICK index \in [C -> 0..(outCount - 1)] : Placed(l, items, outCount, slots, index)
  BY <1>1 DEF LaunchInv, C
<1>3. /\ LaunchType(l) /\ l.n \in Nat /\ outCount \in Nat /\ MaxResults \in Nat
      /\ 0..(l.n - 1) \subseteq DOMAIN items /\ DOMAIN items \subseteq Nat
  BY <1>1, GpuAssumption DEF LaunchInv, LaunchType, ItemsType
<1>4. \A g \in DOMAIN items : items[g][1] = "done"
  BY DEF Finished
<1>5. \A g \in C : g \in 0..(l.n - 1) /\ HitIn(l, g)
  BY <1>3 DEF C, Counted, HitIn
<1>6. \A g \in 0..(l.n - 1) : HitIn(l, g) => g \in C
  BY <1>3, <1>4 DEF C, Counted
<1>7. \A g \in 0..(l.n - 1) : HitIn(l, g) <=> Digest[l.challenge][x(g)] < l.target
  BY <1>3, HitMeans
<1>8. Hits = {x(g) : g \in C}
  BY <1>5, <1>6, <1>7 DEF Hits
<1>9. \A g, h \in C : x(g) = x(h) => g = h
  BY <1>3, <1>5, RangeIsDistinct
<1>10. \A g \in C : index[g] < MaxResults => slots[index[g]] = Nth(l, g)
  BY <1>2, <1>4 DEF Placed, C, Counted
<1>11. \A g \in C : FromLimbs(Nth(l, g)) = x(g)
  BY <1>3, <1>5, HitMeans
<1>12. \A g, h \in C : index[g] = index[h] => g = h
  BY <1>2 DEF Placed, C
<1>. HIDE DEF l, x
<1>. DEFINE at == [k \in 1..outCount |-> CHOOSE g \in C : index[g] = k - 1]
            hit == [k \in 1..outCount |-> x(at[k])]
<1>13. \A k \in 1..outCount : at[k] \in C /\ index[at[k]] = k - 1
  <2>. SUFFICES ASSUME NEW k \in 1..outCount PROVE at[k] \in C /\ index[at[k]] = k - 1
    OBVIOUS
  <2>1. k - 1 \in 0..(outCount - 1)
    BY <1>3
  <2>2. \E g \in C : index[g] = k - 1
    BY <1>2, <2>1 DEF Placed, C
  <2>. QED  BY <2>2
<1>14. \A g \in C : at[index[g] + 1] = g /\ index[g] + 1 \in 1..outCount
  <2>. SUFFICES ASSUME NEW g \in C PROVE at[index[g] + 1] = g /\ index[g] + 1 \in 1..outCount
    OBVIOUS
  <2>1. index[g] + 1 \in 1..outCount /\ index[g] + 1 - 1 = index[g]
    BY <1>2, <1>3
  <2>2. at[index[g] + 1] \in C /\ index[at[index[g] + 1]] = index[g]
    BY <1>13, <2>1
  <2>. QED  BY <1>12, <2>1, <2>2
<1>15. \A k \in 1..outCount : hit[k] = x(at[k])
  OBVIOUS
<1>. HIDE DEF at, hit
<1>16. \A j, k \in 1..outCount : hit[j] = hit[k] => j = k
  <2>. SUFFICES ASSUME NEW j \in 1..outCount, NEW k \in 1..outCount, hit[j] = hit[k] PROVE j = k
    OBVIOUS
  <2>1. at[j] = at[k]
    BY <1>9, <1>13, <1>15
  <2>. QED  BY <1>3, <1>13, <2>1
<1>17. Hits = {hit[k] : k \in 1..outCount}
  BY <1>8, <1>13, <1>14, <1>15
<1>18. Cardinality(Hits) = outCount
  BY <1>3, <1>16, <1>17, Indexed
<1>19. m \in Nat /\ 1..m \subseteq 1..outCount /\ \A k \in 1..m : k - 1 < MaxResults
  BY <1>3 DEF SmallerOf
<1>20. Len(Found) = m
  BY <1>19 DEF Found
<1>21. \A k \in 1..m : Found[k] = hit[k]
  <2>. SUFFICES ASSUME NEW k \in 1..m PROVE Found[k] = hit[k]
    OBVIOUS
  <2>1. Found[k] = FromLimbs(slots[k - 1])
    BY DEF Found
  <2>2. at[k] \in C /\ index[at[k]] = k - 1 /\ k - 1 < MaxResults
    BY <1>13, <1>19
  <2>3. slots[k - 1] = Nth(l, at[k])
    BY <1>10, <2>2
  <2>. QED  BY <1>11, <1>15, <1>19, <2>1, <2>2, <2>3
<1>. HIDE DEF m
<1>. DEFINE returned == {Found[k] : k \in 1..Len(Found)}
<1>22. returned \subseteq Hits
  BY <1>17, <1>19, <1>20, <1>21
<1>23. Cardinality(returned) = Len(Found)
  <2>1. \A j, k \in 1..m : Found[j] = Found[k] => j = k
    BY <1>16, <1>19, <1>21
  <2>. QED  BY <1>19, <1>20, <2>1, Indexed
<1>24. Len(Found) = SmallerOf(Cardinality(Hits), MaxResults)
  BY <1>18, <1>20 DEF m
<1>. QED  BY <1>22, <1>23, <1>24

\* A launch returns hits of its own range and no others, no nonce twice, and all of them or as
\* many as there are slots, whatever the width of a limb, the digests, the order in which the
\* work items run and what the launches before have left in the slots (gpu.py:168-204,
\* keccak256.cl:88-133).
THEOREM FoundAreHitsCorrect == GpuIdle /\ [][GpuNext]_gpuVars => []FoundAreHits
<1>1. GpuIdle => GpuInv
  BY DEF GpuIdle, GpuInv
<1>2. GpuInv /\ [GpuNext]_gpuVars => GpuInv'
  BY GpuStep
<1>3. GpuInv => FoundAreHits
  BY FinishedFindsHits
<1>. QED  BY <1>1, <1>2, <1>3, PTL

-----------------------------------------------------------------------------
(* Types.                                                                  *)

\* Between launches there are no work items.
GpuTypeInv ==
    /\ GpuTypeOK /\ GpuInv
    /\ launch = NoLaunch => items = <<>>
    /\ IsFiniteSet(DOMAIN items)

\* What the counter has counted are work items.
LEMMA CountBounded ==
    ASSUME NEW l, NEW its, NEW count, NEW sl, LaunchInv(l, its, count, sl), IsFiniteSet(DOMAIN its)
    PROVE  count <= Cardinality(DOMAIN its)
<1>. DEFINE C == Counted(l, its)
<1>1. count \in Nat /\ C \subseteq DOMAIN its
  BY DEF LaunchInv, Counted
<1>. HIDE DEF C
<1>2. PICK index \in [C -> 0..(count - 1)] : Placed(l, its, count, sl, index)
  BY DEF LaunchInv, C
<1>3. \A k \in 0..(count - 1) : \E g \in C : index[g] = k
  BY <1>2 DEF Placed, C
<1>4. index \in Surjection(C, 0..(count - 1))
  BY <1>2, <1>3 DEF Surjection
<1>5. IsFiniteSet(C) /\ Cardinality(C) <= Cardinality(DOMAIN its)
  BY <1>1, FS_Subset
<1>6. Cardinality(0..(count - 1)) <= Cardinality(C)
  BY <1>4, <1>5, FS_Surjection
<1>7. Cardinality(0..(count - 1)) = count
  <2>1. Cardinality(0..(count - 1)) = IF 0 > count - 1 THEN 0 ELSE (count - 1) - 0 + 1
    BY <1>1, FS_Interval, 0 \in Int, count - 1 \in Int
  <2>. QED  BY <1>1, <2>1
<1>8. Cardinality(C) \in Nat /\ Cardinality(DOMAIN its) \in Nat
  BY <1>5, FS_CardinalityType
<1>. QED  BY <1>1, <1>5, <1>6, <1>7, <1>8

\* What is in a slot is a word.
LEMMA SlotIsWord ==
    ASSUME GpuTypeOK, NEW k \in 0..(MaxResults - 1)
    PROVE  IsWord(slots[k])
<1>1. \A limb \in 1..4 : slots[k][limb] \in 0..(Limb - 1)
  BY DEF GpuTypeOK
<1>2. 1 \in 1..4 /\ 2 \in 1..4 /\ 3 \in 1..4 /\ 4 \in 1..4
  OBVIOUS
<1>. QED  BY <1>1, <1>2 DEF IsWord, Digits

LEMMA FoundType == GpuTypeOK => \A k \in 1..Len(Found) : Found[k] \in 0..(Word - 1)
<1>. SUFFICES ASSUME GpuTypeOK PROVE \A k \in 1..Len(Found) : Found[k] \in 0..(Word - 1)
  OBVIOUS
<1>. DEFINE m == SmallerOf(outCount, MaxResults)
<1>1. m \in Nat /\ \A k \in 1..m : k - 1 \in 0..(MaxResults - 1)
  BY GpuAssumption DEF GpuTypeOK, SmallerOf
<1>2. Len(Found) = m /\ \A k \in 1..m : Found[k] = FromLimbs(slots[k - 1])
  BY <1>1 DEF Found
<1>. HIDE DEF m
<1>. QED  BY <1>1, <1>2, SlotIsWord, WordType

LEMMA NewWorkerTypes ==
    ASSUME NEW width \in Nat, NEW size \in Int, NEW ms \in Int,
           NewWorker([maxWorkGroup |-> width], size, ms), GpuInv'
    PROVE  GpuTypeInv'
<1>1. localSize' \in Nat /\ targetMs' \in Int /\ batchSize' \in {0} \union MinBatch..MaxBatch
  BY GpuAssumption DEF NewWorker, LargerOf, SmallerOf
<1>2. launch' = NoLaunch /\ items' = <<>> /\ outCount' = 0 /\ found' = <<>>
  BY DEF NewWorker
<1>3. \A k \in 0..(MaxResults - 1), limb \in 1..4 : slots'[k][limb] \in 0..(Limb - 1)
  <2>. SUFFICES ASSUME NEW k \in 0..(MaxResults - 1), NEW limb \in 1..4
                PROVE  slots'[k][limb] \in 0..(Limb - 1)
    OBVIOUS
  <2>1. slots'[k] = Zero
    BY DEF NewWorker
  <2>2. Zero[limb] = 0
    BY DEF Zero
  <2>. QED  BY <2>1, <2>2, GpuAssumption
<1>4. DOMAIN items' = {} /\ IsFiniteSet(DOMAIN items')
  BY <1>2, FS_EmptySet
<1>5. GpuTypeOK'
  BY <1>1, <1>2, <1>3, <1>4 DEF GpuTypeOK
<1>. QED  BY <1>2, <1>4, <1>5 DEF GpuTypeInv

LEMMA LaunchTypes ==
    ASSUME GpuTypeInv, localSize > 0,
           NEW challenge \in Challenges, NEW target \in 0..(Word - 1), NEW m \in 0..Limb,
           NEW base \in 0..(Word - 1), Launch(challenge, target, m, base), GpuInv'
    PROVE  GpuTypeInv'
<1>. DEFINE total == ((m + localSize - 1) \div localSize) * localSize
<1>1. total \in Nat
  <2>1. m \in Nat /\ localSize \in Nat \ {0}
    BY GpuAssumption DEF GpuTypeInv, GpuTypeOK
  <2>. QED  BY <2>1, RoundedUp
<1>. HIDE DEF total
<1>2. items' = [g \in 0..(total - 1) |-> <<"ready">>]
  BY DEF Launch, total
<1>3. DOMAIN items' = 0..(total - 1) /\ \A g \in DOMAIN items' : items'[g] = <<"ready">>
  BY <1>2
<1>4. IsFiniteSet(DOMAIN items') /\ Cardinality(DOMAIN items') \in Nat
  BY <1>1, <1>3, FS_Interval, FS_CardinalityType, 0 \in Int, total - 1 \in Int
<1>5. /\ launch' = [challenge |-> challenge, target |-> target, n |-> m, base |-> base]
      /\ outCount' = 0 /\ found' = <<>>
      /\ UNCHANGED <<localSize, batchSize, targetMs, slots>>
  BY DEF Launch
<1>6. launch' # NoLaunch
  <2>1. DOMAIN launch' = {"challenge", "target", "n", "base"} /\ DOMAIN NoLaunch = {"n"}
    BY <1>5 DEF NoLaunch
  <2>. QED  BY <2>1
<1>7. /\ launch'.challenge \in Challenges /\ launch'.target \in 0..(Word - 1)
      /\ launch'.n \in Nat /\ launch'.base \in 0..(Word - 1)
  BY <1>5, GpuAssumption
<1>8. GpuTypeOK'
  <2>1. /\ localSize' \in Nat /\ targetMs' \in Int
        /\ batchSize' \in {0} \union MinBatch..MaxBatch
        /\ \A k \in 0..(MaxResults - 1), limb \in 1..4 : slots'[k][limb] \in 0..(Limb - 1)
    BY <1>5 DEF GpuTypeOK, GpuTypeInv
  <2>2. \A g \in DOMAIN items' : items'[g] \in {<<"ready">>, <<"done">>} \union
                                               {<<"hit", k>> : k \in 0..(outCount' - 1)}
    BY <1>3
  <2>3. outCount' \in Nat /\ outCount' <= Cardinality(DOMAIN items')
    BY <1>4, <1>5
  <2>4. \A k \in 1..Len(found') : found'[k] \in 0..(Word - 1)
    BY <1>5
  <2>. QED  BY <1>7, <2>1, <2>2, <2>3, <2>4 DEF GpuTypeOK
<1>. QED  BY <1>4, <1>6, <1>8 DEF GpuTypeInv

LEMMA CollectTypes ==
    ASSUME GpuTypeInv, NEW size \in MinBatch..MaxBatch, NEW time, Collect(size, time), GpuInv'
    PROVE  GpuTypeInv'
<1>1. /\ launch' = NoLaunch /\ items' = <<>> /\ found' = Found /\ batchSize' = size
      /\ UNCHANGED <<localSize, targetMs, outCount, slots>>
  BY DEF Collect
<1>2. DOMAIN items' = {} /\ IsFiniteSet(DOMAIN items')
  BY <1>1, FS_EmptySet
<1>3. \A k \in 1..Len(found') : found'[k] \in 0..(Word - 1)
  BY <1>1, FoundType DEF GpuTypeInv
<1>4. GpuTypeOK'
  BY <1>1, <1>2, <1>3 DEF GpuTypeOK, GpuTypeInv
<1>. QED  BY <1>1, <1>2, <1>4 DEF GpuTypeInv

\* A hit writes a word in its slot.
LEMMA StoreTypes ==
    ASSUME GpuTypeInv, launch # NoLaunch, NEW g \in DOMAIN items, Store(g)
    PROVE  \A k \in 0..(MaxResults - 1), limb \in 1..4 : slots'[k][limb] \in 0..(Limb - 1)
<1>1. LaunchInv(launch, items, outCount, slots) /\ items[g][1] = "hit"
  BY DEF GpuTypeInv, GpuInv, Store
<1>2. HitIn(launch, g) /\ g \in Nat /\ g < launch.n /\ launch.n \in 0..Limb
      /\ launch.base \in 0..(Word - 1)
  BY <1>1 DEF LaunchInv, LaunchType, ItemsType, HitIn
<1>3. g \in Digits
  BY <1>2, GpuAssumption DEF Digits
<1>4. IsWord(ItemNonce(g))
  BY <1>2, <1>3, NonceIsSum DEF ItemNonce
<1>5. \A limb \in 1..4 : ItemNonce(g)[limb] \in 0..(Limb - 1)
  <2>. SUFFICES ASSUME NEW limb \in 1..4 PROVE ItemNonce(g)[limb] \in 0..(Limb - 1)
    OBVIOUS
  <2>1. limb = 1 \/ limb = 2 \/ limb = 3 \/ limb = 4
    OBVIOUS
  <2>. QED  BY <1>4, <2>1 DEF IsWord, Digits
<1>6. DOMAIN slots = 0..(MaxResults - 1)
  BY DEF GpuTypeInv, GpuInv
<1>7. \A k \in 0..(MaxResults - 1) : slots'[k] = ItemNonce(g) \/ slots'[k] = slots[k]
  BY <1>6 DEF Store
<1>. QED  BY <1>5, <1>7 DEF GpuTypeInv, GpuTypeOK

LEMMA KernelTypes ==
    ASSUME GpuTypeInv, Kernel, GpuInv'
    PROVE  GpuTypeInv'
<1>1. PICK g \in DOMAIN items : Miss(g) \/ Count(g) \/ Store(g)
  BY DEF Kernel
<1>2. launch # NoLaunch
  <2>1. items = <<>> => DOMAIN items = {}
    OBVIOUS
  <2>. QED  BY <2>1 DEF GpuTypeInv
<1>3. /\ DOMAIN items' = DOMAIN items
      /\ UNCHANGED <<localSize, batchSize, targetMs, launch, found>>
  BY <1>1 DEF Miss, Count, Store, ItemGoesTo
<1>4. LaunchInv(launch', items', outCount', slots') /\ IsFiniteSet(DOMAIN items')
  BY <1>2, <1>3 DEF GpuInv, GpuTypeInv
<1>5. outCount' <= Cardinality(DOMAIN items') /\ outCount' \in Nat
  BY <1>4, CountBounded DEF LaunchInv
<1>6. \A k \in 0..(MaxResults - 1), limb \in 1..4 : slots'[k][limb] \in 0..(Limb - 1)
  <2>1. CASE Store(g)
    BY <1>2, <2>1, StoreTypes
  <2>2. CASE Miss(g) \/ Count(g)
    BY <2>2 DEF Miss, Count, GpuTypeInv, GpuTypeOK
  <2>. QED  BY <1>1, <2>1, <2>2
<1>7. \A h \in DOMAIN items' : items'[h] \in {<<"ready">>, <<"done">>} \union
                                            {<<"hit", k>> : k \in 0..(outCount' - 1)}
  <2>1. outCount \in Nat /\ (outCount' = outCount \/ outCount' = outCount + 1)
    BY <1>1 DEF Miss, Count, Store, GpuTypeInv, GpuTypeOK
  <2>2. \A k \in 0..(outCount - 1) : k \in 0..(outCount' - 1)
    BY <2>1
  <2>3. \A h \in DOMAIN items : items[h] \in {<<"ready">>, <<"done">>} \union
                                            {<<"hit", k>> : k \in 0..(outCount - 1)}
    BY DEF GpuTypeInv, GpuTypeOK
  <2>4. \A h \in DOMAIN items : items[h] \in {<<"ready">>, <<"done">>} \union
                                            {<<"hit", k>> : k \in 0..(outCount' - 1)}
    BY <2>2, <2>3
  <2>5. CASE Miss(g) \/ Store(g)
    <3>1. items' = [items EXCEPT ![g] = <<"done">>]
      BY <2>5 DEF Miss, Store, ItemGoesTo
    <3>2. \A h \in DOMAIN items : items'[h] = <<"done">> \/ items'[h] = items[h]
      BY <3>1
    <3>. QED  BY <1>3, <2>4, <3>2
  <2>6. CASE Count(g)
    <3>1. items' = [items EXCEPT ![g] = <<"hit", outCount>>] /\ outCount \in 0..(outCount' - 1)
      BY <2>1, <2>6 DEF Count, ItemGoesTo
    <3>2. \A h \in DOMAIN items : items'[h] = <<"hit", outCount>> \/ items'[h] = items[h]
      BY <3>1
    <3>. QED  BY <1>3, <2>4, <3>1, <3>2
  <2>. QED  BY <1>1, <2>5, <2>6
<1>8. GpuTypeOK'
  BY <1>3, <1>5, <1>6, <1>7 DEF GpuTypeOK, GpuTypeInv
<1>. QED  BY <1>2, <1>3, <1>4, <1>8 DEF GpuTypeInv

LEMMA GpuTypeStep == GpuTypeInv /\ [GpuNext]_gpuVars => GpuTypeInv'
<1>. SUFFICES ASSUME GpuTypeInv, [GpuNext]_gpuVars PROVE GpuTypeInv'
  OBVIOUS
<1>1. GpuInv'
  BY GpuStep DEF GpuTypeInv
<1>2. ASSUME NEW width \in Nat, NEW size \in Int, NEW ms \in Int,
             NewWorker([maxWorkGroup |-> width], size, ms)
      PROVE  GpuTypeInv'
  BY <1>1, <1>2, NewWorkerTypes
<1>3. ASSUME localSize > 0,
             NEW challenge \in Challenges, NEW target \in 0..(Word - 1),
             NEW m \in 0..Limb, NEW base \in 0..(Word - 1), Launch(challenge, target, m, base)
      PROVE  GpuTypeInv'
  BY <1>1, <1>3, LaunchTypes
<1>4. ASSUME NEW size \in MinBatch..MaxBatch, NEW time \in Int, Collect(size, time)
      PROVE  GpuTypeInv'
  BY <1>1, <1>4, CollectTypes
<1>5. CASE UNCHANGED gpuVars
  <2>1. GpuTypeOK'
    BY <1>5 DEF gpuVars, GpuTypeInv, GpuTypeOK
  <2>. QED  BY <1>1, <1>5, <2>1 DEF gpuVars, GpuTypeInv, NoLaunch
<1>. QED  BY <1>1, <1>2, <1>3, <1>4, <1>5, KernelTypes DEF GpuNext

LEMMA GpuTypeInit == GpuIdle => GpuTypeInv
<1>. SUFFICES ASSUME GpuIdle PROVE GpuTypeInv
  OBVIOUS
<1>1. /\ localSize = 0 /\ batchSize = 0 /\ targetMs = 0 /\ launch = NoLaunch /\ items = <<>>
      /\ outCount = 0 /\ found = <<>>
  BY DEF GpuIdle
<1>2. \A k \in 0..(MaxResults - 1), limb \in 1..4 : slots[k][limb] \in 0..(Limb - 1)
  <2>. SUFFICES ASSUME NEW k \in 0..(MaxResults - 1), NEW limb \in 1..4
                PROVE  slots[k][limb] \in 0..(Limb - 1)
    OBVIOUS
  <2>1. slots[k] = Zero
    BY DEF GpuIdle
  <2>2. Zero[limb] = 0
    BY DEF Zero
  <2>. QED  BY <2>1, <2>2, GpuAssumption
<1>3. DOMAIN items = {} /\ IsFiniteSet(DOMAIN items)
  BY <1>1, FS_EmptySet
<1>4. GpuInv
  BY DEF GpuIdle, GpuInv
<1>5. GpuTypeOK
  BY <1>1, <1>2, <1>3 DEF GpuTypeOK
<1>. QED  BY <1>1, <1>3, <1>4, <1>5 DEF GpuTypeInv
=============================================================================

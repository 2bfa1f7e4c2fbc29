--------------------------- MODULE FileDataProofs ---------------------------
(***************************************************************************)
(* Proofs about FileData: what is stored is what was written, and what is  *)
(* read is what is stored, for every block size and every number of bytes, *)
(* writes and readers.                                                     *)
(***************************************************************************)
EXTENDS FileData, WellFoundedInduction, TLAPS

-----------------------------------------------------------------------------
(* Numbers.                                                                *)

\* A set of numbers that is not empty has a least element.
LEMMA Least ==
    ASSUME NEW S \in SUBSET Nat, S # {}
    PROVE  \E m \in S : \A s \in S : m <= s
<1>1. PICK m \in S : \A s \in S : ~ (<<s, m>> \in OpToRel(<, Nat))
  BY NatLessThanWellFounded, WFMin
<1>2. \A s \in S : ~ (s < m) BY <1>1, Zenon DEF OpToRel
<1>3. \A s \in S : m <= s BY <1>2
<1> QED BY <1>3, Zenon

\* Max of a bounded set of numbers: its least upper bound is one of them.
LEMMA MaxOf ==
    ASSUME NEW S \in SUBSET Nat, S # {}, NEW b \in Nat, \A s \in S : s <= b
    PROVE  Max(S) \in S /\ \A s \in S : s <= Max(S)
<1> DEFINE U == {u \in Nat : \A s \in S : s <= u}
<1>1. U \in SUBSET Nat /\ b \in U OBVIOUS
<1>2. PICK u \in U : \A v \in U : u <= v BY <1>1, Least, Zenon
<1>3. u \in S
  <2>1. SUFFICES ASSUME u \notin S PROVE FALSE OBVIOUS
  <2>2. PICK s \in S : TRUE BY Zenon
  <2>3. \A x \in S : x <= u - 1 BY <2>1
  <2>4. u - 1 \in Nat BY <2>2, <2>3
  <2>5. u - 1 \in U BY <2>3, <2>4
  <2> QED BY <1>2, <2>5
<1>4. \A y \in S : u >= y BY <1>3
<1>5. \E x \in S : \A y \in S : x >= y BY <1>3, <1>4
<1>6. Max(S) \in S /\ \A y \in S : Max(S) >= y BY <1>5, Zenon DEF Max
<1> QED BY <1>6

\* Max and Min of two numbers.
LEMMA MaxTwo ==
    ASSUME NEW a \in Nat, NEW b \in Nat
    PROVE  /\ Max({a, b}) = IF a < b THEN b ELSE a
           /\ Min({a, b}) = IF a < b THEN a ELSE b
<1>1. \E x \in {a, b} : \A y \in {a, b} : x >= y OBVIOUS
<1>2. \E x \in {a, b} : \A y \in {a, b} : x =< y OBVIOUS
<1>3. Max({a, b}) \in {a, b} /\ \A y \in {a, b} : Max({a, b}) >= y BY <1>1, Zenon DEF Max
<1>4. Min({a, b}) \in {a, b} /\ \A y \in {a, b} : Min({a, b}) =< y BY <1>2, Zenon DEF Min
<1> QED BY <1>3, <1>4

\* Where block i starts.
Start(i) == i * BlockSize

\* A block starts where the one before it ends.
LEMMA Starts ==
    ASSUME NEW i \in Nat
    PROVE  /\ Start(i) \in Nat /\ Start(i + 1) = Start(i) + BlockSize
           /\ Start(0) = 0 /\ BlockSize \in Nat \ {0}
  BY FileDataAssumption DEF Start

\* Blocks lie in the order of their numbers.
LEMMA BlockOrder ==
    ASSUME NEW i \in Nat, NEW j \in Nat, i < j
    PROVE  Start(i) + BlockSize <= Start(j)
  BY FileDataAssumption DEF Start

\* A position is the start of its block plus the offset into it.
LEMMA DivMod ==
    ASSUME NEW n \in Nat
    PROVE  /\ n \div BlockSize \in Nat /\ n % BlockSize \in 0 .. BlockSize - 1
           /\ n = Start(n \div BlockSize) + (n % BlockSize)
  BY FileDataAssumption DEF Start

\* No other block and offset are those of a position.
LEMMA DivUnique ==
    ASSUME NEW d \in Nat, NEW r \in 0 .. BlockSize - 1
    PROVE  /\ (Start(d) + r) \div BlockSize = d
           /\ (Start(d) + r) % BlockSize = r
  BY FileDataAssumption DEF Start

\* A position lies in block i or after it if it is not before the start of
\* the block.
LEMMA BlockOf ==
    ASSUME NEW i \in Nat, NEW n \in Nat
    PROVE  i <= n \div BlockSize <=> Start(i) <= n
<1>1. PICK d : d = n \div BlockSize OBVIOUS
<1>2. PICK r : r = n % BlockSize OBVIOUS
<1>3. d \in Nat /\ r \in 0 .. BlockSize - 1 /\ n = Start(d) + r BY <1>1, <1>2, DivMod
<1>4. Start(i) \in Nat /\ Start(d) \in Nat /\ BlockSize \in Nat \ {0} BY <1>3, Starts
<1>5. i < d => Start(i) + BlockSize <= Start(d) BY <1>3, BlockOrder
<1>6. d < i => Start(d) + BlockSize <= Start(i) BY <1>3, BlockOrder
<1>7. i <= d <=> Start(i) <= n BY <1>3, <1>4, <1>5, <1>6
<1> QED BY <1>1, <1>7

-----------------------------------------------------------------------------
(* Blocks put together.                                                    *)

\* A function on 1 .. n is a sequence.
LEMMA FunSeq ==
    ASSUME NEW S, NEW n \in Nat, NEW f, f = [i \in 1 .. n |-> f[i]],
           \A i \in 1 .. n : f[i] \in S
    PROVE  f \in Seq(S) /\ Len(f) = n
<1>1. f \in [1 .. n -> S] BY Zenon
<1> QED BY <1>1

\* Two sequences with the same elements are the same.
LEMMA SameSeq ==
    ASSUME NEW s \in Seq(Nat), NEW u \in Seq(Nat), Len(u) = Len(s),
           \A k \in 1 .. Len(s) : u[k] = s[k]
    PROVE  u = s
  OBVIOUS

\* Bytes s2 are bytes s and, after them, bytes w.
Longer(s2, s, w) ==
    /\ s2 \in Seq(Nat) /\ s \in Seq(Nat) /\ w \in Seq(Nat)
    /\ Len(s2) = Len(s) + Len(w)
    /\ \A k \in 1 .. Len(s) : s2[k] = s[k]
    /\ \A k \in 1 .. Len(w) : s2[Len(s) + k] = w[k]

\* That is what \o makes of them.
LEMMA ConcatIs ==
    ASSUME NEW u, NEW s, NEW t, Longer(u, s, t)
    PROVE  u = s \o t
<1>1. /\ u \in Seq(Nat) /\ s \in Seq(Nat) /\ t \in Seq(Nat)
      /\ Len(u) = Len(s) + Len(t)
      /\ \A k \in 1 .. Len(s) : u[k] = s[k]
      /\ \A k \in 1 .. Len(t) : u[Len(s) + k] = t[k]
  BY Zenon DEF Longer
<1>2. s \o t \in Seq(Nat) /\ Len(s \o t) = Len(s) + Len(t) BY <1>1
<1>3. ASSUME NEW k \in 1 .. Len(u) PROVE u[k] = (s \o t)[k]
  <2>1. Len(s) \in Nat /\ Len(t) \in Nat BY <1>1
  <2>2. CASE k <= Len(s) BY <1>1, <2>1, <2>2
  <2>3. CASE k > Len(s)
    <3>1. k - Len(s) \in 1 .. Len(t) BY <1>1, <2>1, <2>3
    <3>2. Len(s) + (k - Len(s)) = k BY <1>1, <2>1
    <3>3. u[k] = t[k - Len(s)] BY <1>1, <3>1, <3>2, Zenon
    <3> QED BY <1>1, <2>1, <2>3, <3>1, <3>3
  <2> QED BY <1>1, <2>1, <2>2, <2>3
<1> QED BY <1>1, <1>2, <1>3, SameSeq, SMTT(30)

\* Concat is the last value of a function that satisfies its recursive
\* equation, if there is one.
LEMMA ConcatChoice ==
    ASSUME NEW q,
           NEW g, g = [i \in 0 .. Len(q) |-> IF i = 0 THEN << >> ELSE g[i - 1] \o q[i]]
    PROVE  \E f : /\ f = [i \in 0 .. Len(q) |-> IF i = 0 THEN << >> ELSE f[i - 1] \o q[i]]
                  /\ Concat(q) = f[Len(q)]
<1> DEFINE P(f) == f = [i \in 0 .. Len(q) |-> IF i = 0 THEN << >> ELSE f[i - 1] \o q[i]]
<1>1. P(CHOOSE f : P(f)) BY Zenon
<1>2. Concat(q) = (CHOOSE f : P(f))[Len(q)] BY Zenon DEF Concat
<1> QED BY <1>1, <1>2, Zenon

\* All blocks are full but the last one, which may be shorter.
Cut(q) ==
    /\ q \in Seq(Seq(Nat))
    /\ \A i \in 1 .. Len(q) - 1 : Len(q[i]) = BlockSize
    /\ \A i \in 1 .. Len(q) : Len(q[i]) <= BlockSize

\* Byte k of blocks q.
Byte(q, k) == q[(k - 1) \div BlockSize + 1][((k - 1) % BlockSize) + 1]

\* Where block i ends.
End(q, i) == Start(i - 1) + Len(q[i])

\* Every byte before the end of block i lies in one of the first i blocks.
LEMMA ByteIn ==
    ASSUME NEW q, Cut(q), NEW i \in 1 .. Len(q), NEW k \in 1 .. End(q, i)
    PROVE  /\ (k - 1) \div BlockSize + 1 \in 1 .. i
           /\ ((k - 1) % BlockSize) + 1 \in 1 .. Len(q[(k - 1) \div BlockSize + 1])
           /\ Byte(q, k) \in Nat
<1>1. q \in Seq(Seq(Nat)) /\ Len(q) \in Nat /\ i \in Nat \ {0} /\ i - 1 \in Nat
      /\ i <= Len(q)
  BY DEF Cut
<1>2. Len(q[i]) \in Nat /\ Len(q[i]) <= BlockSize BY <1>1 DEF Cut
<1>3. Start(i - 1) \in Nat /\ BlockSize \in Nat \ {0} BY <1>1, Starts, Zenon
<1>4. k \in 1 .. Start(i - 1) + Len(q[i]) /\ k - 1 \in Nat BY <1>2, <1>3 DEF End
<1>5. PICK d : d = (k - 1) \div BlockSize OBVIOUS
<1>6. PICK r : r = (k - 1) % BlockSize OBVIOUS
<1>7. d \in Nat /\ r \in 0 .. BlockSize - 1 /\ k - 1 = Start(d) + r
  BY <1>4, <1>5, <1>6, DivMod
<1>8. Start(d) \in Nat BY <1>7, Starts
<1>9. d <= i - 1
  <2>1. SUFFICES ASSUME i - 1 < d PROVE FALSE BY <1>1, <1>7
  <2>2. Start(i - 1) + BlockSize <= Start(d) BY <1>1, <1>7, <2>1, BlockOrder
  <2> QED BY <1>2, <1>3, <1>4, <1>7, <1>8, <2>2, SMTT(30)
<1>10. r + 1 \in 1 .. Len(q[d + 1])
  <2>1. CASE d < i - 1
    <3>1. d + 1 \in 1 .. Len(q) - 1 BY <1>1, <1>7, <2>1
    <3>2. Len(q[d + 1]) = BlockSize BY <3>1 DEF Cut
    <3> QED BY <1>7, <1>3, <3>2
  <2>2. CASE d = i - 1
    <3>1. d + 1 = i BY <2>2, <1>1
    <3>2. r + 1 <= Len(q[i]) BY <1>2, <1>3, <1>4, <1>7, <2>2, SMTT(30)
    <3> QED BY <1>2, <1>7, <3>1, <3>2
  <2> QED BY <1>1, <1>7, <1>9, <2>1, <2>2
<1>11. d + 1 \in 1 .. i /\ d + 1 \in 1 .. Len(q) BY <1>1, <1>7, <1>9
<1>12. q[d + 1] \in Seq(Nat) BY <1>1, <1>11
<1>13. q[d + 1][r + 1] \in Nat BY <1>10, <1>12, SMTT(30)
<1> QED BY <1>5, <1>6, <1>10, <1>11, <1>13, Zenon DEF Byte

\* Concat of blocks has their bytes one after the other.
LEMMA ConcatBytes ==
    ASSUME NEW q, Cut(q)
    PROVE  /\ Concat(q) \in Seq(Nat)
           /\ Len(q) = 0 => Concat(q) = << >>
           /\ Len(q) # 0 => /\ End(q, Len(q)) \in Nat
                            /\ Concat(q) = [k \in 1 .. End(q, Len(q)) |-> Byte(q, k)]
<1> DEFINE m == Len(q)
           g == [i \in 1 .. m |-> [k \in 1 .. End(q, i) |-> Byte(q, k)]]
<1>1. q \in Seq(Seq(Nat)) /\ m \in Nat BY DEF Cut
<1>2. ASSUME NEW i \in 1 .. m
      PROVE  /\ q[i] \in Seq(Nat) /\ Len(q[i]) \in Nat /\ Len(q[i]) <= BlockSize
             /\ i - 1 \in Nat /\ Start(i - 1) \in Nat /\ BlockSize \in Nat \ {0}
             /\ End(q, i) \in Nat /\ End(q, i) = Start(i - 1) + Len(q[i])
  <2>1. q[i] \in Seq(Nat) /\ Len(q[i]) <= BlockSize /\ i - 1 \in Nat BY <1>1 DEF Cut
  <2>2. Start(i - 1) \in Nat /\ BlockSize \in Nat \ {0} BY <2>1, Starts, Zenon
  <2>3. Len(q[i]) \in Nat BY <2>1
  <2>4. End(q, i) = Start(i - 1) + Len(q[i]) BY Zenon DEF End
  <2> QED BY <2>1, <2>2, <2>3, <2>4
<1>3. ASSUME NEW i \in 1 .. m PROVE g[i] \in Seq(Nat) /\ Len(g[i]) = End(q, i)
  <2>1. \A k \in 1 .. End(q, i) : Byte(q, k) \in Nat BY ByteIn
  <2>2. g[i] = [k \in 1 .. End(q, i) |-> Byte(q, k)] BY Zenon
  <2>3. End(q, i) \in Nat BY <1>2
  <2> QED BY <2>1, <2>2, <2>3
<1>4. \A i \in 1 .. m : g[i] = [k \in 1 .. End(q, i) |-> Byte(q, k)] BY Zenon
<1> HIDE DEF g
<1>5. ASSUME NEW i \in 1 .. m, NEW r \in 1 .. Len(q[i])
      PROVE  Byte(q, Start(i - 1) + r) = q[i][r]
  <2>1. r - 1 \in 0 .. BlockSize - 1 /\ i - 1 \in Nat BY <1>2, SMTT(30)
  <2>2. /\ (Start(i - 1) + (r - 1)) \div BlockSize = i - 1
        /\ (Start(i - 1) + (r - 1)) % BlockSize = r - 1
    BY <2>1, DivUnique
  <2>3. PICK p : p = Start(i - 1) + r OBVIOUS
  <2>4. p - 1 = Start(i - 1) + (r - 1) /\ i - 1 + 1 = i /\ r - 1 + 1 = r BY <1>2, <2>3
  <2>5. (p - 1) \div BlockSize + 1 = i /\ ((p - 1) % BlockSize) + 1 = r
    BY <2>2, <2>4, Zenon
  <2>6. Byte(q, p) = q[i][r] BY <2>5, Zenon DEF Byte
  <2> QED BY <2>3, <2>6, Zenon
<1>6. ASSUME m # 0 PROVE g[1] = q[1]
  <2>1. 1 \in 1 .. m BY <1>1, <1>6
  <2>2. Start(1 - 1) = 0 BY Starts
  <2>3. End(q, 1) = Len(q[1]) BY <1>2, <2>1, <2>2
  <2>4. \A r \in 1 .. Len(q[1]) : Byte(q, r) = q[1][r]
    <3>1. \A r \in 1 .. Len(q[1]) : Byte(q, Start(1 - 1) + r) = q[1][r] BY <1>5, <2>1
    <3> QED BY <2>2, <3>1
  <2>5. q[1] = [k \in 1 .. Len(q[1]) |-> q[1][k]] BY <1>2, <2>1
  <2> QED BY <1>4, <2>1, <2>3, <2>4, <2>5
<1>7. ASSUME NEW i \in 2 .. m PROVE g[i] = g[i - 1] \o q[i]
  <2>1. i \in 1 .. m /\ i - 1 \in 1 .. m - 1 /\ i - 1 \in 1 .. m BY <1>1
  <2>2. Len(q[i - 1]) = BlockSize BY <2>1 DEF Cut
  <2>3. Start((i - 1) - 1 + 1) = Start((i - 1) - 1) + BlockSize BY <2>1, Starts
  <2>4. End(q, i - 1) = Start(i - 1)
    <3>1. (i - 1) - 1 + 1 = i - 1 BY <2>1
    <3> QED BY <1>2, <2>1, <2>2, <2>3, <3>1
  <2>5. g[i - 1] \in Seq(Nat) /\ Len(g[i - 1]) = Start(i - 1) BY <1>3, <2>1, <2>4
  <2>6. q[i] \in Seq(Nat) BY <1>2, <2>1
  <2>7. g[i] \in Seq(Nat) /\ Len(g[i]) = Len(g[i - 1]) + Len(q[i])
    BY <1>2, <1>3, <2>1, <2>5
  <2>8. /\ Start(i - 1) \in Nat /\ Len(q[i]) \in Nat
         /\ End(q, i) = Start(i - 1) + Len(q[i])
    BY <1>2, <2>1, Zenon
  <2>9. ASSUME NEW k \in 1 .. Len(g[i - 1]) PROVE g[i][k] = g[i - 1][k]
    <3>1. k \in 1 .. End(q, i - 1) BY <1>3, <2>1, Zenon
    <3>2. k \in 1 .. End(q, i) BY <2>4, <2>8, <3>1
    <3>3. g[i][k] = Byte(q, k) BY <1>4, <2>1, <3>2, Zenon
    <3>4. g[i - 1][k] = Byte(q, k)
      <4>1. g[i - 1] = [x \in 1 .. End(q, i - 1) |-> Byte(q, x)] BY <1>4, <2>1, Zenon
      <4> QED BY <3>1, <4>1, Zenon
    <3> QED BY <3>3, <3>4, Zenon
  <2>10. ASSUME NEW k \in 1 .. Len(q[i]) PROVE g[i][Len(g[i - 1]) + k] = q[i][k]
    <3>1. Start(i - 1) + k \in 1 .. End(q, i) BY <2>8
    <3>2. g[i][Start(i - 1) + k] = Byte(q, Start(i - 1) + k) BY <1>4, <2>1, <3>1, Zenon
    <3>3. Byte(q, Start(i - 1) + k) = q[i][k] BY <1>5, <2>1, Zenon
    <3> QED BY <2>5, <3>2, <3>3, Zenon
  <2>11. Longer(g[i], g[i - 1], q[i]) BY <2>5, <2>6, <2>7, <2>9, <2>10, Zenon DEF Longer
  <2> QED BY <2>11, ConcatIs, Zenon
<1> DEFINE h == [i \in 0 .. m |-> IF i = 0 THEN << >> ELSE g[i]]
<1>8. /\ h = [i \in 0 .. m |-> h[i]] /\ h[0] = << >>
      /\ \A i \in 1 .. m : h[i] = g[i]
  <2>1. 0 \in 0 .. m /\ \A i \in 1 .. m : i \in 0 .. m /\ i # 0 BY <1>1
  <2> QED BY <2>1, Zenon
<1> HIDE DEF h
<1>9. h = [i \in 0 .. Len(q) |-> IF i = 0 THEN << >> ELSE h[i - 1] \o q[i]]
  <2>1. ASSUME NEW i \in 0 .. m, i # 0 PROVE h[i] = h[i - 1] \o q[i]
    <3>1. CASE i = 1
      <4>1. m # 0 /\ 1 \in 1 .. m BY <1>1, <2>1, <3>1
      <4>2. q[1] \in Seq(Nat) BY <1>2, <4>1
      <4>3. << >> \o q[1] = q[1] BY <4>2
      <4>4. h[1] = q[1] BY <1>6, <1>8, <4>1, Zenon
      <4>5. i - 1 = 0 BY <3>1
      <4> QED BY <1>8, <3>1, <4>3, <4>4, <4>5, Zenon
    <3>2. CASE i # 1
      <4>1. i \in 2 .. m /\ i \in 1 .. m /\ i - 1 \in 1 .. m BY <1>1, <2>1, <3>2
      <4> QED BY <1>7, <1>8, <4>1, Zenon
    <3> QED BY <3>1, <3>2, Zenon
  <2>2. \A i \in 0 .. m : h[i] = IF i = 0 THEN << >> ELSE h[i - 1] \o q[i]
    BY <1>8, <2>1, Zenon
  <2> QED BY <1>8, <2>2, Zenon
<1>10. PICK f : /\ f = [i \in 0 .. Len(q) |-> IF i = 0 THEN << >> ELSE f[i - 1] \o q[i]]
                /\ Concat(q) = f[Len(q)]
  BY <1>9, ConcatChoice, Zenon
<1>11. \A i \in 0 .. m : f[i] = h[i]
  <2> DEFINE Bad == {i \in 0 .. m : f[i] # h[i]}
  <2>1. SUFFICES ASSUME Bad # {} PROVE FALSE OBVIOUS
  <2>2. Bad \in SUBSET Nat BY <1>1
  <2>3. PICK i \in Bad : \A j \in Bad : i <= j BY <2>1, <2>2, Least, Zenon
  <2>4. i \in 0 .. m /\ f[i] # h[i] BY <2>3
  <2>5. f[i] = IF i = 0 THEN << >> ELSE f[i - 1] \o q[i] BY <1>10, <2>4, Zenon
  <2>6. h[i] = IF i = 0 THEN << >> ELSE h[i - 1] \o q[i] BY <1>9, <2>4, Zenon
  <2>7. i # 0 => i - 1 \in 0 .. m /\ i - 1 \notin Bad BY <2>3, <2>4, <1>1
  <2> QED BY <2>4, <2>5, <2>6, <2>7, Zenon
<1>12. Concat(q) = h[m]
  <2>1. m \in 0 .. m BY <1>1
  <2> QED BY <1>10, <1>11, <2>1, Zenon
<1>13. CASE m = 0
  <2>1. Concat(q) = << >> BY <1>8, <1>12, <1>13, Zenon
  <2> QED BY <1>13, <2>1
<1>14. CASE m # 0
  <2>1. m \in 1 .. m BY <1>1, <1>14
  <2>2. g[m] = [k \in 1 .. End(q, m) |-> Byte(q, k)] /\ g[m] \in Seq(Nat) /\ End(q, m) \in Nat
    BY <1>2, <1>3, <1>4, <2>1
  <2> QED BY <1>8, <1>12, <1>14, <2>1, <2>2, Zenon
<1> QED BY <1>13, <1>14

\* A byte that lies in a block lies before the end of the blocks.
LEMMA Within ==
    ASSUME NEW q, Cut(q), NEW d \in Nat, NEW r \in 0 .. BlockSize - 1,
           d + 1 <= Len(q), r + 1 <= Len(q[d + 1])
    PROVE  Start(d) + r + 1 \in 1 .. End(q, Len(q))
<1>1. Len(q) \in Nat /\ d + 1 \in 1 .. Len(q) /\ Len(q) \in 1 .. Len(q) /\ Len(q) - 1 \in Nat
  BY DEF Cut
<1>2. Len(q[Len(q)]) \in Nat BY <1>1 DEF Cut
<1>3. Start(d) \in Nat /\ Start(Len(q) - 1) \in Nat /\ BlockSize \in Nat \ {0} BY <1>1, Starts, Zenon
<1>4. End(q, Len(q)) = Start(Len(q) - 1) + Len(q[Len(q)]) BY Zenon DEF End
<1>5. CASE d < Len(q) - 1
  <2>1. Start(d) + BlockSize <= Start(Len(q) - 1) BY <1>1, <1>5, BlockOrder
  <2>2. Start(d) + r + 1 <= Start(d) + BlockSize BY <1>3
  <2>3. Start(d) + r + 1 <= Start(Len(q) - 1) + Len(q[Len(q)]) BY <1>2, <1>3, <2>1, <2>2, SMTT(30)
  <2> QED BY <1>3, <1>4, <2>3, SMTT(20)
<1>6. CASE d = Len(q) - 1
  <2>1. d + 1 = Len(q) BY <1>1, <1>6
  <2>2. r + 1 <= Len(q[Len(q)]) BY <2>1
  <2> QED BY <1>2, <1>3, <1>4, <1>6, <2>2
<1> QED BY <1>1, <1>5, <1>6

-----------------------------------------------------------------------------
(* Files that hold the bytes of a sequence.                                *)

\* Byte p of s is where get and read_data look for it.
Stores(ino, s) ==
    /\ Cut(ino.sub) /\ ino.filesize = Len(s)
    /\ \A p \in 1 .. Len(s) :
         LET d == (p - 1) \div BlockSize
             r == (p - 1) % BlockSize
         IN /\ d + 1 <= Len(ino.sub) /\ r + 1 <= Len(ino.sub[d + 1])
            /\ ino.sub[d + 1][r + 1] = s[p]

\* Byte p of s is byte r of block d.
ByteAt(sub, s, p, d, r) ==
    /\ p - 1 = Start(d) + r
    /\ d = (p - 1) \div BlockSize /\ r = (p - 1) % BlockSize
    /\ d + 1 <= Len(sub) /\ r + 1 <= Len(sub[d + 1])
    /\ sub[d + 1][r + 1] = s[p]

\* Each byte of s is at such a place.
LEMMA StoredAt ==
    ASSUME NEW ino, NEW s \in Seq(Nat), Stores(ino, s), NEW p \in 1 .. Len(s),
           NEW sub, sub = ino.sub
    PROVE  \E d \in Nat, r \in 0 .. BlockSize - 1 : ByteAt(sub, s, p, d, r)
<1>1. PICK d : d = (p - 1) \div BlockSize OBVIOUS
<1>2. PICK r : r = (p - 1) % BlockSize OBVIOUS
<1>3. p - 1 \in Nat OBVIOUS
<1>4. d \in Nat /\ r \in 0 .. BlockSize - 1 /\ p - 1 = Start(d) + r
  BY <1>1, <1>2, <1>3, DivMod
<1>5. /\ d + 1 <= Len(sub) /\ r + 1 <= Len(sub[d + 1])
      /\ sub[d + 1][r + 1] = s[p]
  BY <1>1, <1>2, Zenon DEF Stores
<1> QED BY <1>1, <1>2, <1>4, <1>5, Zenon DEF ByteAt

\* SDK::get of a file that holds s returns s.
LEMMA GetStored ==
    ASSUME NEW ino, NEW s \in Seq(Nat), Stores(ino, s)
    PROVE  get(ino) = s
<1>1. PICK q : q = ino.sub OBVIOUS
<1>2. PICK fl : fl = Concat(q) OBVIOUS
<1>3. Cut(q) /\ ino.filesize = Len(s) BY <1>1, Zenon DEF Stores
<1>4. get(ino) = [k \in 1 .. Len(s) |-> IF k <= Len(fl) THEN fl[k] ELSE NUL]
  BY <1>1, <1>2, <1>3, Zenon DEF get, Resized
<1>5. ASSUME NEW p \in 1 .. Len(s) PROVE p <= Len(fl) /\ fl[p] = s[p]
  <2>1. PICK d \in Nat, r \in 0 .. BlockSize - 1 : ByteAt(q, s, p, d, r)
    BY <1>1, StoredAt, Zenon
  <2>2. /\ p - 1 = Start(d) + r
        /\ d = (p - 1) \div BlockSize /\ r = (p - 1) % BlockSize
        /\ d + 1 <= Len(q) /\ r + 1 <= Len(q[d + 1])
        /\ q[d + 1][r + 1] = s[p]
    BY <2>1, Zenon DEF ByteAt
  <2>3. Len(q) # 0 BY <1>3, <2>2 DEF Cut
  <2>4. PICK e : e = End(q, Len(q)) OBVIOUS
  <2>5. e \in Nat /\ fl = [k \in 1 .. e |-> Byte(q, k)] BY <1>2, <1>3, <2>3, <2>4, ConcatBytes
  <2>6. Start(d) + r + 1 \in 1 .. e BY <1>3, <2>2, <2>4, Within, Zenon
  <2>7. Start(d) \in Nat BY Starts, Zenon
  <2>8. Start(d) + r + 1 = p BY <2>2, <2>7
  <2>9. Byte(q, p) = s[p] BY <2>2, Zenon DEF Byte
  <2> QED BY <2>5, <2>6, <2>8, <2>9
<1>6. s = [k \in 1 .. Len(s) |-> s[k]] OBVIOUS
<1> QED BY <1>4, <1>5, <1>6, Zenon

\* The position after the r-th from u.
LEMMA After ==
    ASSUME NEW p \in Nat, NEW u \in Nat, NEW r \in Nat, p - 1 = u + r
    PROVE  u + (r + 1) = p
  OBVIOUS

\* Positions counted from u.
LEMMA Shift ==
    ASSUME NEW p \in Nat, NEW u \in Nat, NEW v \in Nat, NEW r \in Nat,
           p - 1 = u + v + r, NEW k, k = p - u
    PROVE  k = v + r + 1 /\ k - 1 = v + r
  OBVIOUS

\* Bytes are as far apart as their blocks.
LEMMA StartAdd ==
    ASSUME NEW a \in Nat, NEW b \in Nat, a <= b
    PROVE  b - a \in Nat /\ Start(b) = Start(a) + Start(b - a)
  BY FileDataAssumption DEF Start

\* Sequence u has the bytes of s from the start of block first to the end of
\* the block before second, as far as they go.
Covers(u, s, first, second) ==
    /\ u \in Seq(Nat)
    /\ \A p \in 1 .. Len(s) : Start(first) < p /\ (p - 1) \div BlockSize < second =>
         p - Start(first) \in 1 .. Len(u) /\ u[p - Start(first)] = s[p]

\* What read_data takes for blocks first, ..., second - 1 are the blocks.
Matching(t, ino, first, second) ==
    \A i \in first .. second - 1 : i < Len(ino.sub) => Block(t, ino, i) = ino.sub[i + 1]

\* Blocks first, ..., second - 1 of a file that holds s, read where each block
\* file has the block or nothing: the bytes of s from the start of the first
\* block, as far as they go.
LEMMA ReadBlocks ==
    ASSUME NEW ino, NEW s \in Seq(Nat), Stores(ino, s), NEW t,
           NEW first \in Nat, NEW second \in Nat, first < second,
           Matching(t, ino, first, second)
    PROVE  Covers(read_blocks(t, ino, first, second), s, first, second)
<1>1. PICK sub : sub = ino.sub OBVIOUS
<1>2. Cut(sub) BY <1>1, Zenon DEF Stores
<1>3. sub \in Seq(Seq(Nat)) /\ Len(sub) \in Nat BY <1>2 DEF Cut
<1>4. PICK have : have = IF Len(sub) <= first THEN first
                         ELSE IF second < Len(sub) THEN second ELSE Len(sub)
  OBVIOUS
<1>5. Min({second, Max({first, Len(ino.sub)})}) = have
  <2>1. Max({first, Len(sub)}) = IF first < Len(sub) THEN Len(sub) ELSE first
    BY <1>3, MaxTwo, SMTT(30)
  <2>2. PICK x : x = Max({first, Len(sub)}) OBVIOUS
  <2>3. x \in Nat BY <1>3, <2>1, <2>2
  <2>4. Min({second, x}) = IF second < x THEN second ELSE x BY <2>3, MaxTwo, Zenon
  <2>5. Min({second, x}) = have BY <1>3, <1>4, <2>1, <2>2, <2>4
  <2> QED BY <1>1, <2>2, <2>5
<1>6. have \in Nat /\ have - first \in Nat /\ second - have \in Nat BY <1>3, <1>4
<1> DEFINE q == [j \in 1 .. have - first |-> Block(t, ino, first + j - 1)]
           z == [k \in 1 .. (second - have) * BlockSize |-> NUL]
<1>7. read_blocks(t, ino, first, second) = Concat(q) \o z
  BY <1>5, Zenon DEF read_blocks
<1>8. ASSUME NEW j \in 1 .. have - first
      PROVE  first + j \in 1 .. Len(sub) /\ q[j] = sub[first + j]
  <2>1. first + j \in 1 .. Len(sub) BY <1>3, <1>4, <1>6
  <2>2. first + j - 1 \in first .. second - 1 /\ first + j - 1 < Len(sub)
        /\ first + j - 1 + 1 = first + j
    BY <1>3, <1>4, <1>6
  <2>3. Block(t, ino, first + j - 1) = sub[first + j] BY <1>1, <2>2 DEF Matching
  <2> QED BY <2>1, <2>3, Zenon
<1>9. q = [j \in 1 .. have - first |-> sub[first + j]] BY <1>8, Zenon
<1>10. z \in Seq(Nat)
  <2>1. (second - have) * BlockSize \in Nat BY <1>6, Starts, Zenon DEF Start
  <2> QED BY <2>1 DEF NUL
<1>11. q \in Seq(Seq(Nat)) /\ Len(q) = have - first
  <2>1. \A j \in 1 .. have - first : sub[first + j] \in Seq(Nat) BY <1>3, <1>8
  <2>2. PICK n : n = have - first OBVIOUS
  <2>3. n \in Nat /\ \A j \in 1 .. n : sub[first + j] \in Seq(Nat) BY <1>6, <2>1, <2>2
  <2>4. [j \in 1 .. n |-> sub[first + j]] \in Seq(Seq(Nat))
        /\ Len([j \in 1 .. n |-> sub[first + j]]) = n
    BY <2>3
  <2>5. q = [j \in 1 .. n |-> sub[first + j]] BY <1>9, <2>2, Zenon
  <2> QED BY <2>2, <2>4, <2>5, Zenon
<1> HIDE DEF q, z
<1>12. Cut(q)
  <2>1. \A j \in 1 .. Len(q) : Len(q[j]) <= BlockSize BY <1>2, <1>8, <1>11, Zenon DEF Cut
  <2>2. ASSUME NEW j \in 1 .. Len(q) - 1 PROVE Len(q[j]) = BlockSize
    <3>1. j \in 1 .. have - first /\ first + j \in 1 .. Len(sub) - 1
      BY <1>3, <1>4, <1>6, <1>11
    <3>2. Len(sub[first + j]) = BlockSize BY <1>2, <3>1, Zenon DEF Cut
    <3> QED BY <1>8, <3>1, <3>2
  <2> QED BY <1>11, <2>1, <2>2 DEF Cut
<1>13. Concat(q) \in Seq(Nat)
       /\ (Len(q) # 0 => Concat(q) = [k \in 1 .. End(q, Len(q)) |-> Byte(q, k)]
                         /\ End(q, Len(q)) \in Nat)
  BY <1>12, ConcatBytes, Zenon
<1>14. PICK fl : fl = Concat(q) OBVIOUS
<1>15. fl \o z \in Seq(Nat) /\ Len(fl \o z) = Len(fl) + Len(z)
  BY <1>10, <1>13, <1>14
<1>16. ASSUME NEW p \in 1 .. Len(s), Start(first) < p, (p - 1) \div BlockSize < second
       PROVE  /\ p - Start(first) \in 1 .. Len(fl)
              /\ fl[p - Start(first)] = s[p]
  <2>1. PICK d \in Nat, r \in 0 .. BlockSize - 1 : ByteAt(sub, s, p, d, r)
    BY <1>1, StoredAt, Zenon
  <2>2. /\ p - 1 = Start(d) + r
        /\ d = (p - 1) \div BlockSize /\ r = (p - 1) % BlockSize
        /\ d + 1 <= Len(sub) /\ r + 1 <= Len(sub[d + 1])
        /\ sub[d + 1][r + 1] = s[p]
    BY <2>1, Zenon DEF ByteAt
  <2>3. Start(first) \in Nat /\ Start(d) \in Nat /\ BlockSize \in Nat \ {0} BY Starts, Zenon
  <2>4. p - 1 \in Nat /\ p \in Nat /\ r \in Nat BY <2>3
  <2>5. first <= d
    <3>1. first <= (p - 1) \div BlockSize <=> Start(first) <= p - 1 BY <2>4, BlockOf
    <3>2. Start(first) <= p - 1 BY <1>16, <2>3, <2>4, SMTT(30)
    <3> QED BY <2>2, <3>1, <3>2
  <2>6. PICK e : e = d - first OBVIOUS
  <2>7. e \in Nat /\ Start(d) = Start(first) + Start(e) /\ Start(e) \in Nat
    BY <2>5, <2>6, StartAdd, Starts, Zenon
  <2>8. e + 1 \in 1 .. have - first /\ first + (e + 1) = d + 1
    <3>1. d < second BY <1>16, <2>2, Zenon
    <3>2. d + 1 <= Len(sub) BY <2>2, Zenon
    <3>3. d < have BY <1>3, <1>4, <2>5, <3>1, <3>2, SMTT(30)
    <3> QED BY <1>6, <2>5, <2>6, <3>3
  <2>9. q[e + 1] = sub[d + 1] BY <1>8, <2>8, SMTT(30)
  <2>10. e + 1 <= Len(q) /\ r + 1 <= Len(q[e + 1]) /\ Len(q) # 0
    BY <1>6, <1>11, <2>2, <2>7, <2>8, <2>9
  <2>11. Start(e) + r + 1 \in 1 .. End(q, Len(q)) BY <1>12, <2>7, <2>10, Within
  <2>12. PICK k : k = p - Start(first) OBVIOUS
  <2>13. k = Start(e) + r + 1 /\ k - 1 = Start(e) + r
    <3>1. p - 1 = Start(first) + Start(e) + r BY <2>3, <2>2, <2>4, <2>7
    <3>2. PICK u : u = Start(first) OBVIOUS
    <3>3. PICK v : v = Start(e) OBVIOUS
    <3>4. u \in Nat /\ v \in Nat /\ k = p - u /\ p - 1 = u + v + r
      BY <2>3, <2>7, <2>12, <3>1, <3>2, <3>3, Zenon
    <3>5. k = v + r + 1 /\ k - 1 = v + r BY <2>4, <3>4, Shift
    <3> QED BY <3>3, <3>5, Zenon
  <2>14. (k - 1) \div BlockSize = e /\ (k - 1) % BlockSize = r BY <2>7, <2>13, DivUnique
  <2>15. Byte(q, k) = q[e + 1][r + 1] BY <2>14, Zenon DEF Byte
  <2>16. PICK n : n = End(q, Len(q)) OBVIOUS
  <2>17. n \in Nat /\ fl = [x \in 1 .. n |-> Byte(q, x)] /\ k \in 1 .. n
    BY <1>13, <1>14, <2>10, <2>11, <2>13, <2>16
  <2> QED BY <2>2, <2>9, <2>12, <2>15, <2>17
<1>17. ASSUME NEW k \in 1 .. Len(fl) PROVE k \in 1 .. Len(fl \o z) /\ (fl \o z)[k] = fl[k]
  <2>1. fl \in Seq(Nat) /\ Len(fl) \in Nat /\ Len(z) \in Nat BY <1>10, <1>13, <1>14
  <2> QED BY <1>10, <1>15, <2>1
<1>18. read_blocks(t, ino, first, second) = fl \o z BY <1>7, <1>14, Zenon
<1> QED BY <1>15, <1>16, <1>17, <1>18, Zenon DEF Covers

\* SubSeq, element by element.
LEMMA SubSeqIs ==
    ASSUME NEW s \in Seq(Nat), NEW a \in Nat, NEW n \in Nat, a + n <= Len(s)
    PROVE  /\ SubSeq(s, a + 1, a + n) = [k \in 1 .. n |-> s[a + k]]
           /\ SubSeq(s, a + 1, a + n) \in Seq(Nat)
<1>1. PICK l : l = a + 1 OBVIOUS
<1>2. PICK h : h = a + n OBVIOUS
<1>3. l \in Nat \ {0} /\ h \in Nat /\ h - l + 1 = n /\ h <= Len(s) BY <1>1, <1>2
<1>4. SubSeq(s, l, h) \in Seq(Nat) BY <1>3
<1>5. Len(SubSeq(s, l, h)) = n BY <1>3
<1>6. \A k \in 1 .. n : SubSeq(s, l, h)[k] = s[l + k - 1] BY <1>3
<1>7. \A k \in 1 .. n : l + k - 1 = a + k BY <1>1
<1>8. \A k \in 1 .. n : SubSeq(s, l, h)[k] = s[a + k] BY <1>6, <1>7, Zenon
<1>9. PICK w : w = SubSeq(s, l, h) BY Zenon
<1>10. w = [k \in 1 .. n |-> s[a + k]]
  <2>1. w \in Seq(Nat) /\ Len(w) = n BY <1>4, <1>5, <1>9, Zenon
  <2>2. w = [k \in 1 .. n |-> w[k]] BY <2>1
  <2>3. \A k \in 1 .. n : w[k] = s[a + k] BY <1>8, <1>9, Zenon
  <2> QED BY <2>2, <2>3, Zenon
<1> QED BY <1>1, <1>2, <1>4, <1>9, <1>10, Zenon

\* read_data takes the blocks of the file for the block files.
AsStored(t, ino) == \A i \in Nat : i < Len(ino.sub) => Block(t, ino, i) = ino.sub[i + 1]

\* read_data of a file that holds s returns the bytes of s in the range, if
\* each block file has the block or nothing.
LEMMA ReadStored ==
    ASSUME NEW ino, NEW s \in Seq(Nat), Stores(ino, s),
           AsStored(tmp, ino),
           NEW offset \in Nat, NEW size \in Nat
    PROVE  read_data(ino, offset, size)
             = SubSeq(s, offset + 1, Min({offset + size, Len(s)}))
<1>1. ino.filesize = Len(s) /\ Len(s) \in Nat BY DEF Stores
<1>2. Min({offset + size, Len(s)}) = IF offset + size < Len(s) THEN offset + size ELSE Len(s)
  <2>1. PICK x : x = offset + size OBVIOUS
  <2>2. x \in Nat BY <2>1
  <2>3. Min({x, Len(s)}) = IF x < Len(s) THEN x ELSE Len(s) BY <1>1, <2>2, MaxTwo, Zenon
  <2> QED BY <2>1, <2>3
<1>3. CASE Len(s) < offset
  <2>1. read_data(ino, offset, size) = << >> BY <1>1, <1>3 DEF read_data
  <2>2. Min({offset + size, Len(s)}) = Len(s) BY <1>1, <1>2, <1>3
  <2>3. SubSeq(s, offset + 1, Len(s)) = << >> BY <1>1, <1>3
  <2> QED BY <2>1, <2>2, <2>3, Zenon
<1>4. CASE Len(s) >= offset
  <2>1. PICK n : n = IF Len(s) < offset + size THEN Len(s) - offset ELSE size OBVIOUS
  <2>2. n \in Nat /\ offset + n <= Len(s) /\ offset + n \in Nat BY <1>1, <1>4, <2>1
  <2>3. Clipped(ino, offset, size) = n BY <1>1, <1>4, <2>1 DEF Clipped
  <2>4. Min({offset + size, Len(s)}) = offset + n BY <1>1, <1>2, <1>4, <2>1
  <2>5. PICK first : first = offset \div BlockSize OBVIOUS
  <2>6. PICK last : last = (offset + n) \div BlockSize OBVIOUS
  <2>7. first \in Nat /\ last \in Nat /\ Start(first) <= offset /\ Start(first) \in Nat
    <3>1. PICK r : r = offset % BlockSize OBVIOUS
    <3>2. first \in Nat /\ r \in 0 .. BlockSize - 1 /\ offset = Start(first) + r
      BY <2>5, <3>1, DivMod
    <3>3. last \in Nat BY <2>2, <2>6, DivMod
    <3>4. Start(first) \in Nat /\ BlockSize \in Nat \ {0} BY <3>2, Starts
    <3> QED BY <3>2, <3>3, <3>4
  <2>8. first <= last
    <3>1. first <= (offset + n) \div BlockSize <=> Start(first) <= offset + n
      BY <2>2, <2>7, BlockOf
    <3> QED BY <2>2, <2>6, <2>7, <3>1
  <2>9. PICK u : u = read_blocks(tmp, ino, first, last + 1) OBVIOUS
  <2>10. PICK from : from = offset - Start(first) OBVIOUS
  <2>11. from \in Nat BY <2>7, <2>10
  <2>12. read_data(ino, offset, size)
           = IF from + n > Len(u) THEN None ELSE SubSeq(u, from + 1, from + n)
    <3>1. get_indexs(offset, n) = <<first, last + 1>>
      BY <2>5, <2>6, Zenon DEF get_indexs, align_index_down, align_index_up
    <3>2. get_indexs(offset, n)[1] = first /\ get_indexs(offset, n)[2] = last + 1 BY <3>1
    <3>3. from = offset - first * BlockSize BY <2>10, Zenon DEF Start
    <3>4. ~ (ino.filesize < offset) /\ ino.filesize >= offset BY <1>1, <1>4
    <3> QED BY <2>3, <2>9, <3>2, <3>3, <3>4 DEF read_data
  <2>13. /\ u \in Seq(Nat)
         /\ \A p \in 1 .. Len(s) : Start(first) < p /\ (p - 1) \div BlockSize < last + 1 =>
              p - Start(first) \in 1 .. Len(u) /\ u[p - Start(first)] = s[p]
    <3>1. PICK second : second = last + 1 OBVIOUS
    <3>2. first < second /\ second \in Nat BY <2>7, <2>8, <3>1
    <3>3. \A i \in first .. second - 1 : i \in Nat BY <2>7, <3>2
    <3>4. Matching(tmp, ino, first, second) BY <3>3, Zenon DEF Matching, AsStored
    <3>5. u = read_blocks(tmp, ino, first, second) BY <2>9, <3>1, Zenon
    <3>6. Covers(u, s, first, second) BY <2>7, <3>2, <3>4, <3>5, ReadBlocks
    <3> QED BY <3>1, <3>6, Zenon DEF Covers
  <2>14. ASSUME NEW p \in 1 .. offset + n, Start(first) < p
         PROVE  p - Start(first) \in 1 .. Len(u) /\ u[p - Start(first)] = s[p]
    <3>1. p \in 1 .. Len(s) /\ p - 1 \in Nat BY <1>1, <2>2
    <3>2. PICK d : d = (p - 1) \div BlockSize OBVIOUS
    <3>3. d \in Nat BY <3>1, <3>2, DivMod
    <3>4. d <= last
      <4>1. d <= (p - 1) \div BlockSize <=> Start(d) <= p - 1 BY <3>1, <3>3, BlockOf
      <4>2. Start(d) <= p - 1 /\ Start(d) \in Nat BY <3>2, <3>3, <4>1, Starts
      <4>3. Start(d) <= offset + n BY <2>2, <3>1, <4>2
      <4>4. d <= (offset + n) \div BlockSize <=> Start(d) <= offset + n BY <2>2, <3>3, BlockOf
      <4> QED BY <2>6, <4>3, <4>4
    <3>5. (p - 1) \div BlockSize < last + 1 BY <2>7, <3>2, <3>3, <3>4
    <3> QED BY <2>13, <2>14, <3>1, <3>5
  <2>15. from + n <= Len(u)
    <3>1. CASE from + n = 0 BY <2>13, <3>1
    <3>2. CASE from + n # 0
      <4>1. PICK p : p = offset + n OBVIOUS
      <4>2. p \in 1 .. offset + n /\ Start(first) < p /\ p - Start(first) = from + n
        BY <2>2, <2>7, <2>10, <2>11, <3>2, <4>1, SMTT(30)
      <4>3. p - Start(first) \in 1 .. Len(u) BY <2>14, <4>2
      <4> QED BY <2>13, <4>2, <4>3
    <3> QED BY <3>1, <3>2
  <2>16. ASSUME NEW k \in 1 .. n PROVE u[from + k] = s[offset + k]
    <3>1. PICK p : p = offset + k OBVIOUS
    <3>2. p \in 1 .. offset + n /\ Start(first) < p /\ p - Start(first) = from + k
      BY <2>2, <2>7, <2>10, <3>1
    <3> QED BY <2>14, <3>1, <3>2
  <2>17. SubSeq(u, from + 1, from + n) = SubSeq(s, offset + 1, offset + n)
    <3>1. from + n <= Len(u) /\ offset + n <= Len(s) BY <2>2, <2>15, Zenon
    <3>2. u \in Seq(Nat) /\ from \in Nat /\ n \in Nat BY <2>2, <2>11, <2>13, Zenon
    <3>3. SubSeq(u, from + 1, from + n) = [k \in 1 .. n |-> u[from + k]]
      BY <3>1, <3>2, SubSeqIs
    <3>4. SubSeq(s, offset + 1, offset + n) = [k \in 1 .. n |-> s[offset + k]]
      BY <3>1, <3>2, SubSeqIs
    <3> QED BY <2>16, <3>3, <3>4, Zenon
  <2>18. ~ (from + n > Len(u)) BY <2>2, <2>11, <2>13, <2>15
  <2> QED BY <2>4, <2>12, <2>17, <2>18, Zenon
<1>5. Len(s) < offset \/ Len(s) >= offset BY <1>1
<1> QED BY <1>3, <1>4, <1>5, Zenon

\* A file of n blocks that hold s, given by where the bytes are.
LEMMA StoresIf ==
    ASSUME NEW s \in Seq(Nat), NEW ino, NEW sub, sub = ino.sub, Cut(sub), ino.filesize = Len(s),
           ASSUME NEW p \in 1 .. Len(s), NEW d \in Nat, NEW r \in 0 .. BlockSize - 1,
                  p - 1 = Start(d) + r
           PROVE  d + 1 <= Len(sub) /\ r + 1 <= Len(sub[d + 1]) /\ sub[d + 1][r + 1] = s[p]
    PROVE  Stores(ino, s)
<1>1. ASSUME NEW p \in 1 .. Len(s)
      PROVE  LET d == (p - 1) \div BlockSize
                 r == (p - 1) % BlockSize
             IN /\ d + 1 <= Len(ino.sub) /\ r + 1 <= Len(ino.sub[d + 1])
                /\ ino.sub[d + 1][r + 1] = s[p]
  <2>1. PICK d : d = (p - 1) \div BlockSize OBVIOUS
  <2>2. PICK r : r = (p - 1) % BlockSize OBVIOUS
  <2>3. p - 1 \in Nat OBVIOUS
  <2>4. d \in Nat /\ r \in 0 .. BlockSize - 1 /\ p - 1 = Start(d) + r
    BY <2>1, <2>2, <2>3, DivMod
  <2>5. d + 1 <= Len(sub) /\ r + 1 <= Len(sub[d + 1]) /\ sub[d + 1][r + 1] = s[p] BY <2>4, Zenon
  <2> QED BY <2>1, <2>2, <2>5, Zenon
<1> QED BY <1>1, Zenon DEF Stores

\* SDK::put stores a file that holds the bytes: the tail that its buffer
\* leaves in the last block is never reached.
LEMMA PutStores ==
    ASSUME NEW s \in Seq(Nat)
    PROVE  /\ Stores(put_file(s), s) /\ put_file(s) \in File
           /\ Len(put_file(s).sub) = (Len(s) + BlockSize - 1) \div BlockSize
<1>1. Len(s) \in Nat /\ BlockSize \in Nat \ {0} BY FileDataAssumption
<1>2. PICK m : m = Len(s) + BlockSize - 1 OBVIOUS
<1>3. PICK n : n = m \div BlockSize OBVIOUS
<1>4. m \in Nat /\ n \in Nat
  <2>1. m \in Nat BY <1>1, <1>2
  <2> QED BY <1>3, <2>1, DivMod
<1>5. Start(n) <= m
  <2>1. n <= m \div BlockSize <=> Start(n) <= m BY <1>4, BlockOf
  <2> QED BY <1>3, <1>4, <2>1
<1> DEFINE At(p) == CASE p <= Len(s) -> s[p]
                      [] p > Len(s) /\ p > BlockSize -> s[p - BlockSize]
                      [] OTHER -> NUL
           sub == [i \in 1 .. n |-> [k \in 1 .. BlockSize |-> At(Start(i - 1) + k)]]
<1>6. put_file(s) = [filesize |-> Len(s), sub |-> sub] BY <1>2, <1>3, Zenon DEF put_file, Start
<1>7. \A p \in 1 .. m : At(p) \in Nat
  <2> SUFFICES ASSUME NEW p \in 1 .. m PROVE At(p) \in Nat OBVIOUS
  <2>1. CASE p <= Len(s) BY <1>1, <1>2, <1>4, <2>1
  <2>2. CASE p > Len(s) /\ p > BlockSize
    <3>1. p - BlockSize \in 1 .. Len(s) /\ ~ (p <= Len(s)) BY <1>1, <1>2, <1>4, <2>2
    <3>2. s[p - BlockSize] \in Nat BY <3>1
    <3> QED BY <2>2, <3>1, <3>2
  <2>3. CASE ~ (p <= Len(s)) /\ ~ (p > Len(s) /\ p > BlockSize) BY <2>3 DEF NUL
  <2> QED BY <1>1, <1>4, <2>1, <2>2, <2>3
<1>8. \A p \in 1 .. Len(s) : At(p) = s[p] BY <1>1
<1> HIDE DEF At
<1>9. ASSUME NEW i \in 1 .. n, NEW k \in 1 .. BlockSize
      PROVE  Start(i - 1) + k \in 1 .. m
  <2>1. i \in Nat /\ i - 1 \in Nat /\ i - 1 + 1 = i BY <1>4
  <2>2. Start(i - 1) \in Nat /\ Start(i - 1 + 1) = Start(i - 1) + BlockSize /\ Start(i) \in Nat
    BY <2>1, Starts, Zenon
  <2>3. Start(i) = Start(i - 1) + BlockSize BY <2>1, <2>2
  <2>4. i <= m \div BlockSize BY <1>3, <1>4
  <2>5. i <= m \div BlockSize <=> Start(i) <= m BY <1>4, <2>1, BlockOf
  <2>6. Start(i) <= m BY <2>4, <2>5
  <2> QED BY <1>1, <1>4, <2>2, <2>3, <2>6
<1>10. ASSUME NEW i \in 1 .. n
       PROVE  sub[i] \in Seq(Nat) /\ Len(sub[i]) = BlockSize
  <2>1. \A k \in 1 .. BlockSize : At(Start(i - 1) + k) \in Nat BY <1>7, <1>9, Zenon
  <2>2. sub[i] = [k \in 1 .. BlockSize |-> At(Start(i - 1) + k)] BY Zenon
  <2> QED BY <1>1, <2>1, <2>2
<1>11. sub \in Seq(Seq(Nat)) /\ Len(sub) = n
  <2>1. sub = [i \in 1 .. n |-> sub[i]] BY Zenon
  <2> HIDE DEF sub
  <2> QED BY <1>4, <1>10, <2>1, FunSeq
<1>12. put_file(s) \in File /\ put_file(s).sub = sub /\ put_file(s).filesize = Len(s)
  <2> HIDE DEF sub
  <2> QED BY <1>1, <1>6, <1>11 DEF File
<1>13. Cut(sub)
  <2> HIDE DEF sub
  <2> QED BY <1>1, <1>10, <1>11 DEF Cut
<1>14. ASSUME NEW p \in 1 .. Len(s), NEW d \in Nat, NEW r \in 0 .. BlockSize - 1,
              p - 1 = Start(d) + r
       PROVE  d + 1 <= Len(sub) /\ r + 1 <= Len(sub[d + 1]) /\ sub[d + 1][r + 1] = s[p]
  <2>1. Start(d) \in Nat /\ Start(d + 1) = Start(d) + BlockSize BY Starts, Zenon
  <2>2. Start(d + 1) <= m BY <1>1, <1>2, <1>14, <2>1, SMTT(30)
  <2>3. d + 1 <= m \div BlockSize <=> Start(d + 1) <= m BY <1>4, BlockOf
  <2>4. d + 1 \in 1 .. n /\ d + 1 - 1 = d BY <1>3, <1>4, <2>2, <2>3
  <2>5. r + 1 \in 1 .. BlockSize /\ Start(d) + (r + 1) = p
    <3>1. p \in Nat /\ r \in Nat /\ r + 1 \in 1 .. BlockSize BY <1>1
    <3> QED BY <1>14, <2>1, <3>1, After, Zenon
  <2>6. sub[d + 1] = [k \in 1 .. BlockSize |-> At(Start(d) + k)] BY <2>4
  <2>7. sub[d + 1][r + 1] = At(p) BY <2>5, <2>6, Zenon
  <2> HIDE DEF sub
  <2>8. sub[d + 1][r + 1] = s[p] BY <1>8, <2>7, Zenon
  <2>9. Len(sub[d + 1]) = BlockSize BY <1>10, <2>4, Zenon
  <2> QED BY <1>1, <1>11, <2>4, <2>5, <2>8, <2>9
<1> HIDE DEF sub
<1>15. Stores(put_file(s), s) BY <1>12, <1>13, <1>14, StoresIf
<1> QED BY <1>2, <1>3, <1>11, <1>12, <1>15, Zenon

-----------------------------------------------------------------------------
(* Files written from start to end.                                        *)

\* How many of n bytes fall into block i.
ChunkLen(n, i) ==
    IF n <= Start(i) THEN 0 ELSE IF n < Start(i) + BlockSize THEN n - Start(i) ELSE BlockSize

\* The bytes of s that fall into block i.
Chunk(s, i) == [k \in 1 .. ChunkLen(Len(s), i) |-> s[Start(i) + k]]

\* How many blocks a write of s from the start leaves: an empty one after
\* the last one that is full.
Blocks(n) == IF n = 0 THEN 0 ELSE n \div BlockSize + 1

\* The file that fsync stores after such writes.
Written(s) == [filesize |-> Len(s), sub |-> [i \in 1 .. Blocks(Len(s)) |-> Chunk(s, i - 1)]]

Prefix(s, n) == [k \in 1 .. n |-> s[k]]

\* A chunk is a sequence of at most BlockSize bytes.
LEMMA ChunkType ==
    ASSUME NEW s \in Seq(Nat), NEW i \in Nat
    PROVE  /\ Chunk(s, i) \in Seq(Nat) /\ Len(Chunk(s, i)) = ChunkLen(Len(s), i)
           /\ ChunkLen(Len(s), i) \in Nat /\ ChunkLen(Len(s), i) <= BlockSize
           /\ \A k \in 1 .. ChunkLen(Len(s), i) : Start(i) + k \in 1 .. Len(s)
<1>1. Start(i) \in Nat /\ BlockSize \in Nat \ {0} BY Starts, Zenon
<1>2. Start(i) \in Nat /\ BlockSize \in Nat \ {0} /\ Len(s) \in Nat BY <1>1
<1>3. PICK n : n = ChunkLen(Len(s), i) OBVIOUS
<1>4. n \in Nat /\ n <= BlockSize /\ \A k \in 1 .. n : Start(i) + k \in 1 .. Len(s)
  <2>1. PICK a \in Nat, b \in Nat, l \in Nat : a = Start(i) /\ b = BlockSize /\ l = Len(s)
    BY <1>2
  <2>2. n = IF l <= a THEN 0 ELSE IF l < a + b THEN l - a ELSE b
    BY <1>3, <2>1, Zenon DEF ChunkLen
  <2>3. n \in Nat /\ n <= b /\ \A k \in 1 .. n : a + k \in 1 .. l
    <3>1. CASE l <= a BY <2>2, <3>1
    <3>2. CASE l > a /\ l < a + b BY <2>2, <3>2
    <3>3. CASE l > a /\ l >= a + b BY <2>2, <3>3
    <3> QED BY <3>1, <3>2, <3>3
  <2> QED BY <2>1, <2>3, Zenon
<1>5. \A k \in 1 .. n : s[Start(i) + k] \in Nat BY <1>4
<1>6. Chunk(s, i) = [k \in 1 .. n |-> s[Start(i) + k]] BY <1>3, Zenon DEF Chunk
<1>7. Chunk(s, i) \in Seq(Nat) /\ Len(Chunk(s, i)) = n BY <1>4, <1>5, <1>6
<1> QED BY <1>3, <1>4, <1>7, Zenon

\* How many blocks there are.
LEMMA BlocksType ==
    ASSUME NEW n \in Nat
    PROVE  /\ Blocks(n) \in Nat
           /\ \A i \in Nat : i < Blocks(n) <=> n # 0 /\ Start(i) <= n
<1>1. PICK d : d = n \div BlockSize OBVIOUS
<1>2. d \in Nat BY <1>1, DivMod
<1>3. \A i \in Nat : i <= d <=> Start(i) <= n BY <1>1, BlockOf
<1>4. Blocks(n) = IF n = 0 THEN 0 ELSE d + 1 BY <1>1, Zenon DEF Blocks
<1> QED BY <1>2, <1>3, <1>4

\* The file written holds the bytes.
LEMMA WrittenStores ==
    ASSUME NEW s \in Seq(Nat)
    PROVE  /\ Stores(Written(s), s) /\ Written(s) \in File
           /\ Len(Written(s).sub) = Blocks(Len(s))
           /\ \A i \in Nat : i < Blocks(Len(s)) => Written(s).sub[i + 1] = Chunk(s, i)
<1>1. Len(s) \in Nat /\ BlockSize \in Nat \ {0} BY FileDataAssumption
<1>2. PICK n : n = Blocks(Len(s)) OBVIOUS
<1>3. n \in Nat /\ \A i \in Nat : i < n <=> Len(s) # 0 /\ Start(i) <= Len(s)
  BY <1>1, <1>2, BlocksType, SMTT(30)
<1> DEFINE sub == [i \in 1 .. n |-> Chunk(s, i - 1)]
<1>4. Written(s) = [filesize |-> Len(s), sub |-> sub] BY <1>2, Zenon DEF Written
<1>5. ASSUME NEW i \in 1 .. n
      PROVE  sub[i] \in Seq(Nat) /\ Len(sub[i]) = ChunkLen(Len(s), i - 1)
             /\ Len(sub[i]) <= BlockSize
  <2>1. i - 1 \in Nat BY <1>3
  <2>2. sub[i] = Chunk(s, i - 1) BY Zenon
  <2> QED BY <2>1, <2>2, ChunkType, Zenon
<1>6. sub \in Seq(Seq(Nat)) /\ Len(sub) = n
  <2>1. sub = [i \in 1 .. n |-> sub[i]] BY Zenon
  <2> HIDE DEF sub
  <2> QED BY <1>3, <1>5, <2>1, FunSeq, SMTT(30)
<1>7. ASSUME NEW i \in Nat, i < n PROVE sub[i + 1] = Chunk(s, i)
  <2>1. PICK j : j = i + 1 OBVIOUS
  <2>2. j \in 1 .. n /\ j - 1 = i BY <1>3, <1>7, <2>1
  <2>3. sub[j] = Chunk(s, j - 1) BY <2>2, Zenon
  <2> QED BY <2>1, <2>2, <2>3, Zenon
<1> HIDE DEF sub
<1>8. Written(s) \in File /\ Written(s).sub = sub /\ Written(s).filesize = Len(s)
  BY <1>1, <1>4, <1>6 DEF File
<1>9. Cut(sub)
  <2>1. ASSUME NEW i \in 1 .. n - 1 PROVE Len(sub[i]) = BlockSize
    <3>1. i \in 1 .. n /\ i \in Nat /\ i < n /\ i - 1 \in Nat /\ i - 1 + 1 = i BY <1>3
    <3>2. Start(i - 1) \in Nat /\ Start(i - 1 + 1) = Start(i - 1) + BlockSize BY <3>1, Starts, Zenon
    <3>3. Start(i - 1) + BlockSize <= Len(s) BY <1>3, <3>1, <3>2
    <3>4. ChunkLen(Len(s), i - 1) = BlockSize BY <1>1, <3>2, <3>3, SMTT(30) DEF ChunkLen
    <3> QED BY <1>5, <3>1, <3>4
  <2> QED BY <1>5, <1>6, <2>1 DEF Cut
<1>10. ASSUME NEW p \in 1 .. Len(s), NEW d \in Nat, NEW r \in 0 .. BlockSize - 1,
              p - 1 = Start(d) + r
       PROVE  d + 1 <= Len(sub) /\ r + 1 <= Len(sub[d + 1]) /\ sub[d + 1][r + 1] = s[p]
  <2>1. p \in Nat /\ p <= Len(s) /\ r \in Nat /\ r + 1 <= BlockSize /\ Len(s) # 0 BY <1>1
  <2>2. Start(d) \in Nat BY Starts, Zenon
  <2>3. Start(d) + (r + 1) = p BY <1>10, <2>1, <2>2, After, Zenon
  <2>4. Start(d) < Len(s) BY <1>1, <2>1, <2>2, <2>3
  <2>5. d < n BY <1>1, <1>3, <2>1, <2>2, <2>4
  <2>6. sub[d + 1] = Chunk(s, d) BY <1>7, <2>5
  <2>7. r + 1 \in 1 .. ChunkLen(Len(s), d) BY <1>1, <2>1, <2>2, <2>3, <2>4, SMTT(30) DEF ChunkLen
  <2>8. Chunk(s, d)[r + 1] = s[p] BY <2>3, <2>7, Zenon DEF Chunk
  <2>9. Len(Chunk(s, d)) = ChunkLen(Len(s), d) /\ ChunkLen(Len(s), d) \in Nat BY ChunkType, Zenon
  <2>10. r + 1 <= Len(sub[d + 1]) BY <2>6, <2>7, <2>9
  <2>11. d + 1 <= Len(sub) BY <1>3, <1>6, <2>5
  <2> QED BY <2>6, <2>8, <2>10, <2>11, Zenon
<1>11. Stores(Written(s), s) BY <1>8, <1>9, <1>10, StoresIf
<1> QED BY <1>2, <1>6, <1>7, <1>8, <1>11, Zenon

\* Where the part of a write that falls into block i starts and ends.
Low(offset, i) == IF Start(i) <= offset THEN 0 ELSE Start(i) - offset

High(offset, n, i) ==
    IF Start(i) + BlockSize <= offset + n THEN Start(i) + BlockSize - offset ELSE n

\* A block of size b at x, of a write of L bytes at o whose first and last
\* blocks are at xf and xl: what Part computes.
Touched(b, o, L, x, xf, xl, rf, rl, left, right, lo, hi) ==
    /\ b \in Nat \ {0} /\ o \in Nat /\ L \in Nat /\ x \in Nat /\ xf \in Nat /\ xl \in Nat
    /\ rf \in 0 .. b - 1 /\ rl \in 0 .. b - 1 /\ o = xf + rf /\ o + L = xl + rl
    /\ x = xf \/ xf + b <= x
    /\ x = xl \/ x + b <= xl
    /\ left = (IF x = xf THEN rf ELSE 0) /\ right = (IF x = xl THEN rl ELSE b)
    /\ lo = (IF x <= o THEN 0 ELSE x - o)
    /\ hi = (IF x + b <= o + L THEN x + b - o ELSE L)

\* The bounds of such a part.
LEMMA PartBounds ==
    ASSUME NEW b, NEW o, NEW L, NEW x, NEW xf, NEW xl, NEW rf, NEW rl,
           NEW left, NEW right, NEW lo, NEW hi,
           Touched(b, o, L, x, xf, xl, rf, rl, left, right, lo, hi)
    PROVE  /\ x - o + left = lo /\ x - o + right = hi
           /\ lo \in Nat /\ hi \in Nat /\ lo <= hi /\ hi <= L
<1>1. x <= o + L /\ o < x + b BY DEF Touched
<1>2. x - o + left = lo BY DEF Touched
<1>3. x - o + right = hi BY DEF Touched
<1>4. lo \in Nat /\ hi \in Nat /\ lo <= hi /\ hi <= L BY <1>1 DEF Touched
<1> QED BY <1>2, <1>3, <1>4, Zenon

\* Sequence t is the n bytes of w after the first lo ones.
IsPart(t, w, lo, n) ==
    /\ lo \in Nat /\ n \in Nat /\ lo + n <= Len(w)
    /\ t = [k \in 1 .. n |-> w[lo + k]] /\ t \in Seq(Nat)

\* The part of a write for a block that it touches.
LEMMA PartIs ==
    ASSUME NEW w \in Seq(Nat), NEW offset \in Nat, NEW i \in Nat,
           offset \div BlockSize <= i, i <= (offset + Len(w)) \div BlockSize
    PROVE  IsPart(Part(offset, w, i), w, Low(offset, i),
                  High(offset, Len(w), i) - Low(offset, i))
<1>1. PICK L : L = Len(w) OBVIOUS
<1>2. L \in Nat /\ offset + L \in Nat BY <1>1
<1>3. PICK first : first = offset \div BlockSize OBVIOUS
<1>4. PICK last : last = (offset + L) \div BlockSize OBVIOUS
<1>5. PICK rf : rf = offset % BlockSize OBVIOUS
<1>6. PICK rl : rl = (offset + L) % BlockSize OBVIOUS
<1>7. first \in Nat /\ rf \in 0 .. BlockSize - 1 /\ offset = Start(first) + rf
  BY <1>3, <1>5, DivMod
<1>8. last \in Nat /\ rl \in 0 .. BlockSize - 1 /\ offset + L = Start(last) + rl
  BY <1>2, <1>4, <1>6, DivMod
<1>9. first <= i /\ i <= last BY <1>1, <1>3, <1>4, Zenon
<1>10. PICK x : x = Start(i) OBVIOUS
<1>11. PICK xf : xf = Start(first) OBVIOUS
<1>12. PICK xl : xl = Start(last) OBVIOUS
<1>13. x \in Nat /\ xf \in Nat /\ xl \in Nat /\ BlockSize \in Nat \ {0}
  BY <1>7, <1>8, <1>10, <1>11, <1>12, Starts
<1>14. first < i => xf + BlockSize <= x BY <1>7, <1>10, <1>11, BlockOrder
<1>15. i < last => x + BlockSize <= xl BY <1>8, <1>10, <1>12, BlockOrder
<1>16. first = i => xf = x BY <1>10, <1>11, Zenon
<1>17. i = last => x = xl BY <1>10, <1>12, Zenon
<1>18. offset = xf + rf /\ offset + L = xl + rl BY <1>7, <1>8, <1>11, <1>12, Zenon
<1>19. PICK lo : lo = Low(offset, i) OBVIOUS
<1>20. PICK hi : hi = High(offset, L, i) OBVIOUS
<1>21. lo = (IF x <= offset THEN 0 ELSE x - offset)
       /\ hi = (IF x + BlockSize <= offset + L THEN x + BlockSize - offset ELSE L)
  BY <1>10, <1>19, <1>20, Zenon DEF Low, High
<1>22. PICK left : left = IF i = first THEN rf ELSE 0 OBVIOUS
<1>23. PICK right : right = IF i = last THEN rl ELSE BlockSize OBVIOUS
<1>24. Part(offset, w, i) = SubSeq(w, x - offset + left + 1, x - offset + right)
  <2>1. get_indexs(offset, Len(w)) = <<first, last + 1>>
    BY <1>1, <1>3, <1>4, Zenon DEF get_indexs, align_index_down, align_index_up
  <2>2. get_indexs(offset, Len(w))[1] = first /\ get_indexs(offset, Len(w))[2] - 1 = last
    BY <1>8, <2>1
  <2>3. x = i * BlockSize BY <1>10, Zenon DEF Start
  <2>4. rf = offset % BlockSize /\ rl = (offset + Len(w)) % BlockSize
    BY <1>1, <1>5, <1>6, Zenon
  <2> QED BY <1>22, <1>23, <2>2, <2>3, <2>4, Zenon DEF Part
<1>25. (x = xf <=> i = first) /\ (x = xl <=> i = last)
       /\ (x = xf \/ xf + BlockSize <= x) /\ (x = xl \/ x + BlockSize <= xl)
  BY <1>7, <1>8, <1>9, <1>13, <1>14, <1>15, <1>16, <1>17, SMTT(30)
<1>26. left = (IF x = xf THEN rf ELSE 0) /\ right = (IF x = xl THEN rl ELSE BlockSize)
  BY <1>22, <1>23, <1>25, Zenon
<1>27. /\ x - offset + left = lo /\ x - offset + right = hi
       /\ lo \in Nat /\ hi \in Nat /\ lo <= hi /\ hi <= L
  <2>1. Touched(BlockSize, offset, L, x, xf, xl, rf, rl, left, right, lo, hi)
    BY <1>2, <1>7, <1>8, <1>13, <1>18, <1>21, <1>25, <1>26, Zenon DEF Touched
  <2> QED BY <2>1, PartBounds, Zenon
<1>28. PICK n : n = hi - lo OBVIOUS
<1>29. n \in Nat /\ lo + n = hi /\ lo + n <= L BY <1>2, <1>27, <1>28
<1>30. Part(offset, w, i) = SubSeq(w, lo + 1, lo + n) BY <1>24, <1>27, <1>29, Zenon
<1>31. /\ SubSeq(w, lo + 1, lo + n) = [k \in 1 .. n |-> w[lo + k]]
       /\ SubSeq(w, lo + 1, lo + n) \in Seq(Nat)
  BY <1>1, <1>27, <1>29, SubSeqIs, SMTT(30)
<1>32. n = High(offset, Len(w), i) - Low(offset, i) BY <1>1, <1>19, <1>20, <1>28, Zenon
<1> QED BY <1>1, <1>19, <1>27, <1>29, <1>30, <1>31, <1>32, Zenon DEF IsPart

\* Bytes after o of a block at x.
Rest(b, o, L, x, cl, ul, lo, hi) ==
    /\ b \in Nat \ {0} /\ o \in Nat /\ L \in Nat /\ x \in Nat /\ x <= o + L /\ o < x + b
    /\ cl = (IF o <= x THEN 0 ELSE IF o < x + b THEN o - x ELSE b)
    /\ ul = (IF o + L <= x THEN 0 ELSE IF o + L < x + b THEN (o + L) - x ELSE b)
    /\ lo = (IF x <= o THEN 0 ELSE x - o)
    /\ hi = (IF x + b <= o + L THEN x + b - o ELSE L)

\* They follow those before o.
LEMMA RestBounds ==
    ASSUME NEW b, NEW o, NEW L, NEW x, NEW cl, NEW ul, NEW lo, NEW hi,
           Rest(b, o, L, x, cl, ul, lo, hi)
    PROVE  ul = cl + (hi - lo) /\ x + cl = o + lo
<1>1. ul = cl + (hi - lo) BY DEF Rest
<1>2. x + cl = o + lo BY DEF Rest
<1> QED BY <1>1, <1>2, Zenon

\* write_data at the end of the file: a block file gets the part of the
\* write that belongs to its block.
LEMMA ChunkAppend ==
    ASSUME NEW s2, NEW s, NEW w, Longer(s2, s, w), NEW i \in Nat,
           Len(s) \div BlockSize <= i, i <= (Len(s) + Len(w)) \div BlockSize
    PROVE  Chunk(s2, i) = Chunk(s, i) \o Part(Len(s), w, i)
<1>1. /\ s2 \in Seq(Nat) /\ s \in Seq(Nat) /\ w \in Seq(Nat)
      /\ Len(s2) = Len(s) + Len(w)
      /\ \A k \in 1 .. Len(s) : s2[k] = s[k]
      /\ \A k \in 1 .. Len(w) : s2[Len(s) + k] = w[k]
  BY Zenon DEF Longer
<1>2. PICK o : o = Len(s) OBVIOUS
<1>3. PICK L : L = Len(w) BY Zenon
<1>4. o \in Nat /\ L \in Nat /\ o + L \in Nat BY <1>1, <1>2, <1>3
<1>5. PICK x : x = Start(i) OBVIOUS
<1>6. x \in Nat /\ BlockSize \in Nat \ {0} BY <1>5, Starts
<1>7. PICK first : first = o \div BlockSize OBVIOUS
<1>8. PICK last : last = (o + L) \div BlockSize OBVIOUS
<1>9. first \in Nat /\ first <= i /\ i <= last /\ last \in Nat
  BY <1>2, <1>3, <1>4, <1>7, <1>8, DivMod
<1>10. x <= o + L
  <2>1. i <= (o + L) \div BlockSize <=> Start(i) <= o + L BY <1>4, BlockOf
  <2> QED BY <1>5, <1>8, <1>9, <2>1, Zenon
<1>11. o < x + BlockSize
  <2>1. i + 1 <= o \div BlockSize <=> Start(i + 1) <= o BY <1>4, BlockOf
  <2>2. ~ (i + 1 <= first) BY <1>9
  <2>3. ~ (Start(i + 1) <= o) BY <1>7, <2>1, <2>2, Zenon
  <2>4. Start(i + 1) = x + BlockSize BY <1>5, Starts
  <2> QED BY <1>4, <1>6, <2>3, <2>4
<1>12. PICK lo : lo = Low(o, i) OBVIOUS
<1>13. PICK hi : hi = High(o, L, i) OBVIOUS
<1>14. PICK n : n = hi - lo OBVIOUS
<1>15. PICK t : t = Part(o, w, i) OBVIOUS
<1>16. /\ lo \in Nat /\ n \in Nat /\ lo + n <= L /\ t = [k \in 1 .. n |-> w[lo + k]]
       /\ t \in Seq(Nat)
  <2>1. o \div BlockSize <= i /\ i <= (o + Len(w)) \div BlockSize BY <1>2, Zenon
  <2>2. IsPart(Part(o, w, i), w, Low(o, i), High(o, Len(w), i) - Low(o, i))
    BY <1>1, <1>4, <2>1, PartIs, Zenon
  <2> QED BY <1>3, <1>12, <1>13, <1>14, <1>15, <2>2, Zenon DEF IsPart
<1>17. PICK cl : cl = ChunkLen(o, i) OBVIOUS
<1>18. PICK ul : ul = ChunkLen(o + L, i) OBVIOUS
<1>19. ul = cl + n /\ x + cl = o + lo
  <2>1. cl = (IF o <= x THEN 0 ELSE IF o < x + BlockSize THEN o - x ELSE BlockSize)
    BY <1>5, <1>17, Zenon DEF ChunkLen
  <2>2. ul = (IF o + L <= x THEN 0
              ELSE IF o + L < x + BlockSize THEN (o + L) - x ELSE BlockSize)
    BY <1>5, <1>18, Zenon DEF ChunkLen
  <2>3. lo = (IF x <= o THEN 0 ELSE x - o)
        /\ hi = (IF x + BlockSize <= o + L THEN x + BlockSize - o ELSE L)
    BY <1>5, <1>12, <1>13, Zenon DEF Low, High
  <2>4. Rest(BlockSize, o, L, x, cl, ul, lo, hi)
    BY <1>4, <1>6, <1>10, <1>11, <2>1, <2>2, <2>3, Zenon DEF Rest
  <2>5. ul = cl + (hi - lo) /\ x + cl = o + lo BY <2>4, RestBounds
  <2> QED BY <1>14, <2>5, Zenon
<1>20. PICK c : c = Chunk(s, i) OBVIOUS
<1>21. PICK u : u = Chunk(s2, i) OBVIOUS
<1>22. /\ c \in Seq(Nat) /\ Len(c) = cl /\ cl \in Nat /\ c = [k \in 1 .. cl |-> s[x + k]]
       /\ \A k \in 1 .. cl : x + k \in 1 .. o
  <2>1. c = [k \in 1 .. cl |-> s[x + k]] BY <1>2, <1>5, <1>17, <1>20, Zenon DEF Chunk
  <2> QED BY <1>1, <1>2, <1>5, <1>17, <1>20, <2>1, ChunkType, Zenon
<1>23. u \in Seq(Nat) /\ Len(u) = ul /\ u = [k \in 1 .. ul |-> s2[x + k]]
  <2>1. ul = ChunkLen(Len(s2), i) BY <1>1, <1>2, <1>3, <1>18, Zenon
  <2>2. u = [k \in 1 .. ul |-> s2[x + k]] BY <1>5, <1>21, <2>1, Zenon DEF Chunk
  <2> QED BY <1>1, <1>21, <2>1, <2>2, ChunkType, Zenon
<1>24. Len(t) = n BY <1>16
<1>25. ASSUME NEW k \in 1 .. cl PROVE u[k] = c[k]
  <2>1. k \in 1 .. ul BY <1>16, <1>19, <1>22
  <2>2. u[k] = s2[x + k] /\ c[k] = s[x + k] BY <1>22, <1>23, <2>1, Zenon
  <2>3. s2[x + k] = s[x + k] BY <1>1, <1>2, <1>22, Zenon
  <2> QED BY <2>2, <2>3, Zenon
<1>26. ASSUME NEW k \in 1 .. n PROVE u[cl + k] = t[k]
  <2>1. cl + k \in 1 .. ul /\ lo + k \in 1 .. L BY <1>4, <1>16, <1>19, <1>22
  <2>2. x + (cl + k) = o + (lo + k) BY <1>4, <1>6, <1>16, <1>19, <1>22
  <2>3. u[cl + k] = s2[x + (cl + k)] BY <1>23, <2>1, Zenon
  <2>4. s2[o + (lo + k)] = w[lo + k] BY <1>1, <1>2, <1>3, <2>1, Zenon
  <2>5. t[k] = w[lo + k] BY <1>16, Zenon
  <2> QED BY <2>2, <2>3, <2>4, <2>5, Zenon
<1>27. Longer(u, c, t)
  BY <1>16, <1>19, <1>22, <1>23, <1>24, <1>25, <1>26, ZenonT(40) DEF Longer
<1>28. u = c \o t BY <1>27, ConcatIs, Zenon
<1> QED BY <1>2, <1>15, <1>20, <1>21, <1>28, Zenon

\* The first n bytes.
LEMMA PrefixType ==
    ASSUME NEW s \in Seq(Nat), NEW n \in 0 .. Len(s)
    PROVE  /\ Prefix(s, n) \in Seq(Nat) /\ Len(Prefix(s, n)) = n
           /\ \A k \in 1 .. n : Prefix(s, n)[k] = s[k]
           /\ n = Len(s) => Prefix(s, n) = s
<1>1. n \in Nat /\ \A k \in 1 .. n : s[k] \in Nat OBVIOUS
<1>2. PICK u : u = Prefix(s, n) OBVIOUS
<1>3. u = [k \in 1 .. n |-> s[k]] BY <1>2, Zenon DEF Prefix
<1>4. u \in Seq(Nat) /\ Len(u) = n /\ \A k \in 1 .. n : u[k] = s[k] BY <1>1, <1>3
<1>5. n = Len(s) => u = s BY <1>4, SameSeq
<1> QED BY <1>2, <1>4, <1>5, Zenon

\* Sequences with the same n first bytes.
SameStart(s, u, n) ==
    /\ s \in Seq(Nat) /\ u \in Seq(Nat) /\ n \in Nat /\ n <= Len(s) /\ n <= Len(u)
    /\ \A k \in 1 .. n : s[k] = u[k]

\* They have the same blocks before the n-th byte.
LEMMA SameChunk ==
    ASSUME NEW s, NEW u, NEW n, SameStart(s, u, n), NEW i \in Nat, Start(i) + BlockSize <= n
    PROVE  Chunk(s, i) = Chunk(u, i)
<1>1. /\ s \in Seq(Nat) /\ u \in Seq(Nat) /\ n \in Nat /\ n <= Len(s) /\ n <= Len(u)
      /\ \A k \in 1 .. n : s[k] = u[k]
  BY Zenon DEF SameStart
<1>2. Start(i) \in Nat /\ BlockSize \in Nat \ {0} BY Starts
<1>3. ChunkLen(Len(s), i) = BlockSize /\ ChunkLen(Len(u), i) = BlockSize
  <2>1. PICK a \in Nat, b \in Nat \ {0} : a = Start(i) /\ b = BlockSize BY <1>2, Zenon
  <2>2. n \in Nat /\ a + b <= n BY <1>1, <2>1, Zenon
  <2>3. ASSUME NEW l \in Nat, n <= l PROVE ChunkLen(l, i) = BlockSize
    <3>1. ChunkLen(l, i) = IF l <= a THEN 0 ELSE IF l < a + b THEN l - a ELSE b
      BY <2>1, Zenon DEF ChunkLen
    <3>2. ~ (l <= a) /\ ~ (l < a + b) BY <2>1, <2>2, <2>3
    <3> QED BY <2>1, <3>1, <3>2, Zenon
  <2>4. Len(s) \in Nat /\ Len(u) \in Nat BY <1>1
  <2> QED BY <1>1, <2>3, <2>4, Zenon
<1>4. \A k \in 1 .. BlockSize : Start(i) + k \in 1 .. n
  <2>1. PICK x : x = Start(i) OBVIOUS
  <2>2. x \in Nat /\ x + BlockSize <= n BY <1>2, <2>1
  <2>3. \A k \in 1 .. BlockSize : x + k \in 1 .. n BY <1>1, <1>2, <2>2
  <2> QED BY <2>1, <2>3
<1>5. \A k \in 1 .. BlockSize : s[Start(i) + k] = u[Start(i) + k] BY <1>1, <1>4, Zenon
<1> QED BY <1>3, <1>5, Zenon DEF Chunk

-----------------------------------------------------------------------------
(* The inductive invariant.                                                *)

\* The types, with the bound on cached that TypeOK has for inode.
TypeInv ==
    /\ TypeOK
    /\ tmp \in [Index -> Seq(Nat) \cup {None}]
    /\ cached # None => Len(cached.sub) <= MaxBlocks

\* A session that writes is alone and has the file open; nothing waits in
\* the write directory without one.
SessionInv ==
    /\ writer => readers = 0 /\ cached # None
    /\ ~ writer => links = {}
    /\ ~ writer /\ readers = 0 => cached = None
    /\ current => origin # "mixed"

\* The block files hold the blocks of s, and no more.
Filled(t, s) ==
    t = [i \in Index |-> IF i < Blocks(Len(s)) THEN Chunk(s, i) ELSE None]

\* The session has opened the first n bytes, and has written the rest.
Pending(n) ==
    /\ cached = Written(Prefix(intended, n))
    /\ links = n \div BlockSize .. Len(intended) \div BlockSize
    /\ inode \in {None, cached}

\* While the file has been written from start to end.
WrittenInv ==
    origin = "written" =>
      /\ Len(intended) <= MaxSize
      /\ Filled(tmp, intended)
      /\ links = {} => inode \in {None, Written(intended)}
      /\ ~ writer => cached \in {None, Written(intended)}
      /\ cached # None => \E n \in 0 .. Len(intended) : cached = Written(Prefix(intended, n))
      /\ links # {} => \E n \in 0 .. Len(intended) - 1 : Pending(n)

\* Each block file has the block of sub, or no data.
Fits(t, sub) ==
    \A i \in Index : t[i] \in {None, << >>} \/ (i < Len(sub) /\ t[i] = sub[i + 1])

\* While the file is one that was put.
PutInv ==
    origin = "put" =>
      /\ links = {} /\ inode \in {None, put_file(intended)}
      /\ writer => inode \in {None, cached}
      /\ current =>
           /\ cached # None => Fits(tmp, cached.sub)
           /\ cached = None /\ inode # None => Fits(tmp, inode.sub)

IInv == TypeInv /\ SessionInv /\ WrittenInv /\ PutInv

\* The blocks that writes and reads may touch.
LEMMA IndexType ==
    /\ MaxBlocks \in Nat
    /\ \A i \in Nat : i \in Index <=> Start(i) <= MaxSize
    /\ \A i \in Nat : i \in Index <=> i < MaxBlocks
    /\ Index \in SUBSET Nat
<1>1. PICK m : m = MaxSize \div BlockSize OBVIOUS
<1>2. m \in Nat BY <1>1, FileDataAssumption, DivMod
<1>3. MaxBlocks = m + 1 BY <1>1, Zenon DEF MaxBlocks
<1>4. Index = 0 .. MaxBlocks - 1 BY Zenon DEF Index
<1>5. \A i \in Nat : i <= m <=> Start(i) <= MaxSize BY <1>1, FileDataAssumption, BlockOf
<1>6. MaxBlocks \in Nat /\ \A i \in Nat : i \in Index <=> i <= m BY <1>2, <1>3, <1>4
<1>7. \A i \in Nat : i <= m <=> i < MaxBlocks BY <1>2, <1>3
<1>8. Index \in SUBSET Nat BY <1>4, <1>6
<1> QED BY <1>5, <1>6, <1>7, <1>8, Zenon

\* A file written that is no longer than MaxSize has no more blocks.
LEMMA BlocksBound ==
    ASSUME NEW n \in Nat, n <= MaxSize
    PROVE  Blocks(n) \in Nat /\ Blocks(n) <= MaxBlocks
<1>1. Blocks(n) \in Nat /\ \A i \in Nat : i < Blocks(n) <=> n # 0 /\ Start(i) <= n BY BlocksType
<1>2. PICK c : c = MaxBlocks OBVIOUS
<1>3. c \in Nat BY <1>2, IndexType
<1>4. SUFFICES ASSUME c < Blocks(n) PROVE FALSE BY <1>1, <1>2, <1>3
<1>5. Start(c) <= n /\ Start(c) \in Nat BY <1>1, <1>3, <1>4, Starts
<1>6. Start(c) <= MaxSize BY <1>5, FileDataAssumption
<1>7. c \in Index BY <1>3, <1>6, IndexType
<1>8. c < c BY <1>2, <1>3, <1>7, IndexType
<1> QED BY <1>3, <1>8

\* A file put that is no longer than MaxSize has no more blocks.
LEMMA PutBound ==
    ASSUME NEW n \in Nat, n <= MaxSize
    PROVE  (n + BlockSize - 1) \div BlockSize <= MaxBlocks
<1>1. BlockSize \in Nat \ {0} /\ MaxSize \in Nat BY FileDataAssumption
<1>2. PICK m : m = n + BlockSize - 1 OBVIOUS
<1>3. PICK d : d = m \div BlockSize OBVIOUS
<1>4. m \in Nat BY <1>1, <1>2
<1>5. d \in Nat BY <1>3, <1>4, DivMod
<1>6. PICK c : c = MaxBlocks OBVIOUS
<1>7. c \in Nat BY <1>6, IndexType
<1>8. SUFFICES ASSUME c < d PROVE FALSE BY <1>2, <1>3, <1>5, <1>6, <1>7
<1>9. d <= m \div BlockSize <=> Start(d) <= m BY <1>4, <1>5, BlockOf
<1>10. Start(d) <= m BY <1>3, <1>5, <1>9
<1>11. Start(c) + BlockSize <= Start(d) BY <1>5, <1>7, <1>8, BlockOrder
<1>12. Start(c) \in Nat /\ Start(d) \in Nat BY <1>5, <1>7, Starts
<1>13. Start(c) <= MaxSize BY <1>1, <1>2, <1>4, <1>10, <1>11, <1>12
<1>14. c \in Index BY <1>7, <1>13, IndexType
<1>15. c < c BY <1>6, <1>7, <1>14, IndexType
<1> QED BY <1>7, <1>15

\* The empty file: no block files, and the same whether put or written.
LEMMA EmptyFile ==
    /\ << >> \in Seq(Nat) /\ Len(<< >>) = 0 /\ Blocks(0) = 0
    /\ put_file(<< >>) = Written(<< >>)
    /\ Filled([i \in Index |-> None], << >>)
<1>1. << >> \in Seq(Nat) /\ Len(<< >>) = 0 OBVIOUS
<1>2. Blocks(0) = 0 BY DEF Blocks
<1>3. (0 + BlockSize - 1) \div BlockSize = 0
  <2>1. BlockSize - 1 \in 0 .. BlockSize - 1 /\ 0 \in Nat BY FileDataAssumption
  <2>2. (Start(0) + (BlockSize - 1)) \div BlockSize = 0 BY <2>1, DivUnique
  <2>3. Start(0) + (BlockSize - 1) = 0 + BlockSize - 1 BY Starts, FileDataAssumption
  <2> QED BY <2>2, <2>3
<1>4. PICK e : e = << >> OBVIOUS
<1>5. PICK f : f = put_file(e) OBVIOUS
<1>6. f \in File /\ Len(f.sub) = 0 /\ f.filesize = 0
  BY <1>1, <1>3, <1>4, <1>5, PutStores, Zenon DEF Stores
<1>7. PICK g : g = Written(e) OBVIOUS
<1>8. g \in File /\ Len(g.sub) = 0 /\ g.filesize = 0
  BY <1>1, <1>2, <1>4, <1>7, WrittenStores, Zenon DEF Stores
<1>9. f.sub = << >> /\ g.sub = << >> BY <1>6, <1>8 DEF File
<1>10. f = g BY <1>6, <1>8, <1>9 DEF File
<1>11. \A i \in Index : ~ (i < 0) BY IndexType
<1>12. Filled([i \in Index |-> None], << >>) BY <1>1, <1>2, <1>11 DEF Filled
<1> QED BY <1>1, <1>2, <1>4, <1>5, <1>7, <1>10, <1>12, Zenon

-----------------------------------------------------------------------------
(* What the operations do to block files.                                  *)

BlockFiles == [Index -> Seq(Nat) \cup {None}]

\* read_data leaves block files.
LEMMA PulledType ==
    ASSUME NEW t \in BlockFiles, NEW ino \in File, NEW first, NEW second
    PROVE  /\ Pulled(t, ino, first, second) \in BlockFiles
           /\ \A i \in Index : t[i] # None => Pulled(t, ino, first, second)[i] # None
<1>1. ASSUME NEW i \in Index, i < Len(ino.sub) PROVE Block(t, ino, i) \in Seq(Nat)
  <2>1. i + 1 \in 1 .. Len(ino.sub) /\ ino.sub \in Seq(Seq(Nat)) BY <1>1, IndexType DEF File
  <2>2. ino.sub[i + 1] \in Seq(Nat) BY <2>1
  <2>3. t[i] \in Seq(Nat) \cup {None} BY Zenon DEF BlockFiles
  <2> QED BY <2>2, <2>3, Zenon DEF Block
<1>2. \A i \in Index : t[i] \in Seq(Nat) \cup {None} BY Zenon DEF BlockFiles
<1>3. Pulled(t, ino, first, second)
        = [i \in Index |-> IF i \in first .. second - 1 /\ i < Len(ino.sub)
                           THEN Block(t, ino, i) ELSE t[i]]
  BY Zenon DEF Pulled
<1>4. None \notin Seq(Nat) BY NoneAssumption
<1> QED BY <1>1, <1>2, <1>3, <1>4, Zenon DEF BlockFiles

\* Block files that fit the file still do.
LEMMA PulledFits ==
    ASSUME NEW t \in BlockFiles, NEW ino \in File, Fits(t, ino.sub), NEW first, NEW second
    PROVE  Fits(Pulled(t, ino, first, second), ino.sub)
<1>1. ASSUME NEW i \in Index, i < Len(ino.sub) PROVE Block(t, ino, i) = ino.sub[i + 1]
  BY <1>1, Zenon DEF Block, Fits
<1>2. \A i \in Index : Pulled(t, ino, first, second)[i]
        = IF i \in first .. second - 1 /\ i < Len(ino.sub) THEN Block(t, ino, i) ELSE t[i]
  BY Zenon DEF Pulled
<1> QED BY <1>1, <1>2, Zenon DEF Fits

\* So read_data takes the blocks of the file for them.
LEMMA FitsBlock ==
    ASSUME NEW t, NEW ino \in File, Fits(t, ino.sub), Len(ino.sub) <= MaxBlocks
    PROVE  AsStored(t, ino)
<1>1. ASSUME NEW i \in Nat, i < Len(ino.sub) PROVE Block(t, ino, i) = ino.sub[i + 1]
  <2>1. Len(ino.sub) \in Nat BY DEF File
  <2>2. i < MaxBlocks BY <1>1, <2>1, IndexType
  <2>3. i \in Index BY <2>2, IndexType
  <2> QED BY <1>1, <2>3, Zenon DEF Block, Fits
<1> QED BY <1>1, Zenon DEF AsStored

\* Block files that hold s fit the file written.
LEMMA FilledFits ==
    ASSUME NEW s \in Seq(Nat), NEW t, Filled(t, s)
    PROVE  Fits(t, Written(s).sub)
<1>1. Len(Written(s).sub) = Blocks(Len(s))
      /\ \A i \in Nat : i < Blocks(Len(s)) => Written(s).sub[i + 1] = Chunk(s, i)
  BY WrittenStores, Zenon
<1>2. ASSUME NEW i \in Index
      PROVE  t[i] = IF i < Blocks(Len(s)) THEN Chunk(s, i) ELSE None
  BY Zenon DEF Filled
<1>3. \A i \in Index : i \in Nat BY IndexType
<1> QED BY <1>1, <1>2, <1>3, Zenon DEF Fits

\* Reading what the first n bytes were when the file was opened changes no
\* block file: the only one without data is that of an empty block.
LEMMA FilledPulled ==
    ASSUME NEW s \in Seq(Nat), NEW t, Filled(t, s), NEW n \in 0 .. Len(s),
           NEW ino, ino = Written(Prefix(s, n)), NEW first, NEW second
    PROVE  Pulled(t, ino, first, second) = t
<1>1. PICK u : u = Prefix(s, n) OBVIOUS
<1>2. u \in Seq(Nat) /\ Len(u) = n /\ n \in Nat /\ Len(s) \in Nat BY <1>1, PrefixType
<1>3. Len(ino.sub) = Blocks(n) /\ \A i \in Nat : i < Blocks(n) => ino.sub[i + 1] = Chunk(u, i)
  BY <1>1, <1>2, WrittenStores, Zenon
<1>4. ASSUME NEW i \in Index
      PROVE  t[i] = IF i < Blocks(Len(s)) THEN Chunk(s, i) ELSE None
  BY Zenon DEF Filled
<1>5. ASSUME NEW i \in Index, i < Len(ino.sub) PROVE Block(t, ino, i) = t[i]
  <2>1. i \in Nat /\ i < Blocks(n) BY <1>3, <1>5, IndexType
  <2>2. n # 0 /\ Start(i) <= n BY <1>2, <2>1, BlocksType
  <2>3. Start(i) \in Nat BY <2>1, Starts
  <2>4. Len(s) # 0 /\ Start(i) <= Len(s) BY <1>2, <2>2, <2>3
  <2>5. i < Blocks(Len(s)) BY <1>2, <2>1, <2>4, BlocksType
  <2>6. t[i] = Chunk(s, i) BY <1>4, <2>5, Zenon
  <2>7. Chunk(s, i) \in Seq(Nat) /\ Len(Chunk(s, i)) = ChunkLen(Len(s), i) BY <2>1, ChunkType
  <2>8. CASE Chunk(s, i) = << >>
    <3>1. ChunkLen(Len(s), i) = 0 BY <2>7, <2>8
    <3>2. BlockSize \in Nat \ {0} BY FileDataAssumption
    <3>3. Len(s) <= Start(i) BY <1>2, <2>3, <3>1, <3>2 DEF ChunkLen
    <3>4. n <= Start(i) BY <1>2, <3>3, <2>3
    <3>5. ChunkLen(n, i) = 0 BY <3>4 DEF ChunkLen
    <3>6. Chunk(u, i) \in Seq(Nat) /\ Len(Chunk(u, i)) = 0 BY <1>2, <2>1, <3>5, ChunkType
    <3>7. Chunk(u, i) = << >> BY <3>6
    <3>8. ino.sub[i + 1] = << >> BY <1>3, <2>1, <3>7, Zenon
    <3> QED BY <2>6, <2>8, <3>8, Zenon DEF Block
  <2>9. CASE Chunk(s, i) # << >>
    <3>1. t[i] # None BY <2>6, <2>7, NoneAssumption
    <3> QED BY <2>6, <2>9, <3>1, Zenon DEF Block
  <2> QED BY <2>8, <2>9, Zenon
<1>6. t = [i \in Index |-> t[i]] BY Zenon DEF Filled
<1>7. Pulled(t, ino, first, second) = [i \in Index |-> t[i]] BY <1>5, Zenon DEF Pulled
<1> QED BY <1>6, <1>7, Zenon

\* The blocks of a write.
Over(offset, n) == offset \div BlockSize .. (offset + n) \div BlockSize

\* Block files after a write of bytes w at offset, to the blocks over.
Extended(t, over, offset, w) ==
    [i \in Index |-> IF i \in over THEN Appended(t, i) \o Part(offset, w, i) ELSE t[i]]

\* A write at the end of the file leaves block files that hold what the
\* file is then.
LEMMA FilledAppended ==
    ASSUME NEW s2, NEW s, NEW w, Longer(s2, s, w), Len(w) # 0, NEW t, Filled(t, s),
           NEW over, over = Over(Len(s), Len(w))
    PROVE  Filled(Extended(t, over, Len(s), w), s2)
<1>1. /\ s2 \in Seq(Nat) /\ s \in Seq(Nat) /\ w \in Seq(Nat)
      /\ Len(s2) = Len(s) + Len(w)
      /\ \A k \in 1 .. Len(s) : s2[k] = s[k]
  BY Zenon DEF Longer
<1>2. PICK o : o = Len(s) OBVIOUS
<1>3. PICK m : m = Len(s2) BY Zenon
<1>4. o \in Nat /\ m \in Nat /\ o < m /\ m # 0 BY <1>1, <1>2, <1>3, SMTT(30)
<1>5. PICK first : first = o \div BlockSize OBVIOUS
<1>6. PICK last : last = m \div BlockSize OBVIOUS
<1>7. first \in Nat /\ last \in Nat /\ over = first .. last
  <2>1. over = first .. last BY <1>1, <1>2, <1>3, <1>5, <1>6, Zenon DEF Over
  <2>2. first \in Nat /\ last \in Nat BY <1>4, <1>5, <1>6, DivMod
  <2> QED BY <2>1, <2>2
<1>8. \A i \in Nat : (i <= first <=> Start(i) <= o) /\ (i <= last <=> Start(i) <= m)
  BY <1>4, <1>5, <1>6, BlockOf
<1>9. \A i \in Nat : /\ i < Blocks(o) <=> o # 0 /\ i <= first
                     /\ i < Blocks(m) <=> i <= last
  BY <1>4, <1>8, BlocksType, Zenon
<1>10. ASSUME NEW i \in Index
       PROVE  t[i] = IF i < Blocks(o) THEN Chunk(s, i) ELSE None
  BY <1>2, Zenon DEF Filled
<1>11. ASSUME NEW i \in Index
       PROVE  (IF i \in over THEN Appended(t, i) \o Part(Len(s), w, i) ELSE t[i])
                = IF i < Blocks(m) THEN Chunk(s2, i) ELSE None
  <2>1. i \in Nat BY IndexType
  <2>2. Start(i) \in Nat /\ BlockSize \in Nat \ {0} /\ Start(i + 1) = Start(i) + BlockSize
    BY <2>1, Starts
  <2>3. Chunk(s, i) \in Seq(Nat) /\ Len(Chunk(s, i)) = ChunkLen(o, i)
    BY <1>1, <1>2, <2>1, ChunkType, Zenon
  <2>4. CASE first <= i /\ i <= last
    <3>1. Len(s) \div BlockSize <= i /\ i <= (Len(s) + Len(w)) \div BlockSize
      BY <1>1, <1>2, <1>3, <1>5, <1>6, <2>4, Zenon
    <3>2. Chunk(s2, i) = Chunk(s, i) \o Part(Len(s), w, i) BY <2>1, <3>1, ChunkAppend, Zenon
    <3>3. Appended(t, i) = Chunk(s, i)
      <4>1. CASE i < Blocks(o)
        <5>1. t[i] = Chunk(s, i) BY <1>10, <4>1, Zenon
        <5>2. t[i] # None BY <2>3, <5>1, NoneAssumption
        <5> QED BY <5>1, <5>2, Zenon DEF Appended
      <4>2. CASE ~ (i < Blocks(o))
        <5>1. t[i] = None BY <1>10, <4>2, Zenon
        <5>2. o = 0 \/ ~ (i <= first) BY <1>9, <2>1, <4>2, Zenon
        <5>3. o <= Start(i) BY <1>4, <1>8, <2>1, <2>2, <5>2, SMTT(30)
        <5>4. ChunkLen(o, i) = 0 BY <5>3, Zenon DEF ChunkLen
        <5>5. Chunk(s, i) = << >> BY <2>3, <5>4
        <5> QED BY <5>1, <5>5, Zenon DEF Appended
      <4> QED BY <4>1, <4>2, Zenon
    <3>4. i \in over BY <1>7, <2>1, <2>4
    <3>5. i < Blocks(m) BY <1>9, <2>1, <2>4, Zenon
    <3> QED BY <3>2, <3>3, <3>4, <3>5, Zenon
  <2>5. CASE i < first
    <3>1. i + 1 \in Nat /\ i + 1 <= first /\ i <= first /\ i \notin over BY <1>7, <2>1, <2>5
    <3>2. Start(i) + BlockSize <= o BY <1>8, <2>2, <3>1
    <3>3. o # 0 /\ Start(i) <= m BY <1>4, <2>2, <3>2
    <3>4. i < Blocks(o) /\ i < Blocks(m) BY <1>8, <1>9, <2>1, <3>1, <3>3, Zenon
    <3>5. \A k \in 1 .. o : s[k] = s2[k] BY <1>1, <1>2, Zenon
    <3>6. o <= Len(s) /\ o <= Len(s2) BY <1>2, <1>3, <1>4
    <3>7. SameStart(s, s2, o) BY <1>1, <1>4, <3>5, <3>6, Zenon DEF SameStart
    <3>8. Chunk(s, i) = Chunk(s2, i) BY <2>1, <3>2, <3>7, SameChunk
    <3> QED BY <1>10, <3>1, <3>4, <3>8, Zenon
  <2>6. CASE i > last
    <3>1. i \notin over /\ ~ (i <= last) BY <1>7, <2>1, <2>6
    <3>2. ~ (i <= first) BY <1>4, <1>8, <2>1, <2>2, <3>1
    <3>3. ~ (i < Blocks(o)) /\ ~ (i < Blocks(m)) BY <1>9, <2>1, <3>1, <3>2, Zenon
    <3> QED BY <1>10, <3>1, <3>3, Zenon
  <2>7. (first <= i /\ i <= last) \/ i < first \/ i > last BY <1>7, <2>1
  <2> QED BY <2>4, <2>5, <2>6, <2>7, Zenon
<1> QED BY <1>3, <1>11, Zenon DEF Filled, Extended

\* fsync stores a file, of no more blocks than there may be.
LEMMA SyncedType ==
    ASSUME TypeInv, links # {}, cached # None
    PROVE  Synced \in File /\ Len(Synced.sub) <= MaxBlocks
<1>1. /\ cached \in File /\ links \in SUBSET Index
      /\ \A i \in links : tmp[i] \in Seq(Nat)
      /\ Len(cached.sub) <= MaxBlocks
  BY DEF TypeInv, TypeOK
<1>2. PICK c : c = MaxBlocks OBVIOUS
<1>3. c \in Nat /\ \A i \in links : i \in Nat /\ i < c /\ i <= c BY <1>1, <1>2, IndexType, SMTT(30)
<1>4. PICK back : back = Max(links) OBVIOUS
<1>5. back \in links
  <2>1. links \in SUBSET Nat BY <1>3
  <2> QED BY <1>3, <1>4, <2>1, MaxOf, Zenon
<1>6. PICK sub : sub = cached.sub OBVIOUS
<1>7. sub \in Seq(Seq(Nat)) /\ Len(sub) \in Nat /\ Len(sub) <= c /\ cached.filesize \in Nat
  BY <1>1, <1>2, <1>6 DEF File
<1>8. PICK n : n = Max({back + 1, Len(sub)}) OBVIOUS
<1>9. back + 1 \in Nat /\ back \in Nat /\ back < c BY <1>3, <1>5
<1>10. n \in Nat /\ n <= c
  <2>1. n = IF back + 1 < Len(sub) THEN Len(sub) ELSE back + 1 BY <1>7, <1>8, <1>9, MaxTwo, SMTT(30)
  <2> QED BY <1>3, <1>7, <1>9, <2>1
<1>11. PICK z : z = back * BlockSize + Len(tmp[back]) OBVIOUS
<1>12. z \in Nat
  <2>1. tmp[back] \in Seq(Nat) BY <1>1, <1>5
  <2>2. Len(tmp[back]) \in Nat BY <2>1
  <2>3. back * BlockSize \in Nat BY <1>9, Starts DEF Start
  <2> QED BY <1>11, <2>2, <2>3
<1>13. Max({cached.filesize, z}) \in Nat
  <2>1. PICK y : y = cached.filesize OBVIOUS
  <2>2. y \in Nat BY <1>7, <2>1
  <2>3. Max({y, z}) = IF y < z THEN z ELSE y BY <1>12, <2>2, MaxTwo
  <2> QED BY <1>12, <2>1, <2>2, <2>3
<1> DEFINE f == [i \in 1 .. n |-> CASE i - 1 \in links -> tmp[i - 1]
                                   [] i - 1 \notin links /\ i <= Len(sub) -> sub[i]
                                   [] OTHER -> << >>]
<1>14. Synced = [filesize |-> Max({cached.filesize, z}), sub |-> f]
  BY <1>4, <1>6, <1>8, <1>11, Zenon DEF Synced
<1>15. ASSUME NEW i \in 1 .. n PROVE f[i] \in Seq(Nat)
  <2>1. f[i] = CASE i - 1 \in links -> tmp[i - 1]
                 [] i - 1 \notin links /\ i <= Len(sub) -> sub[i]
                 [] OTHER -> << >>
    BY Zenon
  <2> HIDE DEF f
  <2>2. CASE i - 1 \in links BY <1>1, <2>1, <2>2, Zenon
  <2>3. CASE i - 1 \notin links /\ i <= Len(sub)
    <3>1. sub[i] \in Seq(Nat) BY <1>7, <1>10, <2>3
    <3> QED BY <2>1, <2>3, <3>1, Zenon
  <2>4. CASE i - 1 \notin links /\ ~ (i <= Len(sub))
    <3>1. << >> \in Seq(Nat) OBVIOUS
    <3> QED BY <2>1, <2>4, <3>1, Zenon
  <2> QED BY <2>2, <2>3, <2>4, Zenon
<1>16. f = [i \in 1 .. n |-> f[i]] BY Zenon
<1> HIDE DEF f
<1>17. f \in Seq(Seq(Nat)) /\ Len(f) = n BY <1>10, <1>15, <1>16, FunSeq
<1> QED BY <1>2, <1>10, <1>13, <1>14, <1>17, SMTT(30) DEF File

\* A block that ends before another one starts.
LEMMA Before ==
    ASSUME NEW x \in Nat, NEW b \in Nat \ {0}, NEW y \in Nat, NEW n \in Nat, x + b <= y, y <= n
    PROVE  x + b <= n /\ n # 0
  OBVIOUS

\* What fsync stores is the file written, when the session has appended to
\* what it has opened.
LEMMA SyncedWritten ==
    ASSUME intended \in Seq(Nat), Len(intended) <= MaxSize, Filled(tmp, intended),
           links # {}, NEW n \in 0 .. Len(intended) - 1, Pending(n)
    PROVE  Synced = Written(intended)
<1>1. PICK s : s = intended OBVIOUS
<1>2. PICK o : o = Len(s) BY Zenon
<1>3. s \in Seq(Nat) /\ o \in Nat /\ n \in Nat /\ n < o /\ n \in 0 .. Len(s) /\ o <= MaxSize
  BY <1>1, <1>2
<1>4. PICK u : u = Prefix(s, n) OBVIOUS
<1>5. u \in Seq(Nat) /\ Len(u) = n /\ \A k \in 1 .. n : u[k] = s[k] BY <1>3, <1>4, PrefixType, Zenon
<1>6. PICK a : a = n \div BlockSize OBVIOUS
<1>7. PICK last : last = o \div BlockSize OBVIOUS
<1>8. cached = Written(u) /\ links = a .. last BY <1>1, <1>2, <1>4, <1>6, <1>7, Zenon DEF Pending
<1>9. a \in Nat /\ last \in Nat BY <1>3, <1>6, <1>7, DivMod
<1>10. \A i \in Nat : (i <= a <=> Start(i) <= n) /\ (i <= last <=> Start(i) <= o)
  BY <1>3, <1>6, <1>7, BlockOf
<1>11. a <= last
  <2>1. a <= a BY <1>9
  <2>2. Start(a) <= n /\ Start(a) \in Nat BY <1>9, <1>10, <2>1, Starts, Zenon
  <2>3. Start(a) <= o BY <1>3, <2>2
  <2> QED BY <1>9, <1>10, <2>3
<1>12. Max(links) = last
  <2>1. links \in SUBSET Nat /\ last \in links /\ \A i \in links : i <= last
    BY <1>8, <1>9, <1>11
  <2>2. Max(links) \in links /\ \A i \in links : i <= Max(links) BY <1>9, <2>1, MaxOf, Zenon
  <2>3. PICK b : b = Max(links) OBVIOUS
  <2>4. b \in Nat /\ b <= last /\ last <= b BY <2>1, <2>2, <2>3, Zenon
  <2>5. b = last BY <1>9, <2>4
  <2> QED BY <2>3, <2>5
<1>13. Blocks(o) = last + 1 /\ Blocks(n) = (IF n = 0 THEN 0 ELSE a + 1)
  <2>1. o # 0 BY <1>3
  <2> QED BY <1>6, <1>7, <2>1, Zenon DEF Blocks
<1>14. PICK sub : sub = cached.sub OBVIOUS
<1>15. /\ Len(sub) = Blocks(n) /\ cached.filesize = n
       /\ \A i \in Nat : i < Blocks(n) => sub[i + 1] = Chunk(u, i)
  <2>1. cached.filesize = n BY <1>5, <1>8 DEF Written
  <2> QED BY <1>5, <1>8, <1>14, <2>1, WrittenStores, Zenon
<1>16. Max({last + 1, Len(sub)}) = last + 1
  <2>1. Blocks(n) \in Nat /\ last + 1 \in Nat /\ Blocks(n) <= last + 1
    BY <1>9, <1>11, <1>13
  <2>2. PICK x : x = Blocks(n) OBVIOUS
  <2>3. PICK y : y = last + 1 OBVIOUS
  <2>4. Max({y, x}) = IF y < x THEN x ELSE y BY <2>1, <2>2, <2>3, MaxTwo
  <2> QED BY <1>15, <2>1, <2>2, <2>3, <2>4
<1>17. ASSUME NEW i \in Nat, i <= last PROVE tmp[i] = Chunk(s, i)
  <2>1. Start(i) <= o /\ Start(i) \in Nat BY <1>10, <1>17, Starts
  <2>2. Start(i) <= MaxSize BY <1>3, <2>1, FileDataAssumption
  <2>3. i \in Index BY <2>2, IndexType
  <2>4. i < Blocks(Len(intended)) BY <1>1, <1>2, <1>9, <1>13, <1>17
  <2> QED BY <1>1, <2>3, <2>4, Zenon DEF Filled
<1>18. Max({cached.filesize, last * BlockSize + Len(tmp[last])}) = o
  <2>1. PICK x : x = Start(last) OBVIOUS
  <2>2. x \in Nat /\ BlockSize \in Nat \ {0} /\ Start(last + 1) = x + BlockSize
    BY <1>9, <2>1, Starts
  <2>3. x <= o BY <1>9, <1>10, <2>1
  <2>4. o < x + BlockSize
    <3>1. last + 1 \in Nat /\ ~ (last + 1 <= last) BY <1>9
    <3>2. ~ (Start(last + 1) <= o) BY <1>10, <3>1, Zenon
    <3> QED BY <1>3, <2>2, <3>2
  <2>5. ChunkLen(o, last) = o - x BY <1>3, <2>1, <2>2, <2>3, <2>4 DEF ChunkLen
  <2>6. tmp[last] = Chunk(s, last) BY <1>9, <1>17
  <2>7. Len(Chunk(s, last)) = ChunkLen(o, last) BY <1>2, <1>3, <1>9, ChunkType, Zenon
  <2>8. Len(tmp[last]) = o - x BY <2>5, <2>6, <2>7, Zenon
  <2>9. last * BlockSize = x BY <2>1, Zenon DEF Start
  <2>10. x + (o - x) = o BY <1>3, <2>2
  <2>11. last * BlockSize + Len(tmp[last]) = o BY <2>8, <2>9, <2>10, Zenon
  <2>12. Max({n, o}) = o BY <1>3, MaxTwo
  <2> QED BY <1>15, <2>11, <2>12, Zenon
<1>19. ASSUME NEW i \in 1 .. last + 1
       PROVE  (CASE i - 1 \in links -> tmp[i - 1]
                 [] i - 1 \notin links /\ i <= Len(sub) -> sub[i]
                 [] OTHER -> << >>) = Chunk(s, i - 1)
  <2>1. PICK j : j = i - 1 OBVIOUS
  <2>2. j \in Nat /\ j + 1 = i /\ j <= last BY <1>9, <2>1, SMTT(30)
  <2>3. CASE j \in links
    <3>1. tmp[j] = Chunk(s, j) BY <1>17, <2>2
    <3> QED BY <2>1, <2>3, <3>1, Zenon
  <2>4. CASE j \notin links
    <3>1. j < a BY <1>8, <1>9, <2>2, <2>4
    <3>2. Start(j) \in Nat /\ Start(a) \in Nat /\ BlockSize \in Nat \ {0} BY <1>9, <2>2, Starts, Zenon
    <3>3. Start(j) + BlockSize <= Start(a) /\ Start(a) <= n
      BY <1>9, <1>10, <2>2, <3>1, BlockOrder
    <3>4. Start(j) + BlockSize <= n /\ n # 0 BY <1>3, <3>2, <3>3, Before, Zenon
    <3>5. j < Blocks(n) /\ i <= Blocks(n) BY <1>9, <1>13, <2>2, <3>1, <3>4
    <3>6. sub[i] = Chunk(u, j) BY <1>15, <2>2, <3>5, SMTT(30)
    <3>7. n <= Len(u) /\ n <= Len(s) BY <1>2, <1>3, <1>5
    <3>8. SameStart(u, s, n) BY <1>3, <1>5, <3>7, Zenon DEF SameStart
    <3>9. Chunk(u, j) = Chunk(s, j) BY <2>2, <3>4, <3>8, SameChunk
    <3> QED BY <1>15, <2>1, <2>4, <3>5, <3>6, <3>9, Zenon
  <2> QED BY <2>3, <2>4, Zenon
<1>20. Synced = [filesize |-> o,
                 sub |-> [i \in 1 .. last + 1 |->
                            CASE i - 1 \in links -> tmp[i - 1]
                              [] i - 1 \notin links /\ i <= Len(sub) -> sub[i]
                              [] OTHER -> << >>]]
  BY <1>12, <1>14, <1>16, <1>18, Zenon DEF Synced
<1>21. Synced = [filesize |-> o, sub |-> [i \in 1 .. last + 1 |-> Chunk(s, i - 1)]]
  BY <1>19, <1>20, Zenon
<1> QED BY <1>1, <1>2, <1>13, <1>21, Zenon DEF Written

-----------------------------------------------------------------------------
(* The invariant holds at the start, and every step keeps it.              *)

\* At the start.
LEMMA InitInv ==
    ASSUME Init
    PROVE  IInv
<1>1. << >> \in Seq(Nat) /\ Len(<< >>) = 0 /\ Filled([i \in Index |-> None], << >>)
  BY EmptyFile, Zenon
<1>2. TypeInv
  <2>1. tmp \in BlockFiles BY Zenon DEF Init, BlockFiles
  <2>2. DOMAIN tmp = Index /\ \A i \in Index : tmp[i] \in Seq(Nat) \cup {None}
    BY <2>1, Zenon DEF BlockFiles
  <2>3. writer \in BOOLEAN /\ current \in BOOLEAN /\ intended \in Seq(Nat)
        /\ links \in SUBSET Index /\ \A i \in links : tmp[i] # None
    BY <1>1, Zenon DEF Init
  <2>4. readers \in 0 .. MaxReaders /\ changes \in 0 .. MaxChanges /\ stamp \in Nat
    BY FileDataAssumption DEF Init
  <2>5. inode = None /\ cached = None /\ origin = "written" BY DEF Init
  <2> QED BY <2>1, <2>2, <2>3, <2>4, <2>5 DEF TypeInv, TypeOK, BlockFiles
<1>3. SessionInv BY DEF Init, SessionInv
<1>4. WrittenInv BY <1>1, FileDataAssumption DEF Init, WrittenInv
<1>5. PutInv BY SMTT(30) DEF Init, PutInv
<1> QED BY <1>2, <1>3, <1>4, <1>5 DEF IInv

\* The bytes of a write.
LEMMA FreshType ==
    ASSUME stamp \in Nat, NEW n \in Nat
    PROVE  Fresh(n) \in Seq(Nat) /\ Len(Fresh(n)) = n /\ \A k \in 1 .. n : Fresh(n)[k] = stamp + k
  BY DEF Fresh

\* update_inode, in a session that opens the file: block files that held
\* what was opened before hold, or fit, what is opened now.
LEMMA UpdateInode ==
    ASSUME IInv, inode # None, ~ writer, update_inode
    PROVE  /\ cached' = inode /\ tmp' \in BlockFiles
           /\ origin = "written" => tmp' = tmp
           /\ origin = "put" /\ current => Fits(tmp', inode.sub)
<1> DEFINE local == IF cached = None THEN << >> ELSE cached.sub
           remote == inode.sub
           Changed(i) == i < Len(local) /\ (i >= Len(remote) \/ local[i + 1] # remote[i + 1])
<1>1. cached' = inode /\ tmp' = [i \in Index |-> IF Changed(i) THEN None ELSE tmp[i]]
  BY Zenon DEF update_inode
<1>2. tmp \in BlockFiles /\ links = {} /\ inode \in File /\ cached \in File \cup {None}
  BY SMTT(30) DEF IInv, TypeInv, TypeOK, SessionInv, BlockFiles
<1>3. \A i \in Index : i \in Nat BY IndexType
<1> HIDE DEF local, remote, Changed
<1>4. tmp' \in BlockFiles BY <1>1, <1>2, Zenon DEF BlockFiles
<1>5. ASSUME origin = "written" PROVE tmp' = tmp
  <2>1. inode = Written(intended) /\ cached \in {None, Written(intended)}
    BY <1>2, <1>5, Zenon DEF IInv, WrittenInv
  <2>2. ASSUME NEW i \in Index PROVE ~ Changed(i)
    <3>1. i \in Nat BY <1>3
    <3>2. CASE cached = None
      <4>1. Len(local) = 0 BY <3>2 DEF local
      <4> QED BY <3>1, <4>1 DEF Changed
    <3>3. CASE cached = inode /\ cached # None
      <4>1. local = remote BY <3>3, Zenon DEF local, remote
      <4>2. Len(remote) \in Nat BY <1>2, SMTT(30) DEF remote, File
      <4> QED BY <3>1, <4>1, <4>2 DEF Changed
    <3> QED BY <2>1, <3>2, <3>3, Zenon
  <2>3. tmp' = [i \in Index |-> tmp[i]] BY <1>1, <2>2, Zenon
  <2>4. tmp = [i \in Index |-> tmp[i]] BY <1>2, Zenon DEF BlockFiles
  <2> QED BY <2>3, <2>4, Zenon
<1>6. ASSUME origin = "put", current PROVE Fits(tmp', inode.sub)
  <2>1. (cached # None => Fits(tmp, cached.sub)) /\ (cached = None => Fits(tmp, inode.sub))
    BY <1>6, Zenon DEF IInv, PutInv
  <2>2. ASSUME NEW i \in Index
        PROVE  tmp'[i] \in {None, << >>} \/ (i < Len(remote) /\ tmp'[i] = remote[i + 1])
    <3>1. tmp'[i] = IF Changed(i) THEN None ELSE tmp[i] BY <1>1, Zenon
    <3>2. CASE cached = None
      <4>1. tmp[i] \in {None, << >>} \/ (i < Len(remote) /\ tmp[i] = remote[i + 1])
        BY <2>1, <3>2, Zenon DEF Fits, remote
      <4> QED BY <3>1, <4>1, Zenon
    <3>3. CASE cached # None
      <4>1. local = cached.sub BY <3>3, Zenon DEF local
      <4>2. tmp[i] \in {None, << >>} \/ (i < Len(local) /\ tmp[i] = local[i + 1])
        BY <2>1, <3>3, <4>1, Zenon DEF Fits
      <4>3. Len(remote) \in Nat /\ i \in Nat BY <1>2, <1>3 DEF remote, File
      <4>4. ~ (i >= Len(remote)) => i < Len(remote) BY <4>3
      <4> QED BY <3>1, <4>2, <4>4, Zenon DEF Changed
    <3> QED BY <3>2, <3>3, Zenon
  <2> QED BY <2>2, Zenon DEF Fits, remote
<1> QED BY <1>1, <1>4, <1>5, <1>6, Zenon

\* Init of a session, whichever it is: what is left of the invariant.
LEMMA OpenedInv ==
    ASSUME IInv, inode # None, ~ writer, update_inode, links' = {},
           UNCHANGED <<inode, intended, origin, current, bounds>>,
           writer' \in BOOLEAN, readers' \in 0 .. MaxReaders,
           writer' => readers' = 0, writer' \/ readers' # 0
    PROVE  IInv'
<1>1. /\ cached' = inode /\ tmp' \in BlockFiles
      /\ origin = "written" => tmp' = tmp
      /\ origin = "put" /\ current => Fits(tmp', inode.sub)
  BY UpdateInode, Zenon
<1>2. inode' = inode /\ intended' = intended /\ origin' = origin /\ current' = current
      /\ changes' = changes /\ stamp' = stamp
  BY DEF bounds
<1>3. links = {} /\ inode \in File BY DEF IInv, SessionInv, TypeInv, TypeOK
<1>4. TypeInv'
  <2>1. TypeOK BY DEF IInv, TypeInv
  <2>2. DOMAIN tmp' = Index /\ \A i \in Index : tmp'[i] \in Seq(Nat) \cup {None}
    BY <1>1, Zenon DEF BlockFiles
  <2> QED BY <1>1, <1>2, <1>3, <2>1, <2>2 DEF TypeInv, TypeOK, BlockFiles
<1>5. SessionInv' BY <1>1, <1>2, <1>3, SMTT(30) DEF IInv, SessionInv
<1>6. WrittenInv'
  <2>1. SUFFICES ASSUME origin' = "written"
        PROVE  (/\ Len(intended) <= MaxSize
                /\ Filled(tmp, intended)
                /\ links = {} => inode \in {None, Written(intended)}
                /\ ~ writer => cached \in {None, Written(intended)}
                /\ cached # None => \E n \in 0 .. Len(intended) :
                                       cached = Written(Prefix(intended, n))
                /\ links # {} => \E n \in 0 .. Len(intended) - 1 : Pending(n))'
    BY Zenon DEF WrittenInv
  <2>2. /\ Len(intended) <= MaxSize /\ Filled(tmp, intended)
        /\ inode = Written(intended) /\ intended \in Seq(Nat)
    <3>1. intended \in Seq(Nat) BY SMTT(30) DEF IInv, TypeInv, TypeOK
    <3> QED BY <1>2, <1>3, <2>1, <3>1, Zenon DEF IInv, WrittenInv
  <2>3. Len(intended) \in 0 .. Len(intended) /\ Prefix(intended, Len(intended)) = intended
    BY <2>2, PrefixType
  <2> QED BY <1>1, <1>2, <2>1, <2>2, <2>3, Zenon
<1>7. PutInv'
  <2>1. inode \in {None, put_file(intended)} \/ origin # "put" BY Zenon DEF IInv, PutInv
  <2>2. origin' = "put" => links' = {} /\ inode' \in {None, put_file(intended')}
    BY <1>2, <2>1
  <2>3. inode' \in {None, cached'} BY <1>1, <1>2
  <2>4. origin' = "put" /\ current' => Fits(tmp', cached'.sub) BY <1>1, <1>2
  <2>5. cached' # None BY <1>1
  <2> QED BY <2>2, <2>3, <2>4, <2>5, Zenon DEF PutInv
<1> QED BY <1>4, <1>5, <1>6, <1>7, Zenon DEF IInv

\* open for reading.
LEMMA OpenRInv ==
    ASSUME IInv, open_r
    PROVE  IInv'
<1>1. /\ inode # None /\ ~ writer /\ update_inode /\ links' = links /\ writer' = writer
      /\ readers' = readers + 1 /\ readers < MaxReaders
      /\ UNCHANGED <<inode, intended, origin, current, bounds>>
  BY DEF open_r
<1>2. readers \in 0 .. MaxReaders /\ links = {} BY <1>1 DEF IInv, TypeInv, TypeOK, SessionInv
<1>3. writer' \in BOOLEAN /\ ~ writer' BY <1>1, Zenon DEF IInv, TypeInv, TypeOK
<1>4. readers' \in 0 .. MaxReaders /\ readers' # 0 BY <1>1, <1>2, FileDataAssumption
<1>5. links' = {} BY <1>1, <1>2
<1> QED BY <1>1, <1>3, <1>4, <1>5, OpenedInv, Zenon

\* open for writing.
LEMMA OpenWInv ==
    ASSUME IInv, open_w
    PROVE  IInv'
<1>1. /\ inode # None /\ ~ writer /\ update_inode /\ links' = {} /\ writer' = TRUE
      /\ readers' = readers /\ readers = 0
      /\ UNCHANGED <<inode, intended, origin, current, bounds>>
  BY DEF open_w
<1>2. readers' \in 0 .. MaxReaders /\ readers' = 0 BY <1>1, FileDataAssumption
<1> QED BY <1>1, <1>2, OpenedInv, Zenon

\* Where the history says mixed, only types and sessions matter.
LEMMA MixedInv ==
    ASSUME TypeInv', SessionInv', origin' = "mixed"
    PROVE  IInv'
<1>1. "mixed" # "written" /\ "mixed" # "put" OBVIOUS
<1> QED BY <1>1, Zenon DEF IInv, WrittenInv, PutInv

\* open with O_TRUNC.
LEMMA OpenTruncInv ==
    ASSUME IInv, open_trunc
    PROVE  IInv'
<1>1. /\ inode # None /\ ~ writer /\ update_inode /\ links' = {} /\ writer' = TRUE
      /\ readers' = readers /\ readers = 0 /\ UNCHANGED bounds
  BY DEF open_trunc
<1>2. readers' \in 0 .. MaxReaders /\ readers' = 0 BY <1>1, FileDataAssumption
<1>3. CASE inode.filesize = 0
  <2>1. UNCHANGED <<inode, intended, origin, current, bounds>> BY <1>3 DEF open_trunc
  <2> QED BY <1>1, <1>2, <2>1, OpenedInv, Zenon
<1>4. CASE inode.filesize # 0
  <2>1. inode' = Empty /\ intended' = << >> /\ origin' = "mixed" /\ current' = FALSE
    BY <1>4 DEF open_trunc
  <2>2. cached' = inode /\ tmp' \in BlockFiles BY <1>1, UpdateInode, Zenon
  <2>3. << >> \in Seq(Nat) /\ Len(<< >>) = 0 /\ << >> \in Seq(Seq(Nat)) OBVIOUS
  <2>4. Empty \in File /\ Empty.sub = << >> BY <2>3 DEF Empty, File
  <2>5. MaxBlocks \in Nat BY IndexType
  <2>6. inode' \in File /\ Len(inode'.sub) <= MaxBlocks BY <2>1, <2>3, <2>4, <2>5
  <2>7. TypeInv'
    <3>1. TypeOK BY DEF IInv, TypeInv
    <3>2. DOMAIN tmp' = Index /\ \A i \in Index : tmp'[i] \in Seq(Nat) \cup {None}
      BY <2>2, Zenon DEF BlockFiles
    <3>3. changes' = changes /\ stamp' = stamp BY <1>1 DEF bounds
    <3>4. writer' \in BOOLEAN /\ current' \in BOOLEAN BY <1>1, <2>1, Zenon
    <3>5. links' \in SUBSET Index /\ \A i \in links' : tmp'[i] # None BY <1>1
    <3>6. intended' \in Seq(Nat) BY <2>1, <2>3
    <3> QED BY <1>1, <1>2, <2>1, <2>2, <2>6, <3>1, <3>2, <3>3, <3>4, <3>5, <3>6, SMTT(30)
            DEF TypeInv, TypeOK, BlockFiles
  <2>8. SessionInv' BY <1>1, <1>2, <2>1, <2>2 DEF SessionInv
  <2> QED BY <2>1, <2>7, <2>8, MixedInv
<1> QED BY <1>3, <1>4

\* SDK::create.
LEMMA CreateInv ==
    ASSUME IInv, create
    PROVE  IInv'
<1>1. /\ inode' = put_file(<< >>) /\ cached' = inode' /\ writer' = TRUE /\ links' = {}
      /\ intended' = << >> /\ origin' = (IF Clean THEN "written" ELSE "mixed")
      /\ current' = Clean /\ tmp' = tmp /\ readers' = readers /\ readers = 0
      /\ changes' = changes /\ stamp' = stamp
  BY DEF create, bounds
<1>2. /\ << >> \in Seq(Nat) /\ Len(<< >>) = 0 /\ Blocks(0) = 0
      /\ put_file(<< >>) = Written(<< >>)
      /\ Filled([i \in Index |-> None], << >>)
  BY EmptyFile, Zenon
<1>3. inode' \in File /\ Len(inode'.sub) = 0 /\ inode' = Written(<< >>)
  <2>1. PICK e : e = << >> OBVIOUS
  <2>2. Written(e) \in File /\ Len(Written(e).sub) = Blocks(Len(e))
    BY <1>2, <2>1, WrittenStores, Zenon
  <2> QED BY <1>1, <1>2, <2>1, <2>2, Zenon
<1>4. MaxBlocks \in Nat BY IndexType
<1>5. tmp \in BlockFiles /\ TypeOK BY DEF IInv, TypeInv, BlockFiles
<1>6. TypeInv'
  <2>1. Len(inode'.sub) <= MaxBlocks BY <1>3, <1>4
  <2>2. writer' \in BOOLEAN /\ current' \in BOOLEAN BY <1>1 DEF Clean
  <2>3. links' \in SUBSET Index /\ \A i \in links' : tmp'[i] # None BY <1>1
  <2>4. origin' \in {"written", "put", "mixed"} BY <1>1
  <2> QED BY <1>1, <1>2, <1>3, <1>5, <2>1, <2>2, <2>3, <2>4, SMTT(30) DEF TypeInv, TypeOK, BlockFiles
<1>7. SessionInv'
  <2>1. inode' # None BY <1>3, NoneAssumption
  <2> QED BY <1>1, <2>1, SMTT(30) DEF SessionInv
<1>8. CASE ~ Clean BY <1>1, <1>6, <1>7, <1>8, MixedInv
<1>9. CASE Clean
  <2>1. tmp = [i \in Index |-> None]
    <3>1. tmp = [i \in Index |-> tmp[i]] BY <1>5, Zenon DEF BlockFiles
    <3> QED BY <1>9, <3>1, Zenon DEF Clean
  <2>2. Filled(tmp', intended') BY <1>1, <1>2, <2>1, Zenon
  <2>3. \E n \in 0 .. Len(intended') : cached' = Written(Prefix(intended', n))
    <3>1. PICK e : e = << >> OBVIOUS
    <3>2. 0 \in 0 .. Len(e) /\ 0 = Len(e) /\ e \in Seq(Nat) BY <1>2, <3>1
    <3>3. Prefix(e, 0) = e BY <3>2, PrefixType, Zenon
    <3> QED BY <1>1, <1>3, <3>1, <3>2, <3>3, Zenon
  <2>4. Len(intended') <= MaxSize BY <1>1, <1>2, FileDataAssumption
  <2>5. WrittenInv' BY <1>1, <1>3, <2>2, <2>3, <2>4, Zenon DEF WrittenInv
  <2>6. origin' = "written" /\ "written" # "put" BY <1>1, <1>9
  <2>7. PutInv' BY <2>6, Zenon DEF PutInv
  <2> QED BY <1>6, <1>7, <2>5, <2>7, Zenon DEF IInv
<1> QED BY <1>8, <1>9, Zenon

\* With no block files, all that is left fits.
LEMMA CleanFits ==
    ASSUME Clean, NEW sub
    PROVE  Fits(tmp, sub)
  BY Zenon DEF Clean, Fits

\* What the client has open fits the block files, unless one is out of date.
LEMMA CachedFits ==
    ASSUME IInv, current, ~ writer, cached # None
    PROVE  Fits(tmp, cached.sub)
<1>1. origin \in {"written", "put", "mixed"} /\ intended \in Seq(Nat) BY DEF IInv, TypeInv, TypeOK
<1>2. origin # "mixed" BY Zenon DEF IInv, SessionInv
<1>3. CASE origin = "put" BY <1>3, Zenon DEF IInv, PutInv
<1>4. CASE origin = "written"
  <2>1. Filled(tmp, intended) /\ cached = Written(intended) BY <1>4, Zenon DEF IInv, WrittenInv
  <2> QED BY <1>1, <2>1, FilledFits, Zenon
<1> QED BY <1>1, <1>2, <1>3, <1>4, Zenon

\* SDK::put of another client.
LEMMA PutFileInv ==
    ASSUME IInv, NEW n \in 0 .. MaxSize, Put(n)
    PROVE  IInv'
<1>1. /\ ~ writer /\ inode' = put_file(Fresh(n)) /\ intended' = Fresh(n) /\ origin' = "put"
      /\ current' = (current /\ (Clean \/ cached # None))
      /\ cached' = cached /\ tmp' = tmp /\ links' = links
      /\ writer' = writer /\ readers' = readers
  BY DEF Put, session
<1>2. TypeOK BY DEF IInv, TypeInv
<1>3. changes' \in 0 .. MaxChanges /\ stamp' \in Nat
  BY <1>2, FileDataAssumption DEF Put, TypeOK
<1>4. n \in Nat /\ n <= MaxSize BY FileDataAssumption
<1>5. Fresh(n) \in Seq(Nat) /\ Len(Fresh(n)) = n BY <1>2, <1>4, FreshType DEF TypeOK
<1>6. put_file(Fresh(n)) \in File
      /\ Len(put_file(Fresh(n)).sub) = (n + BlockSize - 1) \div BlockSize
  BY <1>5, PutStores
<1>7. inode' \in File /\ Len(inode'.sub) <= MaxBlocks BY <1>1, <1>4, <1>6, PutBound
<1>8. links = {} BY <1>1, Zenon DEF IInv, SessionInv
<1>9. TypeInv'
  <2>1. current' \in BOOLEAN BY <1>1, <1>2 DEF Clean, TypeOK
  <2> QED BY <1>1, <1>2, <1>3, <1>5, <1>7, <2>1, SMTT(30) DEF IInv, TypeInv, TypeOK
<1>10. SessionInv' BY <1>1 DEF IInv, SessionInv
<1>11. "put" # "written" OBVIOUS
<1>12. WrittenInv' BY <1>1, <1>11, Zenon DEF WrittenInv
<1>13. PutInv'
  <2>1. current' /\ cached # None => Fits(tmp, cached.sub) BY <1>1, CachedFits, Zenon
  <2>2. current' /\ cached = None => Fits(tmp, inode'.sub) BY <1>1, CleanFits, Zenon
  <2> QED BY <1>1, <1>8, <2>1, <2>2, Zenon DEF PutInv
<1> QED BY <1>9, <1>10, <1>12, <1>13, Zenon DEF IInv

\* rm of another client.
LEMMA RmInv ==
    ASSUME IInv, rm
    PROVE  IInv'
<1>1. /\ inode' = None /\ cached' = cached /\ tmp' = tmp /\ links' = links
      /\ writer' = writer /\ readers' = readers /\ intended' = intended
      /\ origin' = origin /\ current' = current /\ changes' = changes /\ stamp' = stamp
  BY DEF rm, session, bounds
<1>2. TypeInv' BY <1>1 DEF IInv, TypeInv, TypeOK
<1>3. SessionInv' BY <1>1, Zenon DEF IInv, SessionInv
<1>4. WrittenInv'
  <2>1. \A n : Pending(n) => Pending(n)' BY <1>1, Zenon DEF Pending
  <2> QED BY <1>1, <2>1, Zenon DEF IInv, WrittenInv
<1>5. PutInv' BY <1>1, Zenon DEF IInv, PutInv
<1> QED BY <1>2, <1>3, <1>4, <1>5, Zenon DEF IInv

\* read_data.
LEMMA ReadInv ==
    ASSUME IInv, Read
    PROVE  IInv'
<1>1. PICK indexs : tmp' = Pulled(tmp, cached, indexs[1], indexs[2]) BY DEF Read
<1>2. /\ cached # None /\ inode' = inode /\ cached' = cached /\ links' = links
      /\ writer' = writer /\ readers' = readers /\ intended' = intended
      /\ origin' = origin /\ current' = current /\ changes' = changes /\ stamp' = stamp
  BY DEF Read, session, bounds
<1>3. TypeOK /\ tmp \in BlockFiles /\ cached \in File
  BY <1>2 DEF IInv, TypeInv, TypeOK, BlockFiles
<1>4. tmp' \in BlockFiles /\ \A i \in Index : tmp[i] # None => tmp'[i] # None
  BY <1>1, <1>3, PulledType, Zenon
<1>5. TypeInv'
  <2>1. DOMAIN tmp' = Index /\ \A i \in Index : tmp'[i] \in Seq(Nat) \cup {None}
    BY <1>4, Zenon DEF BlockFiles
  <2>2. \A i \in links' : tmp'[i] # None
    <3>1. links \in SUBSET Index /\ \A i \in links : tmp[i] # None BY <1>3, Zenon DEF TypeOK
    <3> QED BY <1>2, <1>4, <3>1, SMTT(30)
  <2>3. TypeOK' BY <1>2, <1>3, <2>1, <2>2, SMTT(30) DEF TypeOK
  <2> QED BY <1>2, <1>4, <2>3 DEF IInv, TypeInv, BlockFiles
<1>6. SessionInv' BY <1>2, Zenon DEF IInv, SessionInv
<1>7. WrittenInv'
  <2>1. CASE origin = "written"
    <3>1. PICK n \in 0 .. Len(intended) : cached = Written(Prefix(intended, n))
      BY <1>2, <2>1, Zenon DEF IInv, WrittenInv
    <3>2. intended \in Seq(Nat) /\ Filled(tmp, intended)
      BY <1>3, <2>1, Zenon DEF IInv, WrittenInv, TypeOK
    <3>3. PICK ino : ino = cached OBVIOUS
    <3>4. ino = Written(Prefix(intended, n)) BY <3>1, <3>3
    <3>5. \A first, second : Pulled(tmp, ino, first, second) = tmp
      BY <3>2, <3>4, FilledPulled
    <3>6. tmp' = tmp BY <1>1, <3>3, <3>5, Zenon
    <3>7. \A m : Pending(m) => Pending(m)' BY <1>2, Zenon DEF Pending
    <3> QED BY <1>2, <3>6, <3>7, Zenon DEF IInv, WrittenInv
  <2>2. CASE origin # "written" BY <1>2, <2>2, Zenon DEF WrittenInv
  <2> QED BY <2>1, <2>2
<1>8. PutInv'
  <2>1. Fits(tmp, cached.sub) => Fits(tmp', cached.sub) BY <1>1, <1>3, PulledFits, Zenon
  <2> QED BY <1>2, <2>1, Zenon DEF IInv, PutInv
<1> QED BY <1>5, <1>6, <1>7, <1>8, Zenon DEF IInv

\* What fsync and close store.
LEMMA SyncedInv ==
    ASSUME IInv, links # {} => cached # None,
           inode' = IF inode = None THEN None ELSE Synced
    PROVE  /\ inode' \in File \cup {None}
           /\ inode' # None => Len(inode'.sub) <= MaxBlocks
           /\ origin = "written" => inode' \in {None, Written(intended)}
           /\ links = {} => inode' = inode
<1>1. TypeInv /\ TypeOK BY DEF IInv, TypeInv
<1>2. CASE links = {}
  <2>1. Synced = inode BY <1>2, Zenon DEF Synced
  <2>2. inode' = inode BY <2>1, Zenon
  <2>3. origin = "written" => inode \in {None, Written(intended)}
    BY <1>2, Zenon DEF IInv, WrittenInv
  <2> QED BY <1>1, <2>2, <2>3, Zenon DEF TypeOK
<1>3. CASE links # {}
  <2>1. Synced \in File /\ Len(Synced.sub) <= MaxBlocks
    BY <1>1, <1>3, SyncedType, Zenon
  <2>2. ASSUME origin = "written" PROVE Synced = Written(intended)
    <3>1. PICK n \in 0 .. Len(intended) - 1 : Pending(n)
      BY <1>3, <2>2, Zenon DEF IInv, WrittenInv
    <3>2. intended \in Seq(Nat) /\ Len(intended) <= MaxSize /\ Filled(tmp, intended)
      BY <1>1, <2>2, Zenon DEF IInv, WrittenInv, TypeOK
    <3> QED BY <1>3, <3>1, <3>2, SyncedWritten, Zenon
  <2> QED BY <1>3, <2>1, <2>2, Zenon
<1> QED BY <1>2, <1>3

\* fsync.
LEMMA FsyncInv ==
    ASSUME IInv, fsync
    PROVE  IInv'
<1>1. /\ writer /\ cached # None /\ links # {} /\ links' = {}
      /\ inode' = (IF inode = None THEN None ELSE Synced)
      /\ cached' = cached /\ tmp' = tmp
      /\ writer' = writer /\ readers' = readers /\ intended' = intended
      /\ origin' = origin /\ current' = current /\ changes' = changes /\ stamp' = stamp
  BY DEF fsync, session, bounds
<1>2. /\ inode' \in File \cup {None}
      /\ inode' # None => Len(inode'.sub) <= MaxBlocks
      /\ origin = "written" => inode' \in {None, Written(intended)}
  BY <1>1, SyncedInv, Zenon
<1>3. TypeInv' BY <1>1, <1>2, SMTT(30) DEF IInv, TypeInv, TypeOK
<1>4. SessionInv' BY <1>1, Zenon DEF IInv, SessionInv
<1>5. WrittenInv' BY <1>1, <1>2, Zenon DEF IInv, WrittenInv
<1>6. PutInv' BY <1>1, Zenon DEF IInv, PutInv
<1> QED BY <1>3, <1>4, <1>5, <1>6, Zenon DEF IInv

\* close.
LEMMA CloseInv ==
    ASSUME IInv, close
    PROVE  IInv'
<1>1. /\ links # {} => cached # None
      /\ inode' = (IF inode = None THEN None ELSE Synced)
      /\ links' = {} /\ cached' = None /\ tmp' = tmp
      /\ current' = (current /\ (writer \/ Clean \/ cached \in {None, inode}))
      /\ intended' = intended /\ origin' = origin /\ changes' = changes /\ stamp' = stamp
  BY DEF close, bounds
<1>2. TypeOK BY DEF IInv, TypeInv
<1>3. ~ writer' /\ writer' \in BOOLEAN /\ readers' \in 0 .. MaxReaders
  <2>1. writer \in BOOLEAN /\ readers \in 0 .. MaxReaders BY <1>2, Zenon DEF TypeOK
  <2>2. CASE writer
    <3>1. writer' = FALSE /\ readers' = readers BY <2>2, Zenon DEF close
    <3> QED BY <2>1, <3>1, Zenon
  <2>3. CASE ~ writer
    <3>1. writer' = writer /\ readers > 0 /\ readers' = readers - 1 BY <2>3, Zenon DEF close
    <3>2. readers' \in 0 .. MaxReaders BY <2>1, <3>1, FileDataAssumption
    <3> QED BY <2>1, <2>3, <3>1, <3>2, Zenon
  <2> QED BY <2>2, <2>3, Zenon
<1>4. /\ inode' \in File \cup {None}
      /\ inode' # None => Len(inode'.sub) <= MaxBlocks
      /\ origin = "written" => inode' \in {None, Written(intended)}
      /\ links = {} => inode' = inode
  BY <1>1, SyncedInv, Zenon
<1>5. TypeInv'
  <2>1. current' \in BOOLEAN BY <1>1, <1>2 DEF Clean, TypeOK
  <2> QED BY <1>1, <1>2, <1>3, <1>4, <2>1, SMTT(30) DEF IInv, TypeInv, TypeOK
<1>6. SessionInv' BY <1>1, <1>3, Zenon DEF IInv, SessionInv
<1>7. WrittenInv' BY <1>1, <1>4, Zenon DEF IInv, WrittenInv
<1>8. PutInv'
  <2>1. CASE origin = "put"
    <3>1. /\ inode' = inode /\ inode \in {None, put_file(intended)}
          /\ writer => inode \in {None, cached}
          /\ current =>
               /\ cached # None => Fits(tmp, cached.sub)
               /\ cached = None /\ inode # None => Fits(tmp, inode.sub)
      BY <1>4, <2>1, Zenon DEF IInv, PutInv
    <3>2. ASSUME current', inode # None PROVE Fits(tmp, inode.sub)
      <4>1. current /\ (writer \/ Clean \/ cached \in {None, inode}) BY <1>1, <3>2, Zenon
      <4>2. CASE Clean BY <4>2, CleanFits
      <4>3. CASE cached = None BY <3>1, <3>2, <4>1, <4>3
      <4>4. CASE cached = inode BY <3>1, <3>2, <4>1, <4>4
      <4>5. writer => cached = inode BY <3>1, <3>2
      <4> QED BY <4>1, <4>2, <4>3, <4>4, <4>5
    <3> QED BY <1>1, <1>3, <3>1, <3>2, Zenon DEF PutInv
  <2>2. CASE origin # "put" BY <1>1, <2>2, Zenon DEF PutInv
  <2> QED BY <2>1, <2>2
<1> QED BY <1>5, <1>6, <1>7, <1>8, Zenon DEF IInv

\* A write at the end of a file that has been written from start to end, by
\* a session that has opened what is stored.
Plain(offset) ==
    /\ origin = "written" /\ offset = Len(intended)
    /\ inode # None /\ cached.filesize = inode.filesize

\* The bytes that the file is meant to have after a write.
Overlaid(offset, size) ==
    [k \in 1 .. Max({Len(intended), offset + size}) |->
       CASE k > offset /\ k <= offset + size -> stamp + k - offset
         [] k <= offset /\ k > Len(intended) -> NUL
         [] OTHER -> intended[k]]

\* What write_data does: it appends bytes w to the blocks over, after it has
\* read block files t.
Wrote(offset, size, over, t, w) ==
    /\ writer /\ cached # None /\ offset + size <= MaxSize
    /\ changes < MaxChanges /\ changes' = changes + 1
    /\ tmp' = Extended(t, over, offset, w)
    /\ links' = links \cup over
    /\ stamp' = stamp + size
    /\ intended' = Overlaid(offset, size)
    /\ origin' = (IF Plain(offset) THEN "written" ELSE "mixed")
    /\ current' = (current /\ Plain(offset))
    /\ inode' = inode /\ cached' = cached /\ writer' = writer /\ readers' = readers

\* Those blocks are the ones from that of offset to that of its end.
LEMMA WriteIs ==
    ASSUME NEW offset \in Nat, NEW size \in Nat, write_data(offset, size)
    PROVE  Wrote(offset, size, Over(offset, size), ReadFirst(offset, size), Fresh(size))
<1>1. PICK f : f = offset \div BlockSize OBVIOUS
<1>2. PICK l : l = (offset + size) \div BlockSize OBVIOUS
<1>3. l \in Nat
  <2>1. offset + size \in Nat OBVIOUS
  <2> QED BY <1>2, <2>1, DivMod
<1>4. get_indexs(offset, size)[1] = f /\ get_indexs(offset, size)[2] = l + 1
  BY <1>1, <1>2 DEF get_indexs, align_index_down, align_index_up
<1>5. (l + 1) - 1 = l BY <1>3
<1>6. get_indexs(offset, size)[1] .. get_indexs(offset, size)[2] - 1 = Over(offset, size)
  BY <1>1, <1>2, <1>4, <1>5, Zenon DEF Over
<1> QED BY <1>6, Zenon DEF write_data, Linked, Overlaid, Plain, session, Wrote, Extended

\* A write touches blocks of Index only.
LEMMA OverType ==
    ASSUME NEW offset \in Nat, NEW size \in Nat, offset + size <= MaxSize
    PROVE  /\ Over(offset, size) \in SUBSET Index
           /\ \A i \in Over(offset, size) :
                /\ i \in Nat /\ offset \div BlockSize <= i
                /\ i <= (offset + size) \div BlockSize
<1>1. PICK f : f = offset \div BlockSize OBVIOUS
<1>2. PICK l : l = (offset + size) \div BlockSize OBVIOUS
<1>3. PICK m : m = offset + size OBVIOUS
<1>4. m \in Nat /\ m <= MaxSize BY <1>3
<1>5. f \in Nat /\ l \in Nat BY <1>1, <1>2, <1>3, <1>4, DivMod
<1>6. Over(offset, size) = f .. l BY <1>1, <1>2, Zenon DEF Over
<1>7. ASSUME NEW i \in f .. l PROVE i \in Index /\ i \in Nat /\ f <= i /\ i <= l
  <2>1. i \in Nat /\ f <= i /\ i <= l BY <1>5
  <2>2. i <= m \div BlockSize <=> Start(i) <= m BY <1>4, <2>1, BlockOf
  <2>3. Start(i) <= m /\ Start(i) \in Nat BY <1>2, <1>3, <2>1, <2>2, Starts, Zenon
  <2>4. Start(i) <= MaxSize BY <1>4, <2>3, FileDataAssumption
  <2> QED BY <2>1, <2>4, IndexType
<1> QED BY <1>1, <1>2, <1>6, <1>7, Zenon

\* The blocks read first: block files stay block files, and none is lost.
LEMMA ReadFirstType ==
    ASSUME tmp \in BlockFiles, cached \in File, NEW offset, NEW size
    PROVE  /\ ReadFirst(offset, size) \in BlockFiles
           /\ \A i \in Index : tmp[i] # None => ReadFirst(offset, size)[i] # None
<1> DEFINE f == get_indexs(offset, size)[1]
           l == get_indexs(offset, size)[2] - 1
           t == IF offset < cached.filesize /\ offset % BlockSize # 0
                THEN Pulled(tmp, cached, f, f + 1) ELSE tmp
<1>1. t \in BlockFiles /\ \A i \in Index : tmp[i] # None => t[i] # None
  <2>1. CASE offset < cached.filesize /\ offset % BlockSize # 0
    <3>1. t = Pulled(tmp, cached, f, f + 1) BY <2>1, Zenon
    <3> HIDE DEF t, f
    <3> QED BY <3>1, PulledType, Zenon
  <2>2. CASE ~ (offset < cached.filesize /\ offset % BlockSize # 0)
    <3>1. t = tmp BY <2>2, Zenon
    <3> HIDE DEF t
    <3> QED BY <3>1, Zenon
  <2> QED BY <2>1, <2>2, Zenon
<1>2. ReadFirst(offset, size) = IF /\ offset + size < cached.filesize /\ f # l
                                   /\ (offset + size) % BlockSize # 0
                                THEN Pulled(t, cached, l, l + 1) ELSE t
  BY Zenon DEF ReadFirst
<1> HIDE DEF t, f, l
<1>3. /\ Pulled(t, cached, l, l + 1) \in BlockFiles
      /\ \A i \in Index : t[i] # None => Pulled(t, cached, l, l + 1)[i] # None
  BY <1>1, PulledType, Zenon
<1>4. ReadFirst(offset, size) \in {t, Pulled(t, cached, l, l + 1)} BY <1>2, Zenon
<1> QED BY <1>1, <1>3, <1>4, Zenon

\* A write leaves bytes where there were bytes.
LEMMA OverlaidType ==
    ASSUME NEW offset \in Nat, NEW size \in Nat, intended \in Seq(Nat), stamp \in Nat
    PROVE  Overlaid(offset, size) \in Seq(Nat)
<1>1. PICK n : n = Max({Len(intended), offset + size}) OBVIOUS
<1>2. PICK m : m = Len(intended) OBVIOUS
<1>3. m \in Nat /\ offset + size \in Nat BY <1>2
<1>4. n = IF m < offset + size THEN offset + size ELSE m BY <1>1, <1>2, <1>3, MaxTwo
<1>5. n \in Nat BY <1>3, <1>4
<1> DEFINE f == [k \in 1 .. n |->
                   CASE k > offset /\ k <= offset + size -> stamp + k - offset
                     [] k <= offset /\ k > m -> NUL
                     [] OTHER -> intended[k]]
<1>6. Overlaid(offset, size) = f BY <1>1, <1>2 DEF Overlaid
<1>7. ASSUME NEW k \in 1 .. n PROVE f[k] \in Nat
  <2>1. k \in Nat /\ k <= n /\ 1 <= k BY <1>5
  <2>2. f[k] = CASE k > offset /\ k <= offset + size -> stamp + k - offset
                 [] k <= offset /\ k > m -> NUL
                 [] OTHER -> intended[k]
    BY Zenon
  <2> HIDE DEF f
  <2>3. CASE k > offset /\ k <= offset + size
    <3>1. stamp + k - offset \in Nat BY <2>1, <2>3
    <3> QED BY <2>2, <2>3, <3>1
  <2>4. CASE k <= offset /\ k > m BY <2>1, <2>2, <2>4 DEF NUL
  <2>5. CASE ~ (k > offset /\ k <= offset + size) /\ ~ (k <= offset /\ k > m)
    <3>1. k <= m BY <1>3, <1>4, <2>1, <2>5
    <3>2. k \in 1 .. Len(intended) BY <1>2, <1>3, <2>1, <3>1
    <3>3. intended[k] \in Nat BY <3>2
    <3>4. f[k] = intended[k] BY <2>2, <2>5, Zenon
    <3> QED BY <3>3, <3>4
  <2> QED BY <2>3, <2>4, <2>5, Zenon
<1>8. f = [k \in 1 .. n |-> f[k]] OBVIOUS
<1> HIDE DEF f
<1>9. f \in Seq(Nat) BY <1>5, <1>7, <1>8, FunSeq, Zenon
<1> QED BY <1>6, <1>9

\* Types and sessions, after any write.
LEMMA WriteType ==
    ASSUME IInv, NEW offset \in 0 .. MaxSize, NEW size \in 1 .. MaxSize, write_data(offset, size)
    PROVE  TypeInv' /\ SessionInv'
<1>1. offset \in Nat /\ size \in Nat BY FileDataAssumption
<1>2. PICK over : over = Over(offset, size) OBVIOUS
<1>3. PICK t : t = ReadFirst(offset, size) OBVIOUS
<1>4. PICK w : w = Fresh(size) OBVIOUS
<1>5. Wrote(offset, size, over, t, w) BY <1>1, <1>2, <1>3, <1>4, WriteIs, Zenon
<1>6. TypeOK /\ tmp \in BlockFiles /\ cached \in File
  BY <1>5, SMTT(30) DEF IInv, TypeInv, TypeOK, BlockFiles, Wrote
<1>7. stamp \in Nat /\ intended \in Seq(Nat) /\ changes \in 0 .. MaxChanges
      /\ links \in SUBSET Index /\ \A i \in links : tmp[i] # None
  BY <1>6, Zenon DEF TypeOK
<1>8. over \in SUBSET Index
      /\ \A i \in over : /\ i \in Nat /\ offset \div BlockSize <= i
                         /\ i <= (offset + size) \div BlockSize
  BY <1>1, <1>2, <1>5, OverType, Zenon DEF Wrote
<1>9. t \in BlockFiles /\ \A i \in Index : tmp[i] # None => t[i] # None
  BY <1>3, <1>6, ReadFirstType, Zenon
<1>10. w \in Seq(Nat) /\ Len(w) = size BY <1>1, <1>4, <1>7, FreshType
<1>11. ASSUME NEW i \in over PROVE Appended(t, i) \o Part(offset, w, i) \in Seq(Nat)
  <2>1. /\ i \in Nat /\ offset \div BlockSize <= i /\ i <= (offset + Len(w)) \div BlockSize
    BY <1>8, <1>10, Zenon
  <2>2. IsPart(Part(offset, w, i), w, Low(offset, i), High(offset, Len(w), i) - Low(offset, i))
    BY <1>1, <1>10, <2>1, PartIs, Zenon
  <2>3. Part(offset, w, i) \in Seq(Nat) BY <2>2, Zenon DEF IsPart
  <2>4. t[i] \in Seq(Nat) \cup {None} BY <1>8, <1>9, Zenon DEF BlockFiles
  <2>5. << >> \in Seq(Nat) OBVIOUS
  <2>6. Appended(t, i) \in Seq(Nat) BY <2>4, <2>5, Zenon DEF Appended
  <2> QED BY <2>3, <2>6
<1>12. \A i \in Index : tmp'[i] = IF i \in over THEN Appended(t, i) \o Part(offset, w, i)
                                  ELSE t[i]
  BY <1>5, Zenon DEF Wrote, Extended
<1>13. tmp' \in BlockFiles
  <2>1. \A i \in Index : t[i] \in Seq(Nat) \cup {None} BY <1>9, Zenon DEF BlockFiles
  <2>2. \A i \in Index : (IF i \in over THEN Appended(t, i) \o Part(offset, w, i) ELSE t[i])
                           \in Seq(Nat) \cup {None}
    BY <1>11, <2>1, Zenon
  <2> QED BY <1>5, <2>2, Zenon DEF BlockFiles, Wrote, Extended
<1>14. \A i \in links' : i \in Index /\ tmp'[i] # None
  <2>1. ASSUME NEW i \in over PROVE i \in Index /\ tmp'[i] # None
    <3>1. i \in Index /\ tmp'[i] \in Seq(Nat) BY <1>8, <1>11, <1>12, Zenon
    <3> QED BY <3>1, NoneAssumption
  <2>2. ASSUME NEW i \in links, i \notin over PROVE i \in Index /\ tmp'[i] # None
    <3>1. i \in Index /\ tmp[i] # None BY <1>7, Zenon
    <3> QED BY <1>9, <1>12, <2>2, <3>1, Zenon
  <2> QED BY <1>5, <2>1, <2>2, Zenon DEF Wrote
<1>15. intended' \in Seq(Nat) BY <1>1, <1>5, <1>7, OverlaidType, Zenon DEF Wrote
<1>16. changes' \in 0 .. MaxChanges /\ stamp' \in Nat
  BY <1>1, <1>5, <1>7, FileDataAssumption, SMTT(30) DEF Wrote
<1>17. TypeInv'
  <2>1. DOMAIN tmp' = Index /\ \A i \in Index : tmp'[i] \in Seq(Nat) \cup {None}
    BY <1>13, Zenon DEF BlockFiles
  <2>2. current' \in BOOLEAN /\ origin' \in {"written", "put", "mixed"}
    BY <1>5, <1>6, Zenon DEF Plain, TypeOK, Wrote
  <2>3. TypeOK' BY <1>5, <1>6, <1>14, <1>15, <1>16, <2>1, <2>2, SMTT(30) DEF TypeOK, Wrote
  <2> QED BY <1>5, <1>13, <2>3, SMTT(30) DEF IInv, TypeInv, BlockFiles, Wrote
<1>18. SessionInv'
  <2>1. "written" # "mixed" OBVIOUS
  <2> QED BY <1>5, <2>1, Zenon DEF IInv, SessionInv, Wrote
<1> QED BY <1>17, <1>18

\* A session that may append has opened what is stored, all of it unless it
\* has written since.
LEMMA PlainCached ==
    ASSUME IInv, writer, cached # None, NEW offset, Plain(offset)
    PROVE  \E n \in 0 .. Len(intended) :
             /\ cached = Written(Prefix(intended, n)) /\ inode = cached /\ cached.filesize = n
             /\ links = {} => n = Len(intended)
             /\ links # {} => Pending(n)
<1>1. /\ origin = "written" /\ inode # None /\ cached.filesize = inode.filesize
  BY Zenon DEF Plain
<1>2. intended \in Seq(Nat) BY Zenon DEF IInv, TypeInv, TypeOK
<1>3. ASSUME NEW n \in 0 .. Len(intended), cached = Written(Prefix(intended, n))
      PROVE  cached.filesize = n
  <2>1. Len(Prefix(intended, n)) = n BY <1>2, PrefixType
  <2>2. Written(Prefix(intended, n)).filesize = Len(Prefix(intended, n)) BY DEF Written
  <2> QED BY <1>3, <2>1, <2>2, Zenon
<1>4. CASE links = {}
  <2>1. inode = Written(intended) BY <1>1, <1>4, Zenon DEF IInv, WrittenInv
  <2>2. PICK n \in 0 .. Len(intended) : cached = Written(Prefix(intended, n))
    BY <1>1, Zenon DEF IInv, WrittenInv
  <2>3. Written(intended).filesize = Len(intended) BY DEF Written
  <2>4. cached.filesize = n /\ n = Len(intended) BY <1>1, <1>3, <2>1, <2>2, <2>3, Zenon
  <2>5. Prefix(intended, n) = intended BY <1>2, <2>4, PrefixType, Zenon
  <2> QED BY <1>4, <2>1, <2>2, <2>4, <2>5, Zenon
<1>5. CASE links # {}
  <2>1. PICK n \in 0 .. Len(intended) - 1 : Pending(n) BY <1>1, <1>5, Zenon DEF IInv, WrittenInv
  <2>2. Len(intended) \in Nat BY <1>2
  <2>3. n \in 0 .. Len(intended) BY <2>2
  <2>4. cached = Written(Prefix(intended, n)) /\ inode = cached BY <1>1, <2>1, Zenon DEF Pending
  <2>5. cached.filesize = n BY <1>3, <2>3, <2>4, Zenon
  <2> QED BY <1>5, <2>1, <2>3, <2>4, <2>5, Zenon
<1> QED BY <1>4, <1>5, Zenon

\* Appended bytes come after those that were there.
LEMMA OverlaidLonger ==
    ASSUME NEW offset, NEW size \in Nat, intended \in Seq(Nat), stamp \in Nat,
           offset = Len(intended)
    PROVE  Longer(Overlaid(offset, size), intended, Fresh(size))
<1>1. offset \in Nat /\ offset + size \in Nat /\ Len(intended) \in Nat OBVIOUS
<1>2. PICK s2 : s2 = Overlaid(offset, size) OBVIOUS
<1>3. PICK w : w = Fresh(size) OBVIOUS
<1>4. PICK m : m = Max({Len(intended), offset + size}) OBVIOUS
<1>5. m = offset + size
  <2>1. m = IF offset < offset + size THEN offset + size ELSE offset BY <1>1, <1>4, MaxTwo
  <2> QED BY <1>1, <2>1
<1>6. s2 = [k \in 1 .. m |->
              CASE k > offset /\ k <= offset + size -> stamp + k - offset
                [] k <= offset /\ k > Len(intended) -> NUL
                [] OTHER -> intended[k]]
  BY <1>2, <1>4 DEF Overlaid
<1>7. s2 \in Seq(Nat) BY <1>1, <1>2, OverlaidType
<1>8. Len(s2) = m
  <2>1. DOMAIN s2 = 1 .. m BY <1>6
  <2> QED BY <1>1, <1>5, <1>7, <2>1
<1>9. w \in Seq(Nat) /\ Len(w) = size /\ \A k \in 1 .. size : w[k] = stamp + k
  BY <1>3, FreshType, Zenon
<1>10. ASSUME NEW k \in 1 .. offset PROVE s2[k] = intended[k]
  <2>1. k \in 1 .. m /\ ~ (k > offset) /\ ~ (k > Len(intended)) BY <1>1, <1>5
  <2> QED BY <1>6, <2>1
<1>11. ASSUME NEW k \in 1 .. size PROVE s2[offset + k] = w[k]
  <2>1. PICK j : j = offset + k OBVIOUS
  <2>2. j \in 1 .. m /\ j > offset /\ j <= offset + size BY <1>1, <1>5, <2>1
  <2>3. s2[j] = stamp + j - offset BY <1>6, <2>2
  <2>4. stamp + j - offset = stamp + k BY <1>1, <2>1
  <2> QED BY <1>9, <2>1, <2>3, <2>4
<1>12. Longer(s2, intended, w) BY <1>5, <1>7, <1>8, <1>9, <1>10, <1>11, Zenon DEF Longer
<1> QED BY <1>2, <1>3, <1>12, Zenon

\* A block and the ones after it.
LEMMA Joined ==
    ASSUME NEW a \in Nat, NEW b \in Nat, NEW c \in Nat, a <= b, b <= c
    PROVE  /\ (a .. b) \cup (b .. c) = a .. c /\ b .. c # {} /\ a .. c # {}
  OBVIOUS

\* A later byte is in the same block or in a later one.
LEMMA BlockUp ==
    ASSUME NEW m \in Nat, NEW n \in Nat, m <= n
    PROVE  m \div BlockSize <= n \div BlockSize
<1>1. PICK d : d = m \div BlockSize OBVIOUS
<1>2. d \in Nat /\ Start(d) \in Nat BY <1>1, DivMod, Starts
<1>3. d <= m \div BlockSize <=> Start(d) <= m BY <1>2, BlockOf
<1>4. d <= d BY <1>2
<1>5. Start(d) <= m BY <1>1, <1>3, <1>4, Zenon
<1>6. Start(d) <= n BY <1>2, <1>5
<1>7. d <= n \div BlockSize <=> Start(d) <= n BY <1>2, BlockOf
<1> QED BY <1>1, <1>6, <1>7, Zenon

\* write_data at the end of the file.
LEMMA AppendInv ==
    ASSUME IInv, NEW offset \in 0 .. MaxSize, NEW size \in 1 .. MaxSize,
           write_data(offset, size), Plain(offset)
    PROVE  WrittenInv'
<1>1. offset \in Nat /\ size \in Nat /\ size # 0 BY FileDataAssumption
<1>2. PICK over : over = Over(offset, size) OBVIOUS
<1>3. PICK t : t = ReadFirst(offset, size) OBVIOUS
<1>4. PICK w : w = Fresh(size) OBVIOUS
<1>5. Wrote(offset, size, over, t, w) BY <1>1, <1>2, <1>3, <1>4, WriteIs, Zenon
<1>6. intended \in Seq(Nat) /\ stamp \in Nat BY Zenon DEF IInv, TypeInv, TypeOK
<1>7. /\ origin = "written" /\ offset = Len(intended)
      /\ Filled(tmp, intended)
  BY Zenon DEF Plain, IInv, WrittenInv
<1>8. PICK n \in 0 .. Len(intended) :
        /\ cached = Written(Prefix(intended, n)) /\ inode = cached /\ cached.filesize = n
        /\ links = {} => n = Len(intended)
        /\ links # {} => Pending(n)
  BY <1>5, PlainCached, Zenon DEF Wrote
<1>9. n \in Nat /\ n <= offset /\ offset + size \in Nat /\ n <= offset + size - 1
      /\ offset <= offset + size
  BY <1>1, <1>7
<1>10. t = tmp
  <2>1. ~ (offset < cached.filesize) /\ ~ (offset + size < cached.filesize) BY <1>1, <1>8, <1>9
  <2> QED BY <1>3, <2>1, Zenon DEF ReadFirst
<1>11. PICK s2 : s2 = intended' OBVIOUS
<1>12. Longer(s2, intended, w)
  BY <1>1, <1>4, <1>5, <1>6, <1>7, <1>11, OverlaidLonger, Zenon DEF Wrote
<1>13. Len(w) = size BY <1>1, <1>4, <1>6, FreshType, Zenon
<1>14. /\ s2 \in Seq(Nat) /\ Len(s2) = offset + size
       /\ \A k \in 1 .. offset : s2[k] = intended[k]
  BY <1>7, <1>12, <1>13, Zenon DEF Longer
<1>15. Len(s2) <= MaxSize BY <1>5, <1>14, Zenon DEF Wrote
<1>16. Filled(tmp', s2)
  <2>1. over = Over(Len(intended), Len(w)) /\ Len(w) # 0 BY <1>1, <1>2, <1>7, <1>13, Zenon
  <2>2. Filled(Extended(tmp, over, Len(intended), w), s2)
    BY <1>7, <1>12, <2>1, FilledAppended, Zenon
  <2>3. tmp' = Extended(tmp, over, Len(intended), w) BY <1>5, <1>7, <1>10, Zenon DEF Wrote
  <2> QED BY <2>2, <2>3, Zenon
<1>17. links' = n \div BlockSize .. Len(s2) \div BlockSize /\ links' # {}
  <2>1. PICK a : a = n \div BlockSize OBVIOUS
  <2>2. PICK b : b = offset \div BlockSize OBVIOUS
  <2>3. PICK c : c = (offset + size) \div BlockSize OBVIOUS
  <2>4. a \in Nat /\ b \in Nat /\ c \in Nat BY <1>1, <1>9, <2>1, <2>2, <2>3, DivMod, SMTT(30)
  <2>5. a <= b /\ b <= c BY <1>1, <1>9, <2>1, <2>2, <2>3, BlockUp, Zenon
  <2>6. over = b .. c /\ links' = links \cup over
    BY <1>2, <1>5, <2>2, <2>3, Zenon DEF Over, Wrote
  <2>7. links' = a .. c
    <3>1. CASE links = {}
      <4>1. a = b BY <1>7, <1>8, <2>1, <2>2, <3>1, Zenon
      <4> QED BY <2>6, <3>1, <4>1, Zenon
    <3>2. CASE links # {}
      <4>1. links = a .. b BY <1>7, <1>8, <2>1, <2>2, <3>2, Zenon DEF Pending
      <4> QED BY <2>4, <2>5, <2>6, <4>1, Joined, Zenon
    <3> QED BY <3>1, <3>2
  <2>8. a .. c # {} BY <2>4, <2>5, Joined, ZenonT(40)
  <2> QED BY <1>14, <2>1, <2>3, <2>7, <2>8, Zenon
<1>18. Prefix(s2, n) = Prefix(intended, n)
  <2>1. \A k \in 1 .. n : s2[k] = intended[k] BY <1>9, <1>14, <1>1
  <2> QED BY <2>1, Zenon DEF Prefix
<1>19. n \in 0 .. Len(s2) /\ n \in 0 .. Len(s2) - 1 BY <1>1, <1>9, <1>14
<1>20. cached' = Written(Prefix(intended', n)) /\ Pending(n)'
  <2>1. cached' = cached /\ inode' = inode BY <1>5, Zenon DEF Wrote
  <2>2. cached' = Written(Prefix(intended', n)) BY <1>8, <1>11, <1>18, <2>1, Zenon
  <2>3. inode' = cached' BY <1>8, <2>1, Zenon
  <2>4. links' = n \div BlockSize .. Len(intended') \div BlockSize BY <1>11, <1>17, Zenon
  <2> QED BY <2>2, <2>3, <2>4, Zenon DEF Pending
<1>21. writer' BY <1>5, Zenon DEF Wrote
<1> QED BY <1>11, <1>15, <1>16, <1>17, <1>19, <1>20, <1>21, Zenon DEF WrittenInv

\* write_data.
LEMMA WriteInv ==
    ASSUME IInv, NEW offset \in 0 .. MaxSize, NEW size \in 1 .. MaxSize, write_data(offset, size)
    PROVE  IInv'
<1>1. TypeInv' /\ SessionInv' BY WriteType, Zenon
<1>2. origin' = (IF Plain(offset) THEN "written" ELSE "mixed")
  <2>1. offset \in Nat /\ size \in Nat BY FileDataAssumption
  <2> QED BY <2>1, WriteIs, Zenon DEF Wrote
<1>3. CASE Plain(offset)
  <2>1. WrittenInv' BY <1>3, AppendInv, Zenon
  <2>2. origin' # "put" BY <1>2, <1>3
  <2> QED BY <1>1, <2>1, <2>2, Zenon DEF IInv, PutInv
<1>4. CASE ~ Plain(offset) BY <1>1, <1>2, <1>4, MixedInv, Zenon
<1> QED BY <1>3, <1>4

\* Every state of the file satisfies the invariant.
THEOREM Invariance == Spec => []IInv
<1>1. Init => IInv BY InitInv
<1>2. IInv /\ [Next]_vars => IInv'
  <2>1. SUFFICES ASSUME IInv, [Next]_vars PROVE IInv' OBVIOUS
  <2>2. CASE UNCHANGED vars
    <3>1. /\ inode' = inode /\ cached' = cached /\ tmp' = tmp /\ links' = links
          /\ writer' = writer /\ readers' = readers /\ intended' = intended
          /\ origin' = origin /\ current' = current /\ changes' = changes /\ stamp' = stamp
      BY <2>2, SMTT(30) DEF vars, session, bounds
    <3>2. TypeInv' BY <2>1, <3>1, Zenon DEF IInv, TypeInv, TypeOK
    <3>3. SessionInv' BY <2>1, <3>1, Zenon DEF IInv, SessionInv
    <3>4. WrittenInv'
      <4>1. \A n : Pending(n) => Pending(n)' BY <3>1, Zenon DEF Pending
      <4> QED BY <2>1, <3>1, <4>1, Zenon DEF IInv, WrittenInv
    <3>5. PutInv' BY <2>1, <3>1, Zenon DEF IInv, PutInv
    <3> QED BY <3>2, <3>3, <3>4, <3>5, Zenon DEF IInv
  <2>3. CASE \E n \in 0 .. MaxSize : Put(n) BY <2>1, <2>3, PutFileInv, Zenon
  <2>4. CASE \E offset \in 0 .. MaxSize, size \in 1 .. MaxSize : write_data(offset, size)
    BY <2>1, <2>4, WriteInv, Zenon
  <2>5. CASE Read BY <2>1, <2>5, ReadInv, Zenon
  <2>6. CASE rm BY <2>1, <2>6, RmInv, Zenon
  <2>7. CASE create BY <2>1, <2>7, CreateInv, Zenon
  <2>8. CASE open_r BY <2>1, <2>8, OpenRInv, Zenon
  <2>9. CASE open_w BY <2>1, <2>9, OpenWInv, Zenon
  <2>10. CASE open_trunc BY <2>1, <2>10, OpenTruncInv, Zenon
  <2>11. CASE fsync BY <2>1, <2>11, FsyncInv, Zenon
  <2>12. CASE close BY <2>1, <2>12, CloseInv, Zenon
  <2> QED BY <2>1, <2>2, <2>3, <2>4, <2>5, <2>6, <2>7, <2>8, <2>9, <2>10, <2>11, <2>12, Zenon
          DEF Next
<1> QED BY <1>1, <1>2, PTL DEF Spec

\* Every variable keeps its type; an inode never has more blocks than the
\* bound on offset plus size allows.
THEOREM TypeCorrect == Spec => []TypeOK
<1>1. IInv => TypeOK BY DEF IInv, TypeInv
<1> QED BY <1>1, Invariance, PTL

\* The stored file holds the intended bytes, while the history is not mixed.
LEMMA InodeStores ==
    ASSUME IInv, origin # "mixed", links = {}, inode # None
    PROVE  Stores(inode, intended) /\ intended \in Seq(Nat)
<1>1. intended \in Seq(Nat) /\ origin \in {"written", "put", "mixed"}
  BY Zenon DEF IInv, TypeInv, TypeOK
<1>2. CASE origin = "written"
  <2>1. inode = Written(intended) BY <1>2, Zenon DEF IInv, WrittenInv
  <2> QED BY <1>1, <2>1, WrittenStores, Zenon
<1>3. CASE origin = "put"
  <2>1. inode = put_file(intended) BY <1>3, Zenon DEF IInv, PutInv
  <2> QED BY <1>1, <2>1, PutStores, Zenon
<1> QED BY <1>1, <1>2, <1>3, Zenon

\* Cutting bytes into blocks (put, write_data and fsync) and putting them
\* together again (get) yields the same bytes, for every size of block, of
\* file and of the pieces that are written, and any number of sessions.
THEOREM Stored == Spec => []StoredIsWritten
<1>1. IInv => StoredIsWritten
  <2>1. SUFFICES ASSUME IInv, origin # "mixed", links = {}, inode # None
                 PROVE  get(inode) = intended
    BY Zenon DEF StoredIsWritten
  <2>2. Stores(inode, intended) /\ intended \in Seq(Nat) BY <2>1, InodeStores, Zenon
  <2> QED BY <2>2, GetStored, Zenon
<1> QED BY <1>1, Invariance, PTL

\* read_data returns the bytes that are stored, cut off at the end of the
\* file, for every offset and size, from block files or from datanodes.
THEOREM ReadBack == Spec => []ReadIsStored
<1>1. IInv => ReadIsStored
  <2>1. SUFFICES ASSUME IInv, origin # "mixed", current, links = {}, inode # None,
                        cached = inode,
                        NEW offset \in 0 .. MaxSize, NEW size \in 1 .. MaxSize
                 PROVE  read_data(cached, offset, size)
                          = SubSeq(intended, offset + 1, Min({offset + size, Len(intended)}))
    BY Zenon DEF ReadIsStored
  <2>2. Stores(inode, intended) /\ intended \in Seq(Nat) BY <2>1, InodeStores, Zenon
  <2>3. Fits(tmp, cached.sub)
    <3>1. origin \in {"written", "put", "mixed"} BY <2>1, Zenon DEF IInv, TypeInv, TypeOK
    <3>2. CASE origin = "written"
      <4>1. inode = Written(intended) /\ Filled(tmp, intended)
        BY <2>1, <3>2, Zenon DEF IInv, WrittenInv
      <4> QED BY <2>1, <2>2, <4>1, FilledFits, Zenon
    <3>3. CASE origin = "put" BY <2>1, <3>3, Zenon DEF IInv, PutInv
    <3> QED BY <2>1, <3>1, <3>2, <3>3, Zenon
  <2>4. cached \in File /\ Len(cached.sub) <= MaxBlocks
    BY <2>1, Zenon DEF IInv, TypeInv, TypeOK
  <2>5. AsStored(tmp, cached) BY <2>3, <2>4, FitsBlock, Zenon
  <2>6. offset \in Nat /\ size \in Nat BY FileDataAssumption
  <2> QED BY <2>1, <2>2, <2>5, <2>6, ReadStored, ZenonT(40)
<1> QED BY <1>1, Invariance, PTL
=============================================================================

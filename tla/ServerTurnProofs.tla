-------------------------- MODULE ServerTurnProofs --------------------------
(***************************************************************************)
(* Proofs about ServerTurn: a reply is generated from exactly the prompt   *)
(* of its request, whatever the requests before it left behind.            *)
(*                                                                         *)
(* TurnInv says what every memory and every checkpoint holds at each point *)
(* of a request.  It is inductive where BranchCovered holds, and that      *)
(* follows, with ClientInv, for clients that branch early (BranchesEarly). *)
(***************************************************************************)
EXTENDS ServerTurn, SequenceTheorems, FiniteSetTheorems, WellFoundedInduction, TLAPS

-----------------------------------------------------------------------------
(* Numbers.                                                                *)

\* The least and the greatest of two integers, and of three.
LEMMA MinOfTwo ==
    ASSUME NEW a \in Int, NEW b \in Int
    PROVE  Min({a, b}) = IF a <= b THEN a ELSE b
<1>1. \A x \in {a, b} : (\A y \in {a, b} : x <= y) <=> x = (IF a <= b THEN a ELSE b)
  OBVIOUS
<1>2. (IF a <= b THEN a ELSE b) \in {a, b}
  OBVIOUS
<1>3. QED
  BY <1>1, <1>2 DEF Min

LEMMA MaxOfTwo ==
    ASSUME NEW a \in Int, NEW b \in Int
    PROVE  Max({a, b}) = IF a >= b THEN a ELSE b
<1>1. \A x \in {a, b} : (\A y \in {a, b} : x >= y) <=> x = (IF a >= b THEN a ELSE b)
  OBVIOUS
<1>2. (IF a >= b THEN a ELSE b) \in {a, b}
  OBVIOUS
<1>3. QED
  BY <1>1, <1>2 DEF Max

LEMMA MinOfThree ==
    ASSUME NEW a \in Int, NEW b \in Int, NEW c \in Int
    PROVE  /\ Min({a, b, c}) \in {a, b, c}
           /\ Min({a, b, c}) <= a /\ Min({a, b, c}) <= b /\ Min({a, b, c}) <= c
<1>1. \E x \in {a, b, c} : \A y \in {a, b, c} : x <= y
  <2>1. CASE a <= b /\ a <= c
    BY <2>1
  <2>2. CASE b <= a /\ b <= c
    BY <2>2
  <2>3. CASE c <= a /\ c <= b
    BY <2>3
  <2>4. QED
    BY <2>1, <2>2, <2>3
<1>2. QED
  BY <1>1 DEF Min

LEMMA MaxOfThree ==
    ASSUME NEW a \in Int, NEW b \in Int, NEW c \in Int
    PROVE  /\ Max({a, b, c}) \in {a, b, c}
           /\ Max({a, b, c}) >= a /\ Max({a, b, c}) >= b /\ Max({a, b, c}) >= c
<1>1. \E x \in {a, b, c} : \A y \in {a, b, c} : x >= y
  <2>1. CASE a >= b /\ a >= c
    BY <2>1
  <2>2. CASE b >= a /\ b >= c
    BY <2>2
  <2>3. CASE c >= a /\ c >= b
    BY <2>3
  <2>4. QED
    BY <2>1, <2>2, <2>3
<1>2. QED
  BY <1>1 DEF Max

\* A set of naturals has a least element; a bounded one has a greatest.
LEMMA LeastOfNats ==
    ASSUME NEW S \in SUBSET Nat, S # {}
    PROVE  \E m \in S : \A x \in S : m <= x
<1>1. PICK m \in S : \A x \in S : <<x, m>> \notin OpToRel(<, Nat)
  BY NatLessThanWellFounded, WFMin, Zenon
<1>2. \A x \in S : ~ x < m
  BY <1>1, Zenon DEF OpToRel
<1>3. \A x \in S : m <= x
  BY <1>2
<1>4. QED
  BY <1>3

\* A bounded set of naturals has a greatest element.
LEMMA GreatestOfNats ==
    ASSUME NEW S \in SUBSET Nat, S # {}, NEW n \in Nat, \A x \in S : x <= n
    PROVE  \E m \in S : \A x \in S : x <= m
<1> DEFINE T == {n - x : x \in S}
<1>1. T \in SUBSET Nat /\ T # {}
  OBVIOUS
<1>2. PICK t \in T : \A y \in T : t <= y
  <2> HIDE DEF T
  <2>1. QED
    BY <1>1, LeastOfNats
<1>3. PICK m \in S : t = n - m
  OBVIOUS
<1>4. \A x \in S : n - m <= n - x
  BY <1>2, <1>3
<1>5. QED
  BY <1>4

\* Max of a bounded set of naturals is that element.
LEMMA MaxOfNats ==
    ASSUME NEW S \in SUBSET Nat, S # {}, NEW n \in Nat, \A x \in S : x <= n
    PROVE  Max(S) \in S /\ \A x \in S : Max(S) >= x
<1>1. PICK m \in S : \A x \in S : x <= m
  BY GreatestOfNats
<1>2. QED
  BY <1>1 DEF Max

-----------------------------------------------------------------------------
(* Sequences.                                                              *)

\* Take(s, n) is the first n elements of s, or all of it.
LEMMA TakeFacts ==
    ASSUME NEW T, NEW s \in Seq(T), NEW n \in Nat
    PROVE  /\ Take(s, n) \in Seq(T)
           /\ Len(Take(s, n)) = IF n <= Len(s) THEN n ELSE Len(s)
           /\ \A i \in 1 .. Len(Take(s, n)) : Take(s, n)[i] = s[i]
<1> DEFINE m == IF n <= Len(s) THEN n ELSE Len(s)
<1>1. m \in Nat /\ m <= Len(s) /\ Len(s) \in Nat
  BY LenProperties
<1>2. \A i \in 1 .. m : s[i] \in T
  BY <1>1, ElementOfSeq
<1>3. /\ SubSeq(s, 1, m) \in Seq(T)
      /\ Len(SubSeq(s, 1, m)) = IF 1 <= m THEN m - 1 + 1 ELSE 0
      /\ \A i \in 1 .. m - 1 + 1 : SubSeq(s, 1, m)[i] = s[1 + i - 1]
  <2> HIDE DEF m
  <2>1. m \in Int /\ 1 \in Int
    BY <1>1
  <2>2. QED
    BY <2>1, <1>2, SubSeqProperties
<1>4. Take(s, n) = SubSeq(s, 1, m)
  BY <1>1, MinOfTwo DEF Take
<1> HIDE DEF m
<1>5. Len(SubSeq(s, 1, m)) = m
  BY <1>1, <1>3
<1>6. \A i \in 1 .. m : SubSeq(s, 1, m)[i] = s[i]
  BY <1>1, <1>3
<1>7. QED
  BY <1>3, <1>4, <1>5, <1>6 DEF m

\* Take within a sequence is a subsequence.
LEMMA TakeIsSubSeq ==
    ASSUME NEW T, NEW s \in Seq(T), NEW n \in Nat, n <= Len(s)
    PROVE  Take(s, n) = SubSeq(s, 1, n)
<1>1. Len(s) \in Nat
  BY LenProperties
<1>2. Min({n, Len(s)}) = n
  BY <1>1, MinOfTwo
<1>3. QED
  BY <1>2 DEF Take

\* Taking all of a sequence, and nothing of it.
LEMMA TakeAll ==
    ASSUME NEW T, NEW s \in Seq(T), NEW n \in Nat, n >= Len(s)
    PROVE  Take(s, n) = s
<1>1. Len(s) \in Nat
  BY LenProperties
<1>2. Len(Take(s, n)) = Len(s)
  BY <1>1, TakeFacts
<1>3. QED
  BY <1>2, TakeFacts, SeqEqual

LEMMA TakeNone ==
    ASSUME NEW T, NEW s \in Seq(T)
    PROVE  Take(s, 0) = <<>>
<1>1. Len(s) \in Nat /\ Len(Take(s, 0)) = 0 /\ Take(s, 0) \in Seq(T)
  BY LenProperties, TakeFacts
<1>2. QED
  BY <1>1, EmptySeq

\* Taking twice takes the fewer rows.
LEMMA TakeOfTake ==
    ASSUME NEW T, NEW s \in Seq(T), NEW n \in Nat, NEW m \in Nat, m <= n
    PROVE  Take(Take(s, n), m) = Take(s, m)
<1>1. Len(s) \in Nat
  BY LenProperties
<1>2. Take(s, n) \in Seq(T) /\ Take(s, m) \in Seq(T) /\ Take(Take(s, n), m) \in Seq(T)
  BY TakeFacts
<1>3. Len(Take(Take(s, n), m)) = Len(Take(s, m))
  BY <1>1, <1>2, TakeFacts
<1>4. ASSUME NEW i \in 1 .. Len(Take(s, m)) PROVE Take(Take(s, n), m)[i] = Take(s, m)[i]
  <2>1. i \in 1 .. Len(Take(s, n)) /\ i \in 1 .. Len(Take(Take(s, n), m))
    BY <1>1, <1>2, <1>3, TakeFacts
  <2>2. Take(Take(s, n), m)[i] = Take(s, n)[i] /\ Take(s, n)[i] = s[i] /\ Take(s, m)[i] = s[i]
    BY <2>1, <1>2, TakeFacts
  <2>3. QED
    BY <2>2
<1>5. QED
  BY <1>2, <1>3, <1>4, SeqEqual

\* Sequences that agree on n elements agree on fewer.
LEMMA TakeShorter ==
    ASSUME NEW T, NEW s \in Seq(T), NEW t \in Seq(T), NEW n \in Nat, NEW m \in Nat, m <= n,
           Take(s, n) = Take(t, n)
    PROVE  Take(s, m) = Take(t, m)
  BY TakeOfTake

\* Taking on: the next elements behind the first m are the first n.
LEMMA TakeOn ==
    ASSUME NEW T, NEW s \in Seq(T), NEW m \in Nat, NEW n \in Nat, m <= n, n <= Len(s)
    PROVE  /\ Take(s, m) \o SubSeq(s, m + 1, n) = Take(s, n)
           /\ SubSeq(s, m + 1, n) \in Seq(T)
           /\ Len(SubSeq(s, m + 1, n)) = n - m
<1>1. Len(s) \in Nat
  BY LenProperties
<1>2. Take(s, m) = SubSeq(s, 1, m) /\ Take(s, n) = SubSeq(s, 1, n)
  BY <1>1, TakeIsSubSeq
<1>3. 1 \in 1 .. Len(s) + 1 /\ m \in 1 - 1 .. Len(s) /\ n \in m .. Len(s)
  BY <1>1
<1>4. SubSeq(s, 1, m) \o SubSeq(s, m + 1, n) = SubSeq(s, 1, n)
  BY <1>3, ConcatAdjacentSubSeq
<1>5. \A i \in m + 1 .. n : s[i] \in T
  BY <1>1, ElementOfSeq
<1>6. m + 1 \in Int /\ n \in Int
  OBVIOUS
<1>7. /\ SubSeq(s, m + 1, n) \in Seq(T)
      /\ Len(SubSeq(s, m + 1, n)) = IF m + 1 <= n THEN n - (m + 1) + 1 ELSE 0
  BY <1>5, <1>6, SubSeqProperties
<1>8. QED
  BY <1>2, <1>4, <1>7

\* What is added behind a sequence is not taken before its end.
LEMMA TakeOfConcat ==
    ASSUME NEW T, NEW s \in Seq(T), NEW t \in Seq(T), NEW n \in Nat, n <= Len(s)
    PROVE  Take(s \o t, n) = Take(s, n)
<1>1. Len(s) \in Nat /\ Len(t) \in Nat
  BY LenProperties
<1>2. /\ s \o t \in Seq(T) /\ Len(s \o t) = Len(s) + Len(t)
      /\ \A i \in 1 .. Len(s) + Len(t) : (s \o t)[i] = IF i <= Len(s) THEN s[i] ELSE t[i - Len(s)]
  BY ConcatProperties
<1>3. Len(Take(s \o t, n)) = n /\ Len(Take(s, n)) = n
  <2>1. Len(Take(s, n)) = IF n <= Len(s) THEN n ELSE Len(s)
    BY TakeFacts
  <2>2. Len(Take(s \o t, n)) = IF n <= Len(s \o t) THEN n ELSE Len(s \o t)
    BY <1>2, TakeFacts
  <2>3. n <= Len(s \o t)
    BY <1>1, <1>2
  <2>4. QED
    BY <2>1, <2>2, <2>3
<1>4. ASSUME NEW i \in 1 .. n PROVE Take(s \o t, n)[i] = Take(s, n)[i]
  <2>1. Take(s \o t, n)[i] = (s \o t)[i] /\ Take(s, n)[i] = s[i]
    BY <1>2, <1>3, TakeFacts
  <2>2. QED
    BY <2>1, <1>1, <1>2
<1>5. Take(s \o t, n) \in Seq(T) /\ Take(s, n) \in Seq(T)
  BY <1>2, TakeFacts
<1>6. QED
  BY <1>3, <1>4, <1>5, SeqEqual

\* A single element, and one more at the end.
LEMMA OneRow ==
    ASSUME NEW T, NEW s \in Seq(T), NEW k \in 1 .. Len(s)
    PROVE  SubSeq(s, k, k) = <<s[k]>>
<1> DEFINE d == SubSeq(s, k, k)
           e == s[k]
<1>1. Len(s) \in Nat /\ k \in Nat /\ k <= Len(s) /\ k \in Int
  BY LenProperties
<1>2. e \in T
  BY ElementOfSeq
<1>3. \A i \in k .. k : s[i] \in T
  BY <1>1, <1>2
<1>4. d \in Seq(T) /\ Len(d) = 1 /\ d[1] = e
  <2>1. /\ d \in Seq(T) /\ Len(d) = (IF k <= k THEN k - k + 1 ELSE 0)
        /\ \A i \in 1 .. k - k + 1 : d[i] = s[k + i - 1]
    BY <1>1, <1>3, SubSeqProperties
  <2>2. k - k + 1 = 1 /\ k <= k /\ k + 1 - 1 = k
    BY <1>1
  <2> HIDE DEF d
  <2>3. d[1] = s[k + 1 - 1]
    BY <2>1, <2>2
  <2>4. QED
    BY <2>1, <2>2, <2>3
<1> HIDE DEF d, e
<1>5. <<e>> \in Seq(T) /\ Len(<<e>>) = 1 /\ <<e>>[1] = e
  BY <1>2
<1>6. d = <<e>>
  BY <1>4, <1>5, SeqEqual
<1>7. QED
  BY <1>6 DEF d, e

\* A sequence with one element added.
LEMMA OneMore ==
    ASSUME NEW T, NEW s \in Seq(T), NEW e \in T
    PROVE  /\ s \o <<e>> \in Seq(T) /\ Len(s \o <<e>>) = Len(s) + 1
           /\ s \o <<e>> = Append(s, e)
           /\ \A i \in 1 .. Len(s) : (s \o <<e>>)[i] = s[i]
           /\ (s \o <<e>>)[Len(s) + 1] = e
<1> DEFINE a == Append(s, e)
           c == s \o <<e>>
<1>1. a = c
  BY AppendIsConcat, Zenon
<1>2. /\ a \in Seq(T) /\ Len(a) = Len(s) + 1
      /\ \A i \in 1 .. Len(s) : a[i] = s[i]
      /\ a[Len(s) + 1] = e
  BY AppendProperties
<1> HIDE DEF a, c
<1>3. /\ c \in Seq(T) /\ Len(c) = Len(s) + 1 /\ c = a
      /\ \A i \in 1 .. Len(s) : c[i] = s[i]
      /\ c[Len(s) + 1] = e
  BY <1>1, <1>2, Zenon
<1>4. QED
  BY <1>3 DEF a, c

\* Common(s, t) elements are common to s and t.
LEMMA CommonFacts ==
    ASSUME NEW T, NEW s \in Seq(T), NEW t \in Seq(T)
    PROVE  /\ Common(s, t) \in Nat /\ Common(s, t) <= Len(s) /\ Common(s, t) <= Len(t)
           /\ Take(s, Common(s, t)) = Take(t, Common(s, t))
<1> DEFINE P == CommonPrefixes({s, t})
<1> DEFINE lens == {Len(p) : p \in P}
<1>1. Len(s) \in Nat /\ Len(t) \in Nat
  BY LenProperties
<1>2. \A u \in Seq(T) : \A l \in 0 .. Len(u) : SubSeq(u, 1, l) \in Seq(T)
  <2> SUFFICES ASSUME NEW u \in Seq(T), NEW l \in 0 .. Len(u) PROVE SubSeq(u, 1, l) \in Seq(T)
    OBVIOUS
  <2>1. Len(u) \in Nat
    BY LenProperties
  <2>2. \A i \in 1 .. l : u[i] \in T
    BY <2>1, ElementOfSeq
  <2>3. l \in Int /\ 1 \in Int
    BY <2>1
  <2>4. QED
    BY <2>2, <2>3, SubSeqProperties
<1>3. \A p \in P : p \in Seq(T) /\ IsPrefix(p, s) /\ IsPrefix(p, t)
  BY <1>2 DEF CommonPrefixes, Prefixes
<1>4. <<>> \in P
  <2>1. SubSeq(s, 1, 0) = <<>>
    BY SubSeqEmpty
  <2>2. IsPrefix(<<>>, s) /\ IsPrefix(<<>>, t)
    <3>1. Len(<<>>) = 0
      BY EmptySeq
    <3>2. SubSeq(<<>>, 1, 0) = <<>> /\ SubSeq(s, 1, 0) = <<>> /\ SubSeq(t, 1, 0) = <<>>
      BY SubSeqEmpty
    <3>3. QED
      BY <3>1, <3>2, <1>1 DEF IsPrefix
  <2>3. <<>> \in Prefixes(s)
    BY <2>1, <1>1 DEF Prefixes
  <2>4. QED
    BY <2>2, <2>3 DEF CommonPrefixes
<1>5. lens \in SUBSET Nat /\ lens # {} /\ \A x \in lens : x <= Len(s)
  <2>1. \A p \in P : Len(p) \in Nat /\ Len(p) <= Len(s)
    BY <1>3, LenProperties DEF IsPrefix
  <2>2. QED
    BY <2>1, <1>4
<1>6. PICK m \in lens : \A x \in lens : x <= m
  <2> HIDE DEF lens
  <2>1. QED
    BY <1>1, <1>5, GreatestOfNats
<1>7. \E p \in P : \A q \in P : Len(q) <= Len(p)
  BY <1>6
<1>8. LongestCommonPrefix({s, t}) \in P
  BY <1>7, Zenon DEF LongestCommonPrefix
<1> DEFINE l == LongestCommonPrefix({s, t})
<1>9. l \in Seq(T) /\ IsPrefix(l, s) /\ IsPrefix(l, t)
  BY <1>3, <1>8
<1> HIDE DEF l
<1>10. Len(l) \in Nat /\ Len(l) <= Len(s) /\ Len(l) <= Len(t)
  BY <1>9, LenProperties DEF IsPrefix
<1>11. Take(s, Len(l)) = SubSeq(s, 1, Len(l)) /\ Take(t, Len(l)) = SubSeq(t, 1, Len(l))
  BY <1>10, TakeIsSubSeq
<1>12. SubSeq(s, 1, Len(l)) = SubSeq(t, 1, Len(l))
  BY <1>9 DEF IsPrefix
<1>13. QED
  BY <1>10, <1>11, <1>12 DEF Common, l

-----------------------------------------------------------------------------
(* Blocks and their means.                                                 *)

\* What the assumptions say of the sizes of blocks and batches.
LEMMA Sizes ==
    /\ BlockTokens \in Nat \ {0} /\ BatchTokens \in Nat \ {0}
    /\ MaxMedia \in Nat \ {0} /\ MaxCheckpoints \in Nat /\ MaxMedia < MaxCheckpoints
    /\ MaxRows \in Nat /\ MaxTurns \in Nat /\ MaxFaults \in Nat
  BY ServerTurnAssumption

\* Multiplication and division of row numbers by the size of a block.
LEMMA TimesMonotone ==
    ASSUME NEW a \in Int, NEW b \in Int, NEW k \in Nat, a <= b
    PROVE  a * k <= b * k
  OBVIOUS

LEMMA DivMod ==
    ASSUME NEW i \in Nat, NEW k \in Nat \ {0}
    PROVE  /\ i \div k \in Nat /\ i % k \in Nat /\ i % k < k
           /\ i = (i \div k) * k + (i % k)
  OBVIOUS

\* A block holds the rows from its first row to the first row of the next.
LEMMA BlockOfRow ==
    ASSUME NEW i \in Nat, NEW b \in Nat
    PROVE  /\ b < i \div BlockTokens => (b + 1) * BlockTokens <= i
           /\ b > i \div BlockTokens => i < b * BlockTokens
           /\ (i \div BlockTokens) * BlockTokens <= i
           /\ i < (i \div BlockTokens + 1) * BlockTokens
           /\ i % BlockTokens = 0 <=> i = (i \div BlockTokens) * BlockTokens
<1> DEFINE q == i \div BlockTokens
<1>1. BlockTokens \in Nat \ {0}
  BY Sizes
<1>2. /\ q \in Nat /\ i % BlockTokens \in Nat /\ i % BlockTokens < BlockTokens
      /\ i = q * BlockTokens + (i % BlockTokens)
  BY <1>1, DivMod
<1> HIDE DEF q
<1>3. (q + 1) * BlockTokens = q * BlockTokens + BlockTokens
  BY <1>1, <1>2
<1>4. q * BlockTokens \in Int /\ (q + 1) * BlockTokens \in Int /\ b * BlockTokens \in Int
      /\ (b + 1) * BlockTokens \in Int
  BY <1>1, <1>2
<1>5. ASSUME b < q PROVE (b + 1) * BlockTokens <= i
  <2>1. (b + 1) * BlockTokens <= q * BlockTokens
    BY <1>1, <1>2, <1>5, TimesMonotone
  <2>2. QED
    BY <2>1, <1>1, <1>2, <1>4
<1>6. ASSUME b > q PROVE i < b * BlockTokens
  <2>1. (q + 1) * BlockTokens <= b * BlockTokens
    BY <1>1, <1>2, <1>6, TimesMonotone
  <2>2. QED
    BY <2>1, <1>1, <1>2, <1>3, <1>4
<1>7. q * BlockTokens <= i /\ i < (q + 1) * BlockTokens
  BY <1>1, <1>2, <1>3, <1>4
<1>8. i % BlockTokens = 0 <=> i = q * BlockTokens
  BY <1>1, <1>2, <1>4
<1>9. QED
  BY <1>5, <1>6, <1>7, <1>8 DEF q

\* The means of rows that arrived in order from the first one on.
MeansOf(R) == AddMeans(NoMeans, 0, R)

\* The mean of a block is over the rows of R that are in the block.
LEMMA MeanOfBlock ==
    ASSUME NEW R \in Seq(Tokens), NEW b \in Blocks
    PROVE  MeansOf(R)[b] =
              LET lo == b * BlockTokens
                  hi == IF Len(R) <= lo + BlockTokens THEN Len(R) ELSE lo + BlockTokens
              IN  IF Len(R) <= lo THEN NoMean
                  ELSE [n |-> hi - lo, rows |-> {<<r, R[r + 1]>> : r \in lo .. hi - 1}]
<1> DEFINE lo == b * BlockTokens
           hi == IF Len(R) <= lo + BlockTokens THEN Len(R) ELSE lo + BlockTokens
<1>1. BlockTokens \in Nat \ {0} /\ b \in Nat /\ Len(R) \in Nat
  BY Sizes, LenProperties, DivMod DEF Blocks
<1>2. lo \in Nat /\ (b + 1) * BlockTokens = lo + BlockTokens
  BY <1>1
<1> HIDE DEF lo
<1>3. Max({0, b * BlockTokens}) = lo
  BY <1>2, MaxOfTwo DEF lo
<1>4. Min({0 + Len(R), (b + 1) * BlockTokens}) = hi
  <2>1. Min({Len(R), lo + BlockTokens}) = hi
    BY <1>1, <1>2, MinOfTwo
  <2>2. 0 + Len(R) = Len(R)
    BY <1>1
  <2>3. QED
    BY <2>1, <2>2, <1>2
<1>5. hi \in Nat /\ (hi <= lo <=> Len(R) <= lo)
  BY <1>1, <1>2
<1> HIDE DEF hi
<1>6. MeansOf(R)[b] =
        IF hi <= lo THEN NoMean
        ELSE AddMean(NoMean, lo - lo, hi - lo, {<<r, R[r - 0 + 1]>> : r \in lo .. hi - 1})
  BY <1>3, <1>4 DEF MeansOf, AddMeans, NoMeans, lo
<1>7. lo - lo = 0
  BY <1>2
<1>8. {<<r, R[r - 0 + 1]>> : r \in lo .. hi - 1} = {<<r, R[r + 1]>> : r \in lo .. hi - 1}
  <2>1. \A r \in lo .. hi - 1 : r - 0 + 1 = r + 1
    BY <1>2, <1>5
  <2>2. QED
    BY <2>1
<1>9. QED
  BY <1>5, <1>6, <1>7, <1>8 DEF AddMean, lo, hi

\* The means are a function on the blocks.
LEMMA MeansDomain ==
    ASSUME NEW mean, NEW from, NEW toks
    PROVE  AddMeans(mean, from, toks) = [b \in Blocks |-> AddMeans(mean, from, toks)[b]]
  BY DEF AddMeans

\* Rows added behind the rows R leave the means of all of them.
LEMMA MeansAppend ==
    ASSUME NEW R \in Seq(Tokens), NEW T \in Seq(Tokens)
    PROVE  AddMeans(MeansOf(R), Len(R), T) = MeansOf(R \o T)
<1> DEFINE U == R \o T
           L == Len(R)
           M == Len(T)
<1>1. /\ U \in Seq(Tokens) /\ Len(U) = L + M /\ L \in Nat /\ M \in Nat
      /\ \A i \in 1 .. L : U[i] = R[i]
      /\ \A i \in L + 1 .. L + M : U[i] = T[i - L]
  <2>1. L \in Nat /\ M \in Nat
    BY LenProperties
  <2>2. /\ U \in Seq(Tokens) /\ Len(U) = L + M
        /\ \A i \in 1 .. L + M : U[i] = IF i <= L THEN R[i] ELSE T[i - L]
    BY ConcatProperties
  <2> HIDE DEF U, L, M
  <2>3. \A i \in 1 .. L : U[i] = R[i]
    BY <2>1, <2>2
  <2>4. \A i \in L + 1 .. L + M : U[i] = T[i - L]
    BY <2>1, <2>2
  <2>5. QED
    BY <2>1, <2>2, <2>3, <2>4
<1>2. ASSUME NEW b \in Blocks
      PROVE  AddMeans(MeansOf(R), Len(R), T)[b] = MeansOf(R \o T)[b]
  <2> DEFINE a == b * BlockTokens
             z == a + BlockTokens
             lo == IF L >= a THEN L ELSE a
             hi == IF L + M <= z THEN L + M ELSE z
             new == {<<r, T[r - L + 1]>> : r \in lo .. hi - 1}
  <2>1. BlockTokens \in Nat \ {0} /\ b \in Nat /\ a \in Nat /\ z \in Nat /\ a < z
        /\ (b + 1) * BlockTokens = z
    BY Sizes, DivMod DEF Blocks
  <2> HIDE DEF a
  <2>2. Max({L, b * BlockTokens}) = lo
    BY <1>1, <2>1, MaxOfTwo DEF a
  <2>3. Min({L + M, (b + 1) * BlockTokens}) = hi
    <3>1. Min({L + M, z}) = hi
      BY <1>1, <2>1, MinOfTwo
    <3>2. QED
      BY <3>1, <2>1
  <2>4. MeansOf(U)[b] =
          IF L + M <= a THEN NoMean
          ELSE [n |-> hi - a, rows |-> {<<r, U[r + 1]>> : r \in a .. hi - 1}]
    BY <1>1, MeanOfBlock DEF a
  <2> DEFINE hr == IF L <= z THEN L ELSE z
  <2>5. MeansOf(R)[b] =
          IF L <= a THEN NoMean
          ELSE [n |-> hr - a, rows |-> {<<r, R[r + 1]>> : r \in a .. hr - 1}]
    BY MeanOfBlock DEF a
  <2>6. AddMeans(MeansOf(R), Len(R), T)[b] =
          IF hi <= lo THEN MeansOf(R)[b]
          ELSE AddMean(MeansOf(R)[b], lo - a, hi - lo, new)
    BY <2>2, <2>3 DEF AddMeans, a
  <2>7. lo \in Nat /\ hi \in Nat /\ hr \in Nat
    BY <1>1, <2>1
  <2>8. \A r \in lo .. hi - 1 : T[r - L + 1] = U[r + 1]
    <3> SUFFICES ASSUME NEW r \in lo .. hi - 1 PROVE T[r - L + 1] = U[r + 1]
      OBVIOUS
    <3>1. r \in Int /\ L <= r /\ r < L + M
      BY <1>1, <2>1, <2>7
    <3>2. r + 1 \in L + 1 .. L + M /\ (r + 1) - L = r - L + 1
      BY <3>1, <1>1
    <3>3. QED
      BY <3>2, <1>1
  <2>9. \A r \in a .. hr - 1 : R[r + 1] = U[r + 1]
    <3> SUFFICES ASSUME NEW r \in a .. hr - 1 PROVE R[r + 1] = U[r + 1]
      OBVIOUS
    <3>1. r + 1 \in 1 .. L
      BY <1>1, <2>1, <2>7
    <3>2. QED
      BY <3>1, <1>1
  <2>10. CASE hi <= lo
    <3>1. CASE L + M <= a
      <4>1. L <= a
        BY <3>1, <1>1, <2>1
      <4>2. QED
        BY <3>1, <4>1, <2>4, <2>5, <2>6, <2>10
    <3>2. CASE L + M > a
      <4>1. L > a /\ hi = hr
        BY <3>2, <2>10, <1>1, <2>1
      <4>2. \A r \in a .. hi - 1 : R[r + 1] = U[r + 1]
        BY <4>1, <2>9
      <4>3. {<<r, R[r + 1]>> : r \in a .. hi - 1} = {<<r, U[r + 1]>> : r \in a .. hi - 1}
        BY <4>2
      <4>4. ~(L <= a) /\ ~(L + M <= a)
        BY <4>1, <3>2, <1>1, <2>1
      <4>5. QED
        <5> HIDE DEF hi, hr, lo
        <5>1. QED
          BY <4>1, <4>3, <4>4, <2>4, <2>5, <2>6, <2>10
    <3>3. QED
      BY <3>1, <3>2, <1>1, <2>1
  <2>11. CASE ~(hi <= lo) /\ L <= a
    <3>1. lo = a /\ lo - a = 0 /\ ~(L + M <= a)
      BY <2>11, <1>1, <2>1
    <3>2. new = {<<r, U[r + 1]>> : r \in lo .. hi - 1}
      BY <2>8
    <3> HIDE DEF new, hi, lo, hr
    <3>3. AddMean(MeansOf(R)[b], lo - a, hi - lo, new) = [n |-> hi - a, rows |-> new]
      BY <3>1 DEF AddMean
    <3>4. QED
      BY <3>1, <3>2, <3>3, <2>4, <2>6, <2>11
  <2>12. CASE ~(hi <= lo) /\ ~(L <= a)
    <3>1. lo = L /\ lo - a # 0 /\ ~(L + M <= a) /\ hr = L /\ a < L /\ L < hi
      BY <2>12, <1>1, <2>1
    <3>2. new = {<<r, U[r + 1]>> : r \in lo .. hi - 1}
      BY <2>8
    <3>3. {<<r, R[r + 1]>> : r \in a .. hr - 1} = {<<r, U[r + 1]>> : r \in a .. hr - 1}
      BY <2>9
    <3> DEFINE old == {<<r, R[r + 1]>> : r \in a .. hr - 1}
    <3>4. MeansOf(R)[b] = [n |-> L - a, rows |-> old]
      BY <3>1, <2>5, <2>12
    <3>5. old \cup new = {<<r, U[r + 1]>> : r \in a .. hi - 1}
      <4> HIDE DEF hi, lo, hr, new, old
      <4>1. a .. hi - 1 = (a .. hr - 1) \cup (lo .. hi - 1)
        BY <3>1, <2>1, <2>7
      <4>2. old = {<<r, U[r + 1]>> : r \in a .. hr - 1}
        BY <3>3 DEF old
      <4>3. QED
        BY <4>1, <4>2, <3>2
    <3> HIDE DEF new, hi, lo, hr, old
    <3>6. (lo - a) + (hi - lo) = hi - a /\ L - a <= hi - a /\ hi - a \in Int /\ L - a \in Int
      BY <3>1, <2>1, <2>7, <1>1
    <3>7. Max({L - a, hi - a}) = hi - a
      BY <3>6, MaxOfTwo
    <3>8. AddMean(MeansOf(R)[b], lo - a, hi - lo, new) = [n |-> hi - a, rows |-> old \cup new]
      <4>1. MeansOf(R)[b].n = L - a /\ MeansOf(R)[b].rows = old
        BY <3>4
      <4>2. AddMean(MeansOf(R)[b], lo - a, hi - lo, new)
              = [n |-> Max({L - a, hi - a}), rows |-> old \cup new]
        BY <4>1, <3>1, <3>6 DEF AddMean
      <4>3. QED
        BY <4>2, <3>7
    <3>9. QED
      BY <3>1, <3>5, <3>8, <2>4, <2>6, <2>12
  <2>13. QED
    BY <2>10, <2>11, <2>12
<1>3. QED
  BY <1>2, MeansDomain DEF MeansOf

\* The mean of a block is a sum of rows and their number.
LEMMA MeanTyped ==
    ASSUME NEW C \in Seq(Tokens), NEW b \in Blocks
    PROVE  MeansOf(C)[b] \in Means
<1> DEFINE a == b * BlockTokens
           hi == IF Len(C) <= a + BlockTokens THEN Len(C) ELSE a + BlockTokens
<1>1. b \in Nat /\ a \in Nat /\ BlockTokens \in Nat \ {0} /\ Len(C) \in Nat
  BY Sizes, DivMod, LenProperties DEF Blocks
<1>2. MeansOf(C)[b] = IF Len(C) <= a THEN NoMean
                      ELSE [n |-> hi - a, rows |-> {<<r, C[r + 1]>> : r \in a .. hi - 1}]
  BY MeanOfBlock DEF a
<1> HIDE DEF a
<1>3. NoMean \in Means
  BY DEF NoMean, Means
<1>4. ASSUME ~(Len(C) <= a) PROVE MeansOf(C)[b] \in Means
  <2>1. hi \in Nat /\ hi - a \in Nat /\ hi <= Len(C)
    BY <1>1, <1>4
  <2>2. \A r \in a .. hi - 1 : r \in Nat /\ C[r + 1] \in Tokens
    <3> SUFFICES ASSUME NEW r \in a .. hi - 1 PROVE r \in Nat /\ C[r + 1] \in Tokens
      OBVIOUS
    <3>1. r \in Nat /\ r + 1 \in 1 .. Len(C)
      BY <1>1, <2>1
    <3>2. QED
      BY <3>1, ElementOfSeq
  <2> HIDE DEF hi
  <2>3. {<<r, C[r + 1]>> : r \in a .. hi - 1} \in SUBSET (Nat \X Tokens)
    BY <2>2
  <2>4. QED
    BY <1>2, <1>4, <2>1, <2>3 DEF Means
<1>5. QED
  BY <1>2, <1>3, <1>4

\* Cutting the rows R back to the first n, with the mean of the cut block put
\* back from the checkpoint of those n rows, leaves the means of those n rows.
LEMMA MeansRestored ==
    ASSUME NEW R \in Seq(Tokens), NEW n \in Nat, n <= Len(R), None \notin Means
    PROVE  SetTailMean(IF n < Len(R) THEN TruncateMean(MeansOf(R), n) ELSE MeansOf(R),
                       n, TailMean(MeansOf(Take(R, n)), n))
              = MeansOf(Take(R, n))
<1> DEFINE C == Take(R, n)
           q == n \div BlockTokens
           cut == IF n < Len(R) THEN TruncateMean(MeansOf(R), n) ELSE MeansOf(R)
           tail == TailMean(MeansOf(C), n)
<1>1. /\ BlockTokens \in Nat \ {0} /\ Len(R) \in Nat /\ C \in Seq(Tokens) /\ Len(C) = n
      /\ \A i \in 1 .. n : C[i] = R[i]
  BY Sizes, LenProperties, TakeFacts
<1>2. q \in Nat /\ n % BlockTokens \in Nat
  BY <1>1, DivMod
<1> HIDE DEF C, q
<1>3. ASSUME NEW b \in Blocks PROVE MeansOf(C)[b] \in Means
  BY <1>1, MeanTyped
<1>4. ASSUME NEW b \in Blocks, b < q PROVE MeansOf(R)[b] = MeansOf(C)[b]
  <2> DEFINE a == b * BlockTokens
             z == a + BlockTokens
  <2>1. b \in Nat /\ a \in Nat /\ z \in Nat /\ a < z /\ (b + 1) * BlockTokens = z
    BY <1>1, Sizes, DivMod DEF Blocks
  <2>2. z <= n
    BY <1>1, <1>2, <1>4, <2>1, BlockOfRow DEF q
  <2>3. MeansOf(R)[b] = IF Len(R) <= a THEN NoMean
           ELSE [n |-> (IF Len(R) <= z THEN Len(R) ELSE z) - a,
                 rows |-> {<<r, R[r + 1]>> : r \in a .. (IF Len(R) <= z THEN Len(R) ELSE z) - 1}]
    BY MeanOfBlock DEF a
  <2>4. MeansOf(C)[b] = IF Len(C) <= a THEN NoMean
           ELSE [n |-> (IF Len(C) <= z THEN Len(C) ELSE z) - a,
                 rows |-> {<<r, C[r + 1]>> : r \in a .. (IF Len(C) <= z THEN Len(C) ELSE z) - 1}]
    BY <1>1, MeanOfBlock DEF a
  <2> HIDE DEF a
  <2>5. /\ ~(Len(R) <= a) /\ ~(Len(C) <= a)
        /\ (IF Len(R) <= z THEN Len(R) ELSE z) = z
        /\ (IF Len(C) <= z THEN Len(C) ELSE z) = z
    BY <1>1, <2>1, <2>2
  <2> HIDE DEF z
  <2>6. \A r \in a .. z - 1 : R[r + 1] = C[r + 1]
    <3> SUFFICES ASSUME NEW r \in a .. z - 1 PROVE R[r + 1] = C[r + 1]
      OBVIOUS
    <3>1. r + 1 \in 1 .. n
      BY <2>1, <2>2
    <3>2. QED
      BY <3>1, <1>1
  <2>7. {<<r, R[r + 1]>> : r \in a .. z - 1} = {<<r, C[r + 1]>> : r \in a .. z - 1}
    BY <2>6
  <2>8. MeansOf(R)[b] = [n |-> z - a, rows |-> {<<r, R[r + 1]>> : r \in a .. z - 1}]
    BY <2>3, <2>5, Zenon
  <2>9. MeansOf(C)[b] = [n |-> z - a, rows |-> {<<r, C[r + 1]>> : r \in a .. z - 1}]
    BY <2>4, <2>5, Zenon
  <2>10. QED
    BY <2>7, <2>8, <2>9, Zenon
<1>5. ASSUME NEW b \in Blocks, n <= b * BlockTokens PROVE MeansOf(C)[b] = NoMean
  BY <1>1, <1>5, MeanOfBlock
<1>6. /\ DOMAIN MeansOf(C) = Blocks /\ DOMAIN MeansOf(R) = Blocks
      /\ DOMAIN cut = Blocks
      /\ MeansOf(C) = [b \in Blocks |-> MeansOf(C)[b]]
      /\ cut = [b \in Blocks |-> cut[b]]
  BY DEF MeansOf, AddMeans, TruncateMean
<1>7. ASSUME NEW b \in Blocks, b # q PROVE cut[b] = MeansOf(C)[b]
  <2>0. b \in Nat /\ b * BlockTokens \in Nat
    BY <1>1, Sizes, DivMod DEF Blocks
  <2>1. CASE n < Len(R)
    <3>1. cut[b] = IF b * BlockTokens >= n \/ (b = q /\ MeansOf(R)[b].n > n % BlockTokens)
                   THEN NoMean ELSE MeansOf(R)[b]
      BY <2>1 DEF TruncateMean, q
    <3>2. CASE b < q
      <4>1. (b + 1) * BlockTokens <= n /\ (b + 1) * BlockTokens = b * BlockTokens + BlockTokens
        BY <3>2, <2>0, <1>1, BlockOfRow DEF q
      <4>2. ~(b * BlockTokens >= n)
        BY <4>1, <2>0, <1>1
      <4>3. cut[b] = MeansOf(R)[b]
        BY <3>1, <4>2, <1>7
      <4>4. QED
        BY <4>3, <3>2, <1>4
    <3>3. CASE b > q
      <4>1. n < b * BlockTokens
        BY <3>3, <2>0, BlockOfRow DEF q
      <4>2. cut[b] = NoMean
        BY <3>1, <4>1, <2>0
      <4>3. QED
        BY <4>1, <4>2, <2>0, <1>5
    <3>4. QED
      BY <3>2, <3>3, <2>0, <1>2, <1>7
  <2>2. CASE ~(n < Len(R))
    <3>1. C = R
      BY <2>2, <1>1, TakeAll DEF C
    <3>2. QED
      BY <3>1, <2>2
  <2>3. QED
    BY <2>1, <2>2
<1>8. CASE n % BlockTokens = 0
  <2>1. tail = None
    BY <1>8 DEF TailMean
  <2>2. ASSUME q \in Blocks PROVE cut[q] = MeansOf(C)[q]
    <3>1. n = q * BlockTokens
      BY <1>8, <1>2, BlockOfRow DEF q
    <3>2. CASE n < Len(R)
      <4>1. cut[q] = NoMean
        BY <3>1, <3>2, <1>1, <2>2 DEF TruncateMean
      <4>2. n <= q * BlockTokens
        BY <3>1
      <4>3. QED
        BY <4>1, <4>2, <2>2, <1>5
    <3>3. CASE ~(n < Len(R))
      <4>1. C = R
        BY <3>3, <1>1, TakeAll DEF C
      <4>2. QED
        BY <4>1, <3>3
    <3>4. QED
      BY <3>2, <3>3
  <2> HIDE DEF cut, tail
  <2>3. \A b \in Blocks : cut[b] = MeansOf(C)[b]
    BY <2>2, <1>7
  <2>4. cut = MeansOf(C)
    BY <2>3, <1>6
  <2>5. QED
    BY <2>1, <2>4 DEF SetTailMean, cut, tail, C
<1>9. CASE n % BlockTokens # 0
  <2>1. tail = MeansOf(C)[q]
    BY <1>9 DEF TailMean, q
  <2> HIDE DEF cut, tail
  <2>2. CASE q \in Blocks
    <3>1. tail # None
      BY <2>1, <2>2, <1>3
    <3>2. SetTailMean(cut, n, tail) = [cut EXCEPT ![q] = tail]
      BY <3>1 DEF SetTailMean, q
    <3>3. \A b \in Blocks : [cut EXCEPT ![q] = tail][b] = MeansOf(C)[b]
      BY <2>1, <1>6, <1>7
    <3>4. [cut EXCEPT ![q] = tail] = MeansOf(C)
      BY <3>3, <1>6
    <3>5. QED
      BY <3>2, <3>4 DEF cut, tail, C
  <2>3. CASE q \notin Blocks
    <3>1. \A b \in Blocks : cut[b] = MeansOf(C)[b]
      BY <2>3, <1>7
    <3>2. cut = MeansOf(C)
      BY <3>1, <1>6
    <3>3. [cut EXCEPT ![q] = tail] = cut
      BY <2>3, <1>6
    <3>4. SetTailMean(cut, n, tail) = cut
      BY <3>3 DEF SetTailMean, q
    <3>5. QED
      BY <3>2, <3>4 DEF cut, tail, C
  <2>4. QED
    BY <2>2, <2>3
<1>10. QED
  BY <1>8, <1>9

-----------------------------------------------------------------------------
(* The invariant: types, which hold in every state, and, unless a rollback *)
(* failed, what the memories hold at each point of a request.              *)

\* A checkpoint, whatever its states are; after a failed rollback they may be
\* of any rows.
IsCp(e) ==
    /\ e = [row |-> e.row, media |-> e.media, rec |-> e.rec, carry |-> e.carry, tail |-> e.tail]
    /\ e.row \in Nat /\ e.media \in BOOLEAN

\* A captured query with the rows it was about.
IsQuery(q) ==
    /\ q = [span |-> q.span, prefix |-> q.prefix]
    /\ q.span \in Nat \X Nat /\ q.prefix \in Seq(Tokens) /\ Len(q.prefix) = q.span[2]

\* The memories; the rows and the store are all that is typed of them.
IsMem(m) ==
    /\ m = [kv |-> m.kv, store |-> m.store, rec |-> m.rec, mean |-> m.mean,
            draft |-> m.draft, carry |-> m.carry]
    /\ m.kv \in Seq(Tokens) /\ m.store \in Seq(Tokens)

\* The locals of a handler.
IsTurn(t) ==
    /\ t = [prompt |-> t.prompt, span |-> t.span, reset |-> t.reset, base |-> t.base,
            qrow |-> t.qrow, row |-> t.row, suffix |-> t.suffix, pending |-> t.pending,
            reuse |-> t.reuse, gen |-> t.gen, before |-> t.before]
    /\ t.prompt \in Seq(Tokens) /\ t.before \in Seq(Tokens) /\ t.gen \in Seq(Tokens)
    /\ t.span \in Nat \X Nat /\ t.qrow \in Nat /\ t.row \in Nat
    /\ t.pending # None => IsQuery(t.pending)

\* Where a request is when it has its base, or is about to go back to it.
Evaluating == {"path", "prefix", "suffix", "again", "replay", "capture", "generate"}
Serving    == {"restore"} \cup Evaluating
End        == EvalEnd(turn.prompt)

\* The types of the state, and of a request and its rollback point.
StateTypes ==
    /\ setup \in Setups /\ lost \in BOOLEAN /\ committed \in BOOLEAN
    /\ pc \in {"idle", "select", "failed"} \cup Serving
    /\ IsMem(mem) /\ IsTurn(turn)
    /\ IsFiniteSet(cps) /\ \A e \in cps : IsCp(e)
    /\ live = [row |-> live.row, cp |-> live.cp] /\ live.row \in Nat
    /\ live.cp # None => IsCp(live.cp)
    /\ cached \in Seq(Tokens) \cup {None}
    /\ query # None => IsQuery(query)

RequestTypes ==
    /\ rollback # None =>
          /\ rollback = [cp |-> rollback.cp, prompt |-> rollback.prompt]
          /\ IsCp(rollback.cp) /\ rollback.prompt \in Seq(Tokens) \cup {None}
    /\ committed => rollback = None
    /\ pc \in {"idle", "select"} => rollback = None
    /\ pc # "idle" => /\ turn.prompt \in setup.prompts /\ Len(turn.gen) <= setup.reply
                      /\ turn.span[2] <= End /\ turn.qrow <= End
    /\ pc = "select" => turn.before = mem.kv
    /\ turn.gen # <<>> => pc \in {"generate", "failed"}
    /\ pc \in Serving => IsCp(turn.base)
    /\ pc \in {"suffix", "again", "replay"} => IsCp(turn.suffix)

\* e is a checkpoint of the first rows of S.
CpOf(S, e) ==
    /\ e.row <= Len(S)
    /\ e.rec = Take(S, e.row) /\ e.carry = OfDraft(Take(S, e.row))
    /\ e.tail = TailMean(MeansOf(Take(S, e.row)), e.row)

\* The last of the rows S that was evaluated is the n-th, and the checkpoint
\* that may be there is of it.
AtRow(S, n) ==
    /\ live.row = n
    /\ live.cp # None => live.cp.row = n /\ CpOf(S, live.cp)

\* Between requests the memories hold the first live.row rows of the cached
\* conversation, and so do the checkpoints and the captured query.
Conversation == IF cached = None THEN <<>> ELSE cached

Between ==
    /\ live.row <= Len(Conversation) /\ Len(Conversation) <= MaxRows
    /\ mem = Holding(Take(Conversation, live.row))
    /\ AtRow(Conversation, live.row)
    /\ \A e \in cps : e.row <= live.row /\ CpOf(Conversation, e)
    /\ cached # None => \E e \in cps : e.row = live.row
    /\ query # None => /\ query.span[2] <= live.row
                       /\ query.prefix = Take(Conversation, query.span[2])

BetweenInv == pc \in {"idle", "select", "restore"} => Between

\* A replay evaluates rows that the host store has.
Replaying(S, row, end) ==
    [Holding(Take(S, row)) EXCEPT !.store = Take(S, end), !.mean = MeansOf(Take(S, end))]

\* A request that failed before it had a base has cleared everything.
ClearedInv ==
    pc = "failed" /\ rollback = None =>
        mem = Holding(<<>>) /\ cps = {} /\ cached = None /\ query = None /\ live = NoLive

\* What a request goes back to when it fails: the rows found at its base.
Found == IF rollback.prompt = None THEN <<>> ELSE rollback.prompt

UndoInv ==
    pc \in Serving \cup {"failed"} /\ rollback # None =>
        /\ Len(Found) = rollback.cp.row /\ CpOf(Found, rollback.cp)
        /\ rollback.cp.row <= MaxRows
        /\ rollback.cp.row <= Len(turn.before) /\ Take(turn.before, rollback.cp.row) = Found
        /\ \A e \in cps : e.row < rollback.cp.row => CpOf(Found, e)

\* The rows up to the base are in the memories whatever failed behind them.
Undoable ==
    /\ Take(mem.kv, rollback.cp.row) = Found /\ Take(mem.store, rollback.cp.row) = Found
    /\ mem.mean = MeansOf(mem.store) /\ mem.draft = OfDraft(mem.kv)
    /\ live = [row |-> rollback.cp.row, cp |-> rollback.cp] =>
          mem.rec = rollback.cp.rec /\ mem.carry = rollback.cp.carry

FailedInv == pc = "failed" /\ rollback # None => Undoable

\* The base of a request is a checkpoint of rows the prompt begins with.
BaseInv ==
    pc \in Serving =>
        /\ rollback # None /\ turn.base = rollback.cp
        /\ turn.base.row <= End
        /\ pc = "restore" => /\ turn.base.row <= SharedRows(turn.prompt, cached)
                             /\ turn.base.row <= live.row
                             /\ Found = Take(Conversation, turn.base.row)
        /\ pc \in Evaluating => Found = Take(turn.prompt, turn.base.row)
        /\ pc \in Evaluating \ {"path"} => turn.qrow = QueryRow

\* Checkpoints past the row n that are not the prompt's will be dropped.
CoveredFrom(n) ==
    \A e \in cps : CpOf(turn.prompt, e) \/ \E row \in n .. e.row : SavePoint(row)

\* Up to the query row the memories hold the rows of the prompt so far.
PrefixInv ==
    /\ pc = "path" => /\ mem = Holding(Take(turn.prompt, turn.base.row))
                      /\ AtRow(turn.prompt, turn.base.row) /\ CoveredFrom(turn.base.row)
    /\ pc = "prefix" => /\ turn.base.row <= turn.row /\ turn.row <= turn.qrow
                        /\ mem = Holding(Take(turn.prompt, turn.row))
                        /\ AtRow(turn.prompt, turn.row) /\ CoveredFrom(turn.row)

\* The suffix is evaluated, and once more from the query row if it is replayed;
\* from then on every checkpoint is one of the prompt.
SuffixInv ==
    /\ pc \in {"suffix", "again", "replay", "capture", "generate"} =>
          \A e \in cps : CpOf(turn.prompt, e)
    /\ pc \in {"suffix", "again", "replay"} =>
          /\ turn.suffix.row = turn.qrow /\ CpOf(turn.prompt, turn.suffix)
          /\ turn.qrow <= turn.row /\ turn.row <= End
          /\ AtRow(turn.prompt, turn.row)
    /\ pc \in {"suffix", "again"} => mem = Holding(Take(turn.prompt, turn.row))
    /\ pc = "again" => turn.row = End /\ turn.qrow < End
    /\ pc = "replay" => mem = Replaying(turn.prompt, turn.row, End)

\* At the end of the prompt, and behind it.
ReplyInv ==
    /\ pc = "capture" => mem = Holding(Take(turn.prompt, End)) /\ AtRow(turn.prompt, End)
    /\ pc = "generate" => HoldsPrompt /\ live.cp = None

\* The query the turn will leave is one of the prompt.
PendingInv ==
    pc \in Evaluating \ {"path"} /\ turn.pending # None =>
        /\ turn.pending.span[2] <= End
        /\ turn.pending.prefix = Take(turn.prompt, turn.pending.span[2])

\* What holds unless a rollback failed.
HeldInv ==
    /\ BetweenInv /\ ClearedInv /\ UndoInv /\ FailedInv /\ BaseInv
    /\ PrefixInv /\ SuffixInv /\ ReplyInv /\ PendingInv

\* The inductive invariant.
TurnInv == StateTypes /\ RequestTypes /\ (~lost => HeldInv)

-----------------------------------------------------------------------------
(* The operations on the memories.                                         *)

\* The requests of a server are within the bounds.
LEMMA PromptFacts ==
    ASSUME setup \in Setups, NEW p \in setup.prompts
    PROVE  /\ p \in Seq(Tokens) /\ Len(p) \in Nat /\ Len(p) > 1
           /\ setup.reply \in Nat /\ Len(p) + setup.reply <= MaxRows
           /\ EvalEnd(p) \in Nat /\ EvalEnd(p) = IF SpecOK THEN Len(p) - 1 ELSE Len(p)
           /\ SpecOK \in BOOLEAN
<1>1. /\ setup.spec \in BOOLEAN /\ setup.reply \in Nat
      /\ p \in Seq(Range(p)) /\ Len(p) > 1 /\ Len(p) + setup.reply <= MaxRows
  BY ServerTurnAssumption
<1>2. p \in UNION {x.prompts : x \in Setups}
  OBVIOUS
<1>3. Range(p) \subseteq Tokens
  BY <1>2 DEF Tokens, Prompts
<1>4. p \in Seq(Tokens)
  BY <1>1, <1>3, SeqMonotonic
<1>5. Len(p) \in Nat
  BY <1>4, LenProperties
<1>6. EvalEnd(p) = IF SpecOK THEN Len(p) - 1 ELSE Len(p)
  BY <1>5 DEF EvalEnd
<1>7. QED
  BY <1>1, <1>4, <1>5, <1>6 DEF SpecOK

\* The absent value is none of the values it stands for.
LEMMA NoneApart ==
    /\ None \notin Seq(Tokens) /\ None \notin Means /\ None \notin Checkpoint
    /\ None \notin Query /\ None \notin Rollback
  BY ServerTurnAssumption

\* The rows of the draft model.
LEMMA DraftFacts ==
    ASSUME NEW R \in Seq(Tokens)
    PROVE  /\ OfDraft(R) \in Seq(Tokens)
           /\ \A T \in Seq(Tokens) : OfDraft(R) \o OfDraft(T) = OfDraft(R \o T)
<1>1. <<>> \in Seq(Tokens)
  BY EmptySeq
<1>2. <<>> \o <<>> = <<>>
  BY <1>1, ConcatEmptySeq
<1>3. QED
  BY <1>1, <1>2 DEF OfDraft

\* What the memories are that hold the rows R.
LEMMA HoldingFacts ==
    ASSUME NEW R \in Seq(Tokens)
    PROVE  /\ IsMem(Holding(R))
           /\ Holding(R).kv = R /\ Holding(R).store = R /\ Holding(R).rec = R
           /\ Holding(R).mean = MeansOf(R)
           /\ Holding(R).draft = OfDraft(R) /\ Holding(R).carry = OfDraft(R)
  BY DEF Holding, IsMem, MeansOf

\* Evaluating the rows T behind R makes the memories hold both.
LEMMA EvaluateHolding ==
    ASSUME NEW R \in Seq(Tokens), NEW T \in Seq(Tokens)
    PROVE  Evaluate(Holding(R), T, FALSE) = Holding(R \o T)
<1>1. AddMeans(MeansOf(R), Len(R), T) = MeansOf(R \o T)
  BY MeansAppend
<1>2. OfDraft(R) \o OfDraft(T) = OfDraft(R \o T)
  BY DraftFacts
<1>3. Evaluate(Holding(R), T, FALSE) =
        [kv |-> R \o T, store |-> R \o T, rec |-> R \o T,
         mean |-> AddMeans(MeansOf(R), Len(R), T),
         draft |-> OfDraft(R) \o OfDraft(T), carry |-> OfDraft(R) \o OfDraft(T)]
  BY DEF Evaluate, Holding, MeansOf
<1>4. QED
  BY <1>1, <1>2, <1>3 DEF Holding, MeansOf

\* A memory that holds the first n rows of S evaluates the next ones.
LEMMA EvaluateNext ==
    ASSUME NEW S \in Seq(Tokens), NEW m \in Nat, NEW n \in Nat, m <= n, n <= Len(S)
    PROVE  Evaluate(Holding(Take(S, m)), SubSeq(S, m + 1, n), FALSE) = Holding(Take(S, n))
<1>1. /\ Take(S, m) \o SubSeq(S, m + 1, n) = Take(S, n)
      /\ SubSeq(S, m + 1, n) \in Seq(Tokens)
  BY TakeOn
<1>2. Take(S, m) \in Seq(Tokens)
  BY TakeFacts
<1>3. QED
  BY <1>1, <1>2, EvaluateHolding

\* So does a replay, which leaves the host store alone.
LEMMA ReplayingIs ==
    ASSUME NEW S, NEW row, NEW end
    PROVE  Replaying(S, row, end) =
              [kv |-> Take(S, row), store |-> Take(S, end), rec |-> Take(S, row),
               mean |-> MeansOf(Take(S, end)),
               draft |-> OfDraft(Take(S, row)), carry |-> OfDraft(Take(S, row))]
<1> DEFINE h == Holding(Take(S, row))
           x == MeansOf(Take(S, row))
           b == Take(S, end)
           n == MeansOf(Take(S, end))
           t == Replaying(S, row, end)
<1>1. h = [kv |-> Take(S, row), store |-> Take(S, row), rec |-> Take(S, row), mean |-> x,
           draft |-> OfDraft(Take(S, row)), carry |-> OfDraft(Take(S, row))]
  BY DEF Holding, MeansOf
<1>2. t = [h EXCEPT !.store = b, !.mean = n]
  BY DEF Replaying
<1> HIDE DEF h, b, n, x, t
<1>3. t = [kv |-> Take(S, row), store |-> b, rec |-> Take(S, row), mean |-> n,
           draft |-> OfDraft(Take(S, row)), carry |-> OfDraft(Take(S, row))]
  BY <1>1, <1>2
<1>4. QED
  BY <1>3 DEF b, n, t

\* A replayed batch brings the attention rows that much further.
LEMMA ReplayNext ==
    ASSUME NEW S \in Seq(Tokens), NEW m \in Nat, NEW n \in Nat, m <= n, n <= Len(S), NEW end
    PROVE  Evaluate(Replaying(S, m, end), SubSeq(S, m + 1, n), TRUE) = Replaying(S, n, end)
<1> DEFINE R == Take(S, m)
           T == SubSeq(S, m + 1, n)
<1>1. R \o T = Take(S, n) /\ T \in Seq(Tokens) /\ R \in Seq(Tokens)
  <2>1. R \o T = Take(S, n) /\ T \in Seq(Tokens)
    BY TakeOn
  <2>2. R \in Seq(Tokens)
    BY TakeFacts
  <2>3. QED
    BY <2>1, <2>2
<1> HIDE DEF R, T
<1>2. OfDraft(R) \o OfDraft(T) = OfDraft(R \o T)
  BY <1>1, DraftFacts
<1>3. Replaying(S, m, end) =
        [kv |-> R, store |-> Take(S, end), rec |-> R, mean |-> MeansOf(Take(S, end)),
         draft |-> OfDraft(R), carry |-> OfDraft(R)]
  BY ReplayingIs DEF R
<1>4. Replaying(S, n, end) =
        [kv |-> R \o T, store |-> Take(S, end), rec |-> R \o T, mean |-> MeansOf(Take(S, end)),
         draft |-> OfDraft(R \o T), carry |-> OfDraft(R \o T)]
  BY <1>1, ReplayingIs
<1>5. Evaluate(Replaying(S, m, end), T, TRUE) =
        [kv |-> R \o T, store |-> Take(S, end), rec |-> R \o T, mean |-> MeansOf(Take(S, end)),
         draft |-> OfDraft(R) \o OfDraft(T), carry |-> OfDraft(R) \o OfDraft(T)]
  BY <1>3 DEF Evaluate
<1>6. QED
  BY <1>2, <1>4, <1>5 DEF T

\* Whatever a batch that failed left is behind the rows that were there.
LEMMA EvaluateBehind ==
    ASSUME NEW m, IsMem(m), NEW T \in Seq(Tokens), NEW replay \in BOOLEAN
    PROVE  /\ IsMem(Evaluate(m, T, replay))
           /\ \A n \in Nat : n <= Len(m.kv) => Take(Evaluate(m, T, replay).kv, n) = Take(m.kv, n)
           /\ \A n \in Nat : n <= Len(m.store) =>
                 Take(Evaluate(m, T, replay).store, n) = Take(m.store, n)
           /\ m.mean = MeansOf(m.store) =>
                 Evaluate(m, T, replay).mean = MeansOf(Evaluate(m, T, replay).store)
           /\ m.draft = OfDraft(m.kv) =>
                 Evaluate(m, T, replay).draft = OfDraft(Evaluate(m, T, replay).kv)
<1> DEFINE e == Evaluate(m, T, replay)
<1>1. /\ e.kv = m.kv \o T /\ e.draft = m.draft \o OfDraft(T)
      /\ e.store = IF replay THEN m.store ELSE m.store \o T
      /\ e.mean = IF replay THEN m.mean ELSE AddMeans(m.mean, Len(m.store), T)
      /\ e = [kv |-> e.kv, store |-> e.store, rec |-> e.rec, mean |-> e.mean,
              draft |-> e.draft, carry |-> e.carry]
  BY DEF Evaluate
<1> HIDE DEF e
<1>2. m.kv \in Seq(Tokens) /\ m.store \in Seq(Tokens)
  BY DEF IsMem
<1>3. m.kv \o T \in Seq(Tokens) /\ m.store \o T \in Seq(Tokens)
  BY <1>2, ConcatProperties
<1>4. IsMem(e)
  BY <1>1, <1>2, <1>3 DEF IsMem
<1>5. \A n \in Nat : n <= Len(m.kv) => Take(e.kv, n) = Take(m.kv, n)
  BY <1>1, <1>2, TakeOfConcat
<1>6. \A n \in Nat : n <= Len(m.store) => Take(e.store, n) = Take(m.store, n)
  BY <1>1, <1>2, TakeOfConcat
<1>7. m.mean = MeansOf(m.store) => e.mean = MeansOf(e.store)
  BY <1>1, <1>2, MeansAppend
<1>8. m.draft = OfDraft(m.kv) => e.draft = OfDraft(e.kv)
  BY <1>1, <1>2, DraftFacts
<1>9. QED
  BY <1>4, <1>5, <1>6, <1>7, <1>8 DEF e

\* multimodal_restore at a checkpoint of the rows B, from memories that have
\* those rows, leaves exactly them.
LEMMA RestoredHolds ==
    ASSUME NEW m, IsMem(m), NEW cp, IsCp(cp), NEW B \in Seq(Tokens), Len(B) = cp.row,
           CpOf(B, cp), Take(m.kv, cp.row) = B, Take(m.store, cp.row) = B,
           m.mean = MeansOf(m.store), m.draft = OfDraft(m.kv),
           live = [row |-> cp.row, cp |-> cp] => m.rec = cp.rec /\ m.carry = cp.carry
    PROVE  RestoredStore(m, cp) = Holding(B)
<1>1. cp.row \in Nat /\ m.kv \in Seq(Tokens) /\ m.store \in Seq(Tokens)
  BY DEF IsCp, IsMem
<1>2. Take(B, cp.row) = B
  BY <1>1, TakeAll
<1>3. cp.rec = B /\ cp.carry = OfDraft(B) /\ cp.tail = TailMean(MeansOf(B), cp.row)
  BY <1>2 DEF CpOf
<1>4. cp.row <= Len(m.store)
  BY <1>1, TakeFacts, LenProperties
<1> DEFINE cut == IF cp.row < Len(m.store) THEN TruncateMean(m.mean, cp.row) ELSE m.mean
<1>5. SetTailMean(cut, cp.row, cp.tail) = MeansOf(B)
  BY <1>1, <1>3, <1>4, MeansRestored, NoneApart
<1>6. OfDraft(Take(m.draft, cp.row)) = OfDraft(B)
  BY DEF OfDraft
<1>7. RestoredRows(m, cp) =
        [kv |-> B, store |-> m.store, rec |-> B, mean |-> m.mean,
         draft |-> OfDraft(B), carry |-> m.carry]
  <2> DEFINE s == RestoredState(m, cp)
  <2>1. s = [kv |-> m.kv, store |-> m.store, rec |-> B, mean |-> m.mean,
             draft |-> m.draft, carry |-> m.carry]
    BY <1>3 DEF RestoredState, IsMem
  <2>2. RestoredRows(m, cp) =
          [s EXCEPT !.kv = Take(s.kv, cp.row), !.draft = OfDraft(Take(m.draft, cp.row))]
    BY DEF RestoredRows
  <2> HIDE DEF s
  <2>3. QED
    BY <2>1, <2>2, <1>6
<1>8. RestoredCarry(m, cp) =
        [kv |-> B, store |-> m.store, rec |-> B, mean |-> m.mean,
         draft |-> OfDraft(B), carry |-> OfDraft(B)]
  BY <1>3, <1>7 DEF RestoredCarry
<1> HIDE DEF cut
<1>9. RestoredStore(m, cp) =
        [kv |-> B, store |-> B, rec |-> B, mean |-> SetTailMean(cut, cp.row, cp.tail),
         draft |-> OfDraft(B), carry |-> OfDraft(B)]
  <2> DEFINE c == RestoredCarry(m, cp)
  <2>1. c = [kv |-> B, store |-> m.store, rec |-> B, mean |-> m.mean,
             draft |-> OfDraft(B), carry |-> OfDraft(B)]
    BY <1>8
  <2>2. RestoredStore(m, cp) =
          [c EXCEPT !.store = Take(c.store, cp.row), !.mean = SetTailMean(cut, cp.row, cp.tail)]
    BY DEF RestoredStore, cut
  <2> HIDE DEF c
  <2>3. QED
    BY <2>1, <2>2
<1>10. QED
  BY <1>5, <1>9 DEF Holding, MeansOf

\* A restore that stops half way keeps the rows up to the checkpoint.
LEMMA RestoredPart ==
    ASSUME NEW m, IsMem(m), NEW cp, IsCp(cp), NEW n \in Nat, n <= cp.row,
           NEW r \in {RestoredState(m, cp), RestoredRows(m, cp), RestoredCarry(m, cp)}
    PROVE  /\ IsMem(r) /\ Take(r.kv, n) = Take(m.kv, n)
           /\ r.store = m.store /\ r.mean = m.mean
           /\ m.draft = OfDraft(m.kv) => r.draft = OfDraft(r.kv)
           /\ live = [row |-> cp.row, cp |-> cp] => r.rec = m.rec /\ r.carry = m.carry
<1>1. cp.row \in Nat /\ m.kv \in Seq(Tokens) /\ m.store \in Seq(Tokens)
  BY DEF IsCp, IsMem
<1> DEFINE rec == IF live = [row |-> cp.row, cp |-> cp] THEN m.rec ELSE cp.rec
           carry == IF live = [row |-> cp.row, cp |-> cp] THEN m.carry ELSE cp.carry
<1>2. RestoredState(m, cp) = [kv |-> m.kv, store |-> m.store, rec |-> rec, mean |-> m.mean,
                              draft |-> m.draft, carry |-> m.carry]
  BY DEF RestoredState, IsMem
<1>3. RestoredRows(m, cp) =
        [kv |-> Take(m.kv, cp.row), store |-> m.store, rec |-> rec, mean |-> m.mean,
         draft |-> OfDraft(Take(m.draft, cp.row)), carry |-> m.carry]
  <2> DEFINE s == RestoredState(m, cp)
  <2>1. s = [kv |-> m.kv, store |-> m.store, rec |-> rec, mean |-> m.mean,
             draft |-> m.draft, carry |-> m.carry]
    BY <1>2
  <2>2. RestoredRows(m, cp) =
          [s EXCEPT !.kv = Take(s.kv, cp.row), !.draft = OfDraft(Take(m.draft, cp.row))]
    BY DEF RestoredRows
  <2> HIDE DEF s
  <2>3. QED
    BY <2>1, <2>2
<1>4. RestoredCarry(m, cp) =
        [kv |-> Take(m.kv, cp.row), store |-> m.store, rec |-> rec, mean |-> m.mean,
         draft |-> OfDraft(Take(m.draft, cp.row)), carry |-> carry]
  BY <1>3 DEF RestoredCarry
<1>5. Take(Take(m.kv, cp.row), n) = Take(m.kv, n) /\ Take(m.kv, cp.row) \in Seq(Tokens)
  BY <1>1, TakeOfTake, TakeFacts
<1>6. m.draft = OfDraft(m.kv) => OfDraft(Take(m.draft, cp.row)) = OfDraft(Take(m.kv, cp.row))
  BY DEF OfDraft
<1>7. CASE r = RestoredState(m, cp)
  BY <1>1, <1>2, <1>7 DEF IsMem
<1>8. CASE r = RestoredRows(m, cp)
  BY <1>1, <1>3, <1>5, <1>6, <1>8 DEF IsMem
<1>9. CASE r = RestoredCarry(m, cp)
  BY <1>1, <1>4, <1>5, <1>6, <1>9 DEF IsMem
<1>10. QED
  BY <1>7, <1>8, <1>9

-----------------------------------------------------------------------------
(* Checkpoints.                                                            *)

\* A checkpoint of S is one of every sequence that begins as S does.
LEMMA CpOfPrefix ==
    ASSUME NEW S \in Seq(Tokens), NEW T \in Seq(Tokens), NEW n \in Nat,
           Take(S, n) = Take(T, n), n <= Len(T),
           NEW e, IsCp(e), e.row <= n, CpOf(S, e)
    PROVE  CpOf(T, e)
<1>1. e.row \in Nat /\ Len(T) \in Nat
  BY LenProperties DEF IsCp
<1>2. Take(S, e.row) = Take(T, e.row)
  BY <1>1, TakeShorter
<1>3. e.row <= Len(T)
  BY <1>1
<1>4. QED
  BY <1>2, <1>3 DEF CpOf

\* A checkpoint of a conversation within the bound is in the set Checkpoint.
LEMMA CpOfTyped ==
    ASSUME NEW S \in Seq(Tokens), NEW e, IsCp(e), CpOf(S, e), e.row <= MaxRows
    PROVE  e \in Checkpoint /\ e # None
<1> DEFINE q == e.row \div BlockTokens
           R == Take(S, e.row)
<1>1. e.row \in Nat /\ R \in Seq(Tokens)
  BY TakeFacts DEF IsCp
<1>2. BlockTokens \in Nat \ {0} /\ MaxRows \in Nat
  BY Sizes
<1>3. q \in Nat /\ MaxRows \div BlockTokens \in Nat
  BY <1>1, <1>2, DivMod
<1>4. q <= MaxRows \div BlockTokens
  <2> SUFFICES ASSUME q > MaxRows \div BlockTokens PROVE FALSE
    BY <1>3
  <2>1. MaxRows < q * BlockTokens
    BY <1>2, <1>3, BlockOfRow
  <2>2. q * BlockTokens <= e.row
    BY <1>1, BlockOfRow
  <2>3. q * BlockTokens \in Int
    BY <1>2, <1>3
  <2> HIDE DEF q
  <2>4. QED
    BY <1>1, <1>2, <2>1, <2>2, <2>3
<1>5. q \in Blocks
  BY <1>3, <1>4 DEF Blocks
<1>6. TailMean(MeansOf(R), e.row) \in Means \cup {None}
  <2> HIDE DEF R
  <2>1. MeansOf(R)[q] \in Means
    BY <1>1, <1>5, MeanTyped
  <2>2. QED
    BY <2>1 DEF TailMean
<1>7. e.rec \in Seq(Tokens) /\ e.carry \in Seq(Tokens) /\ e.tail \in Means \cup {None}
  BY <1>1, <1>6, DraftFacts DEF CpOf
<1>8. e \in Checkpoint
  BY <1>7 DEF IsCp, Checkpoint
<1>9. QED
  BY <1>8, NoneApart

\* multimodal_checkpoint of a memory that holds the first n rows of S.
LEMMA CheckpointAtFacts ==
    ASSUME NEW S \in Seq(Tokens), NEW n \in Nat, n <= Len(S),
           live.cp # None => IsCp(live.cp), live.cp = None \/ AtRow(S, n)
    PROVE  LET cp == CheckpointAt(Holding(Take(S, n)), n)
           IN  IsCp(cp) /\ cp.row = n /\ CpOf(S, cp)
<1> DEFINE m == Holding(Take(S, n))
           cp == CheckpointAt(m, n)
<1>1. Take(S, n) \in Seq(Tokens)
  BY TakeFacts
<1>2. m.rec = Take(S, n) /\ m.carry = OfDraft(Take(S, n)) /\ m.mean = MeansOf(Take(S, n))
  BY <1>1, HoldingFacts
<1> HIDE DEF m
<1>3. CASE live.cp # None
  <2>1. cp = [live.cp EXCEPT !.media = FALSE]
    BY <1>3 DEF CheckpointAt, AtRow
  <2>2. IsCp(live.cp) /\ live.cp.row = n /\ CpOf(S, live.cp)
    BY <1>3 DEF AtRow
  <2> HIDE DEF cp
  <2> DEFINE old == live.cp
  <2>3. old = [row |-> old.row, media |-> old.media, rec |-> old.rec, carry |-> old.carry,
               tail |-> old.tail]
    BY <2>2 DEF IsCp
  <2> HIDE DEF old
  <2>4. cp = [old EXCEPT !.media = FALSE]
    BY <2>1 DEF old
  <2>5. cp = [row |-> old.row, media |-> FALSE, rec |-> old.rec, carry |-> old.carry,
              tail |-> old.tail]
    BY <2>3, <2>4
  <2>6. IsCp(old) /\ old.row = n /\ CpOf(S, old)
    BY <2>2 DEF old
  <2>7. IsCp(cp) /\ cp.row = n /\ CpOf(S, cp)
    BY <2>5, <2>6 DEF IsCp, CpOf
  <2>8. QED
    BY <2>7 DEF cp, m
<1>4. CASE ~(live.cp # None)
  <2>1. cp = [row |-> n, media |-> FALSE, rec |-> m.rec, carry |-> m.carry,
              tail |-> TailMean(m.mean, n)]
    BY <1>4 DEF CheckpointAt
  <2> HIDE DEF cp
  <2>2. IsCp(cp) /\ cp.row = n /\ CpOf(S, cp)
    BY <2>1, <1>2 DEF IsCp, CpOf
  <2>3. QED
    BY <2>2 DEF cp, m
<1>5. QED
  BY <1>3, <1>4

\* Whatever the memories hold, it is a checkpoint of the row asked for.
LEMMA CheckpointAtTyped ==
    ASSUME NEW m, NEW n \in Nat, live.cp # None => IsCp(live.cp)
    PROVE  IsCp(CheckpointAt(m, n))
<1> DEFINE cp == CheckpointAt(m, n)
<1>1. CASE live.cp # None /\ live.row = n
  <2> DEFINE old == live.cp
  <2>1. IsCp(old) /\ cp = [old EXCEPT !.media = FALSE]
    BY <1>1 DEF CheckpointAt
  <2> HIDE DEF old, cp
  <2>2. old = [row |-> old.row, media |-> old.media, rec |-> old.rec, carry |-> old.carry,
               tail |-> old.tail] /\ old.row \in Nat
    BY <2>1 DEF IsCp
  <2>3. cp = [row |-> old.row, media |-> FALSE, rec |-> old.rec, carry |-> old.carry,
              tail |-> old.tail]
    BY <2>1, <2>2
  <2>4. IsCp(cp)
    BY <2>2, <2>3 DEF IsCp
  <2>5. QED
    BY <2>4 DEF cp
<1>2. CASE ~(live.cp # None /\ live.row = n)
  <2>1. cp = [row |-> n, media |-> FALSE, rec |-> m.rec, carry |-> m.carry,
              tail |-> TailMean(m.mean, n)]
    BY <1>2, Zenon DEF CheckpointAt
  <2> HIDE DEF cp
  <2>2. IsCp(cp)
    BY <2>1 DEF IsCp
  <2>3. QED
    BY <2>2 DEF cp
<1>3. QED
  BY <1>1, <1>2

\* The first of a set of checkpoints.
LEMMA FirstFacts ==
    ASSUME NEW S, S # {}, \A e \in S : e.row \in Nat
    PROVE  First(S) \in S /\ \A f \in S : First(S).row <= f.row
<1> DEFINE rows == {e.row : e \in S}
<1>1. PICK m \in rows : \A x \in rows : m <= x
  <2>1. rows \in SUBSET Nat /\ rows # {}
    OBVIOUS
  <2> HIDE DEF rows
  <2>2. QED
    BY <2>1, LeastOfNats
<1>2. PICK e \in S : m = e.row
  OBVIOUS
<1>3. \A f \in S : e.row <= f.row
  BY <1>1, <1>2
<1>4. QED
  BY <1>3, Zenon DEF First

\* multimodal_remember keeps the checkpoint it is given and drops the later
\* ones: of a class of two or more it evicts one before the new one.
LEMMA RememberFacts ==
    ASSUME NEW S, IsFiniteSet(S), \A e \in S : e.row \in Nat, NEW cp, cp.row \in Nat
    PROVE  /\ IsFiniteSet(Remember(S, cp)) /\ cp \in Remember(S, cp)
           /\ \A e \in Remember(S, cp) : e = cp \/ (e \in S /\ e.row < cp.row)
<1> DEFINE below == {e \in S : e.row < cp.row}
           all == below \cup {cp}
           media == {e \in all : e.media}
           class == IF Cardinality(media) > MaxMedia THEN media ELSE all \ media
           gone == IF class = {} THEN all ELSE class
<1>1. /\ MaxMedia \in Nat \ {0} /\ MaxCheckpoints \in Nat /\ MaxMedia < MaxCheckpoints
  BY Sizes
<1>2. IsFiniteSet(all) /\ media \in SUBSET all /\ class \in SUBSET all
  <2>1. IsFiniteSet(below)
    BY FS_Subset
  <2>2. QED
    BY <2>1, FS_AddElement
<1>3. \A e \in all : e.row \in Nat /\ (e # cp => e \in S /\ e.row < cp.row)
  OBVIOUS
<1>4. Remember(S, cp) = IF Cardinality(all) <= MaxCheckpoints THEN all ELSE all \ {First(gone)}
  BY DEF Remember
<1>5. cp \in all
  OBVIOUS
<1> HIDE DEF all
<1>6. ASSUME ~(Cardinality(all) <= MaxCheckpoints) PROVE First(gone) # cp
  <2>1. IsFiniteSet(class) /\ IsFiniteSet(media)
    BY <1>2, FS_Subset
  <2>2. /\ Cardinality(all) \in Nat /\ Cardinality(media) \in Nat
        /\ Cardinality(all \ media) = Cardinality(all) - Cardinality(media)
    <3>1. Cardinality(all) \in Nat /\ Cardinality(media) \in Nat
      BY <1>2, <2>1, FS_CardinalityType
    <3>2. Cardinality(all \ media) = Cardinality(all) - Cardinality(all \cap media)
      BY <1>2, FS_Difference
    <3>3. all \cap media = media
      BY <1>2
    <3>4. QED
      BY <3>1, <3>2, <3>3
  <2>3. Cardinality(class) > 1
    <3>1. CASE Cardinality(media) > MaxMedia
      BY <3>1, <1>1, <2>2
    <3>2. CASE ~(Cardinality(media) > MaxMedia)
      <4>1. class = all \ media
        BY <3>2
      <4>2. Cardinality(all \ media) > 1
        BY <3>2, <1>1, <1>6, <2>2
      <4>3. QED
        BY <4>1, <4>2
    <3>3. QED
      BY <3>1, <3>2
  <2> HIDE DEF class
  <2>4. class # {} /\ class # {cp}
    <3>1. Cardinality({}) = 0 /\ Cardinality({cp}) = 1
      BY FS_EmptySet, FS_Singleton
    <3>2. QED
      BY <2>3, <3>1
  <2>5. PICK f \in class : f # cp
    BY <2>4
  <2>6. gone = class /\ \A e \in class : e.row \in Nat
    BY <1>2, <1>3, <2>4
  <2>7. First(gone) \in class /\ First(gone).row <= f.row
    BY <2>4, <2>5, <2>6, FirstFacts
  <2>8. f \in all /\ f.row \in Nat /\ f.row < cp.row
    BY <1>2, <1>3, <2>5
  <2>9. First(gone).row \in Nat
    BY <2>6, <2>7
  <2>10. QED
    BY <2>7, <2>8, <2>9
<1>7. IsFiniteSet(all \ {First(gone)})
  BY <1>2, FS_RemoveElement
<1>8. QED
  BY <1>2, <1>3, <1>4, <1>5, <1>6, <1>7

-----------------------------------------------------------------------------
(* The rows a request works with.                                          *)

\* The last image ends within the prompt.
LEMMA LastImageFacts ==
    ASSUME NEW p \in Seq(Tokens)
    PROVE  LastImageEnd(p) \in Nat
<1> DEFINE S == {0} \cup {i \in DOMAIN p : p[i] \in Images}
<1>1. Len(p) \in Nat /\ DOMAIN p = 1 .. Len(p)
  BY LenProperties
<1>2. S \in SUBSET Nat /\ S # {} /\ \A x \in S : x <= Len(p)
  BY <1>1
<1>3. LastImageEnd(p) = Max(S)
  BY DEF LastImageEnd
<1> HIDE DEF S
<1>4. QED
  BY <1>1, <1>2, <1>3, MaxOfNats

\* The query begins at or behind the base and no later than the rows evaluated.
LEMMA QueryRowFacts ==
    ASSUME IsTurn(turn), End \in Nat, turn.base.row \in Nat
    PROVE  /\ QueryRow \in Nat /\ QueryRow <= End
           /\ turn.base.row <= End => turn.base.row <= QueryRow
<1> DEFINE s == Min({turn.span[1], End})
           i == LastImageEnd(turn.prompt)
           m == Max({turn.base.row, s, i})
<1>1. turn.span[1] \in Nat /\ i \in Nat
  BY LastImageFacts DEF IsTurn
<1>2. s \in Nat
  BY <1>1, MinOfTwo
<1>3. QueryRow = Min({End, m})
  BY DEF QueryRow, End
<1> HIDE DEF s, i
<1>4. m \in {turn.base.row, s, i} /\ m >= turn.base.row
  <2>1. turn.base.row \in Int /\ s \in Int /\ i \in Int
    BY <1>1, <1>2
  <2>2. QED
    BY <2>1, MaxOfThree, Zenon
<1>5. m \in Nat
  BY <1>1, <1>2, <1>4
<1> HIDE DEF m
<1>6. QED
  BY <1>3, <1>4, <1>5, MinOfTwo

\* A base in reach is a checkpoint of rows the prompt shares with the cache.
LEMMA KeepRowsFacts ==
    ASSUME NEW p \in Seq(Tokens), NEW known \in Seq(Tokens) \cup {None}, live.row \in Nat,
           EvalEnd(p) \in Nat, NEW n \in Nat, n <= KeepRows(p, known)
    PROVE  n <= SharedRows(p, known) /\ n <= live.row /\ n <= EvalEnd(p)
<1> DEFINE e == EvalEnd(p) - (IF SpecOK THEN 0 ELSE 1)
           k == KeepRows(p, known)
<1>1. SharedRows(p, known) \in Nat
  BY CommonFacts, NoneApart DEF SharedRows
<1>2. e \in Int /\ e <= EvalEnd(p)
  OBVIOUS
<1>3. k = Min({SharedRows(p, known), live.row, e})
  BY DEF KeepRows
<1> HIDE DEF e, k
<1>4. /\ k \in {SharedRows(p, known), live.row, e}
      /\ k <= SharedRows(p, known) /\ k <= live.row /\ k <= e
  <2>1. SharedRows(p, known) \in Int /\ live.row \in Int /\ e \in Int
    BY <1>1, <1>2
  <2>2. QED
    BY <2>1, <1>3, MinOfThree, Zenon
<1>5. k \in Int /\ n <= k
  BY <1>1, <1>2, <1>4 DEF k
<1>6. QED
  BY <1>1, <1>2, <1>4, <1>5

\* The shared rows of a prompt are where it agrees with the conversation.
LEMMA SharedRowsFacts ==
    ASSUME NEW p \in Seq(Tokens), cached \in Seq(Tokens) \cup {None}
    PROVE  /\ SharedRows(p, cached) \in Nat /\ SharedRows(p, cached) <= Len(p)
           /\ SharedRows(p, cached) <= Len(Conversation)
           /\ Take(p, SharedRows(p, cached)) = Take(Conversation, SharedRows(p, cached))
<1>1. CASE cached = None
  <2>1. SharedRows(p, cached) = 0 /\ Conversation = <<>>
    BY <1>1 DEF SharedRows, Conversation
  <2>2. <<>> \in Seq(Tokens) /\ Len(<<>>) = 0 /\ Len(p) \in Nat
    BY EmptySeq, LenProperties
  <2>3. Take(p, 0) = <<>> /\ Take(<<>>, 0) = <<>>
    BY <2>2, TakeNone
  <2>4. QED
    BY <2>1, <2>2, <2>3
<1>2. CASE cached # None
  <2>1. cached \in Seq(Tokens)
    BY <1>2
  <2>2. SharedRows(p, cached) = Common(p, cached) /\ Conversation = cached
    BY <1>2 DEF SharedRows, Conversation
  <2>3. QED
    BY <2>1, <2>2, CommonFacts
<1>3. QED
  BY <1>1, <1>2

\* A batch is not empty, ends at or before the stage, and is one image or text.
LEMMA BatchFacts ==
    ASSUME turn.row \in Nat, StageEnd \in Nat, turn.row < StageEnd
    PROVE  /\ BatchEnd \in Nat /\ turn.row < BatchEnd /\ BatchEnd <= StageEnd
           /\ turn.prompt[turn.row + 1] \in Images => BatchEnd = turn.row + 1
           /\ turn.prompt[turn.row + 1] \notin Images =>
                 \A i \in turn.row + 1 .. BatchEnd : turn.prompt[i] \notin Images
<1> DEFINE p == turn.prompt
           next == turn.row + 1
           limit == Min({StageEnd, turn.row + BatchTokens})
           texts == {k \in next..limit : \A i \in next..k : p[i] \notin Images}
<1>1. BatchEnd = IF p[next] \in Images THEN next ELSE Max(texts)
  BY DEF BatchEnd
<1>2. CASE p[next] \in Images
  BY <1>1, <1>2
<1>3. CASE p[next] \notin Images
  <2>1. BatchTokens \in Nat \ {0}
    BY Sizes
  <2>2. turn.row + BatchTokens \in Nat /\ StageEnd \in Nat
    BY <2>1
  <2>3. limit \in Nat /\ next <= limit /\ limit <= StageEnd
    BY <2>1, <2>2, MinOfTwo
  <2> HIDE DEF limit
  <2>4. next \in texts
    BY <1>3, <2>3
  <2>5. texts \in SUBSET Nat /\ \A x \in texts : x <= limit /\ next <= x
    BY <2>3
  <2>6. \A x \in texts : \A i \in next..x : p[i] \notin Images
    OBVIOUS
  <2> HIDE DEF texts
  <2>7. Max(texts) \in texts
    BY <2>3, <2>4, <2>5, MaxOfNats
  <2>8. BatchEnd \in texts
    BY <1>1, <1>3, <2>7
  <2> HIDE DEF p
  <2>9. BatchEnd \in Nat /\ BatchEnd <= limit /\ next <= BatchEnd
    BY <2>5, <2>8
  <2>10. turn.row < BatchEnd /\ BatchEnd <= StageEnd
    BY <2>3, <2>9
  <2>11. \A i \in next .. BatchEnd : p[i] \notin Images
    BY <2>6, <2>8
  <2>12. QED
    BY <1>3, <2>9, <2>10, <2>11 DEF p
<1>4. QED
  BY <1>2, <1>3

-----------------------------------------------------------------------------
(* The invariant holds at the start and after every step.                  *)

\* Nothing was ever evaluated, or everything was cleared.
Empty ==
    /\ mem = Holding(<<>>) /\ cps = {} /\ cached = None /\ query = None
    /\ live.row = 0 /\ AtRow(<<>>, 0)

\* The empty sequence of rows.
LEMMA NoRows ==
    /\ <<>> \in Seq(Tokens) /\ Len(<<>>) = 0 /\ Take(<<>>, 0) = <<>>
    /\ \A S \in Seq(Tokens) : Take(S, 0) = <<>>
  BY EmptySeq, TakeNone

\* Memories without a row are as they are between requests.
LEMMA EmptyBetween == Empty => Between
<1> SUFFICES ASSUME Empty PROVE Between
  OBVIOUS
<1>1. Conversation = <<>>
  BY DEF Empty, Conversation
<1>2. 0 <= MaxRows
  BY Sizes
<1>3. QED
  BY <1>1, <1>2, NoRows DEF Empty, Between

\* What depends only on the setup does not change.
LEMMA SameSetup ==
    ASSUME setup' = setup
    PROVE  /\ SpecOK' = SpecOK
           /\ \A R : Holding(R)' = Holding(R) /\ OfDraft(R)' = OfDraft(R)
           /\ \A p : EvalEnd(p)' = EvalEnd(p)
           /\ \A S, e : CpOf(S, e)' <=> CpOf(S, e)
  BY DEF Holding, OfDraft, EvalEnd, CpOf, SpecOK

\* The locals of a handler that does not run.
LEMMA NoTurnFacts ==
    /\ IsTurn(NoTurn) /\ NoTurn.prompt = <<>> /\ NoTurn.gen = <<>> /\ NoTurn.pending = None
    /\ NoTurn.span = <<0, 0>>
<1>1. <<>> \in Seq(Tokens)
  BY NoRows
<1>2. QED
  BY <1>1 DEF NoTurn, IsTurn

\* The server starts in the invariant.
LEMMA InitTurn == Init => TurnInv
<1> SUFFICES ASSUME Init PROVE TurnInv
  OBVIOUS
<1>1. StateTypes
  <2>1. IsMem(mem) /\ IsTurn(turn)
    BY NoRows, HoldingFacts, NoTurnFacts DEF Init
  <2>2. IsFiniteSet(cps)
    BY FS_EmptySet DEF Init
  <2>3. QED
    BY <2>1, <2>2 DEF Init, StateTypes, NoLive
<1>2. RequestTypes
  BY NoTurnFacts DEF Init, RequestTypes, Serving, Evaluating
<1>3. Empty
  BY DEF Init, Empty, NoLive, AtRow
<1>4. HeldInv
  BY <1>3, EmptyBetween
  DEF Init, HeldInv, BetweenInv, ClearedInv, UndoInv, FailedInv, BaseInv, PrefixInv, SuffixInv,
      ReplyInv, PendingInv, Serving, Evaluating
<1>5. QED
  BY <1>1, <1>2, <1>4 DEF TurnInv

\* handle_chat: a request is accepted.
LEMMA AcceptTurn ==
    ASSUME TurnInv, NEW p \in setup.prompts, NEW q \in setup.spans, NEW reset \in BOOLEAN,
           Accept(p, q, reset)
    PROVE  TurnInv'
<1>1. setup \in Setups /\ mem.kv \in Seq(Tokens) /\ rollback = None /\ pc = "idle"
  BY DEF TurnInv, StateTypes, RequestTypes, IsMem, Accept
<1>2. p \in Seq(Tokens) /\ EvalEnd(p) \in Nat /\ setup.reply \in Nat
  BY <1>1, PromptFacts
<1>3. q[1] \in Nat /\ q[2] \in Nat
  BY <1>1, ServerTurnAssumption
<1> DEFINE span == <<Min({q[1], EvalEnd(p)}), Min({q[2], EvalEnd(p)})>>
<1>4. span \in Nat \X Nat /\ span[2] <= EvalEnd(p)
  BY <1>2, <1>3, MinOfTwo
<1>5. turn' = [NoTurn EXCEPT !.prompt = p, !.reset = reset, !.before = mem.kv, !.span = span]
  BY DEF Accept
<1> HIDE DEF span
<1>6. turn' = [prompt |-> p, span |-> span, reset |-> reset, base |-> None,
               qrow |-> 0, row |-> 0, suffix |-> None, pending |-> None, reuse |-> FALSE,
               gen |-> <<>>, before |-> mem.kv]
  BY <1>5 DEF NoTurn
<1>7. IsTurn(turn')
  BY <1>1, <1>2, <1>4, <1>6, NoRows DEF IsTurn
<1>8. /\ setup' = setup /\ lost' = lost /\ mem' = mem /\ cps' = cps /\ live' = live
      /\ cached' = cached /\ rollback' = rollback /\ committed' = committed /\ query' = query
      /\ pc' = "select"
  BY DEF Accept, fixed
<1>9. StateTypes'
  BY <1>7, <1>8 DEF TurnInv, StateTypes
<1>10. RequestTypes'
  BY <1>1, <1>2, <1>4, <1>6, <1>8, NoRows, SameSetup
  DEF TurnInv, RequestTypes, Serving, Evaluating, End
<1>11. ASSUME ~lost' PROVE HeldInv'
  <2>1. Between
    BY <1>1, <1>8, <1>11 DEF TurnInv, HeldInv, BetweenInv
  <2>2. Between'
    BY <2>1, <1>8, SameSetup DEF Between, Conversation, AtRow
  <2>3. QED
    BY <2>2, <1>8
    DEF HeldInv, BetweenInv, ClearedInv, UndoInv, FailedInv, BaseInv, PrefixInv, SuffixInv,
        ReplyInv, PendingInv, Serving, Evaluating
<1>12. QED
  BY <1>9, <1>10, <1>11 DEF TurnInv

\* A cold start that fails leaves everything cleared.
LEMMA ClearThenFailTurn ==
    ASSUME TurnInv, ClearThenFail
    PROVE  TurnInv'
<1>1. pc = "select" /\ rollback = None
  BY DEF TurnInv, RequestTypes, ClearThenFail
<1>2. /\ setup' = setup /\ lost' = FALSE /\ mem' = Holding(<<>>) /\ cps' = {} /\ cached' = None
      /\ query' = None /\ live' = NoLive /\ pc' = "failed"
      /\ rollback' = rollback /\ committed' = committed /\ turn' = turn
  BY DEF ClearThenFail, Fail
<1>3. StateTypes'
  <2>1. IsMem(mem') /\ IsFiniteSet(cps')
    BY <1>2, NoRows, HoldingFacts, FS_EmptySet
  <2>2. QED
    BY <1>2, <2>1 DEF TurnInv, StateTypes, NoLive
<1>4. RequestTypes'
  BY <1>1, <1>2, SameSetup DEF TurnInv, RequestTypes, Serving, Evaluating, End
<1>5. ClearedInv'
  BY <1>2, SameSetup DEF ClearedInv, NoLive
<1>6. HeldInv'
  BY <1>1, <1>2, <1>5
  DEF HeldInv, BetweenInv, UndoInv, FailedInv, BaseInv, PrefixInv, SuffixInv,
      ReplyInv, PendingInv, Serving, Evaluating
<1>7. QED
  BY <1>3, <1>4, <1>6 DEF TurnInv

\* The checkpoint of no rows, which a cold start begins from.
LEMMA FirstCheckpoint ==
    LET first == [row |-> 0, media |-> FALSE, rec |-> <<>>, carry |-> <<>>, tail |-> None]
    IN  IsCp(first) /\ CpOf(<<>>, first) /\ first.row = 0 /\ first \in Checkpoint
<1> DEFINE first == [row |-> 0, media |-> FALSE, rec |-> <<>>, carry |-> <<>>, tail |-> None]
<1>1. IsCp(first) /\ first.row = 0
  BY DEF IsCp
<1>2. BlockTokens \in Nat \ {0}
  BY Sizes
<1>3. 0 % BlockTokens = 0
  BY <1>2
<1>4. CpOf(<<>>, first)
  BY <1>3, NoRows DEF CpOf, OfDraft, TailMean
<1>5. first \in Checkpoint
  <2>1. 0 <= MaxRows
    BY Sizes
  <2> HIDE DEF first
  <2>2. QED
    BY <1>1, <1>4, <2>1, NoRows, CpOfTyped
<1>6. QED
  BY <1>1, <1>4, <1>5

\* A smaller addend stays within the bound.
LEMMA SumWithin ==
    ASSUME NEW a \in Nat, NEW b \in Nat, NEW c \in Nat, NEW m \in Nat, b <= c, a + c <= m
    PROVE  a + b <= m
  OBVIOUS

\* What the invariant says of a request that has been accepted.
LEMMA RequestFacts ==
    ASSUME TurnInv, pc # "idle"
    PROVE  /\ turn.prompt \in Seq(Tokens) /\ Len(turn.prompt) \in Nat
           /\ End \in Nat /\ End <= Len(turn.prompt) /\ End + Len(turn.gen) <= MaxRows
           /\ End = IF SpecOK THEN Len(turn.prompt) - 1 ELSE Len(turn.prompt)
           /\ Len(turn.prompt) + Len(turn.gen) <= MaxRows
           /\ Len(turn.gen) \in Nat /\ turn.gen \in Seq(Tokens)
           /\ turn.prompt \in setup.prompts /\ setup \in Setups
<1>1. setup \in Setups /\ turn.prompt \in setup.prompts /\ Len(turn.gen) <= setup.reply
      /\ turn.gen \in Seq(Tokens)
  BY DEF TurnInv, StateTypes, RequestTypes, IsTurn
<1>2. Len(turn.gen) \in Nat
  BY <1>1, LenProperties
<1>3. /\ turn.prompt \in Seq(Tokens) /\ Len(turn.prompt) \in Nat /\ Len(turn.prompt) > 1
      /\ setup.reply \in Nat /\ Len(turn.prompt) + setup.reply <= MaxRows
      /\ End \in Nat /\ End = IF SpecOK THEN Len(turn.prompt) - 1 ELSE Len(turn.prompt)
  BY <1>1, PromptFacts DEF End
<1>4. MaxRows \in Nat
  BY Sizes
<1>5. Len(turn.prompt) + Len(turn.gen) <= MaxRows
  BY <1>1, <1>2, <1>3, <1>4, SumWithin
<1>6. End <= Len(turn.prompt)
  BY <1>3
<1>7. End + Len(turn.gen) <= MaxRows
  <2>1. Len(turn.prompt) \in Nat /\ End \in Nat
    BY <1>3
  <2> DEFINE g == Len(turn.gen)
             l == Len(turn.prompt)
             e == End
  <2>2. g \in Nat /\ l \in Nat /\ e \in Nat /\ MaxRows \in Nat
    BY <1>2, <1>4, <2>1
  <2>3. l + g <= MaxRows /\ e <= l
    BY <1>5, <1>6
  <2> HIDE DEF g, l, e
  <2>4. e + g <= MaxRows
    BY <2>2, <2>3
  <2>5. QED
    BY <2>4 DEF g, e
<1>8. QED
  BY <1>1, <1>2, <1>3, <1>5, <1>6, <1>7

\* The base is a checkpoint of rows the prompt begins with, or a cold start.
LEMMA SelectBaseTurn ==
    ASSUME TurnInv, SelectBase
    PROVE  TurnInv'
<1> DEFINE p == turn.prompt
           usable == IF turn.reset THEN {} ELSE Usable(cps, KeepRows(p, cached))
           best == CHOOSE e \in usable : \A f \in usable : f.row <= e.row
           first == [row |-> 0, media |-> FALSE, rec |-> <<>>, carry |-> <<>>, tail |-> None]
<1>1. pc = "select" /\ pc' = "restore" /\ committed' = FALSE /\ setup' = setup
  BY DEF SelectBase
<1>2. /\ turn.prompt \in Seq(Tokens) /\ End \in Nat /\ setup \in Setups
      /\ StateTypes /\ RequestTypes /\ IsTurn(turn) /\ live.row \in Nat
      /\ cached \in Seq(Tokens) \cup {None} /\ turn.gen = <<>> /\ turn.before = mem.kv
  BY <1>1, RequestFacts DEF TurnInv, StateTypes, RequestTypes
<1>3. CASE usable # {}
  <2>1. /\ turn' = [turn EXCEPT !.base = best]
        /\ rollback' = [cp |-> best, prompt |-> IF cached = None THEN None ELSE Take(cached, best.row)]
        /\ lost' = lost /\ mem' = mem /\ cps' = cps /\ live' = live /\ cached' = cached
        /\ query' = query
    BY <1>3 DEF SelectBase
  <2>2. /\ \A e \in usable : e \in cps /\ e.row <= KeepRows(p, cached)
        /\ \A e \in usable : IsCp(e) /\ e.row \in Nat
    BY <1>2 DEF Usable, StateTypes, IsCp
  <2>3. \A e \in usable : e.row <= SharedRows(p, cached) /\ e.row <= live.row /\ e.row <= End
    BY <1>2, <2>2, KeepRowsFacts DEF End
  <2>4. best \in usable
    <3> HIDE DEF usable
    <3> DEFINE rows == {e.row : e \in usable}
    <3>1. rows \in SUBSET Nat /\ rows # {} /\ \A x \in rows : x <= live.row
      BY <1>3, <2>2, <2>3
    <3>2. PICK m \in rows : \A x \in rows : x <= m
      <4> HIDE DEF rows
      <4>1. QED
        BY <1>2, <3>1, GreatestOfNats
    <3>3. \E e \in usable : \A f \in usable : f.row <= e.row
      BY <3>2
    <3>4. QED
      BY <3>3
  <2> HIDE DEF usable, best
  <2> DEFINE r == best.row
  <2>5. /\ best \in cps /\ IsCp(best) /\ r \in Nat /\ r <= SharedRows(p, cached)
        /\ r <= live.row /\ r <= End
    BY <2>2, <2>3, <2>4
  <2>6. turn' = [prompt |-> p, span |-> turn.span, reset |-> turn.reset, base |-> best,
                 qrow |-> turn.qrow, row |-> turn.row, suffix |-> turn.suffix,
                 pending |-> turn.pending, reuse |-> turn.reuse, gen |-> turn.gen,
                 before |-> turn.before]
    BY <1>2, <2>1 DEF IsTurn
  <2>7. IsTurn(turn')
    BY <1>2, <2>6 DEF IsTurn
  <2>8. StateTypes'
    BY <1>1, <1>2, <2>1, <2>7 DEF StateTypes, Serving
  <2>9. rollback'.prompt \in Seq(Tokens) \cup {None}
    BY <1>2, <2>1, <2>5, TakeFacts
  <2>10. RequestTypes'
    BY <1>1, <1>2, <2>1, <2>5, <2>6, <2>9, SameSetup DEF RequestTypes, End
  <2>11. ASSUME ~lost' PROVE HeldInv'
    <3>1. Between
      BY <1>1, <2>1, <2>11 DEF TurnInv, HeldInv, BetweenInv
    <3>2. Between'
      BY <1>1, <2>1, <3>1, SameSetup DEF Between, Conversation, AtRow
    <3> DEFINE C == Conversation
               B == Take(C, r)
    <3>3. C \in Seq(Tokens) /\ Len(C) \in Nat /\ live.row <= Len(C) /\ Len(C) <= MaxRows
      <4>1. C \in Seq(Tokens)
        BY <1>2, NoRows DEF Conversation
      <4>2. QED
        BY <4>1, <3>1, LenProperties DEF Between
    <3>4. r <= Len(C) /\ r <= MaxRows
      BY <1>2, <2>5, <3>3, Sizes
    <3>5. B \in Seq(Tokens) /\ Len(B) = r /\ Take(B, r) = B
      BY <2>5, <3>3, <3>4, TakeFacts, TakeAll
    <3>6. Found' = B
      <4>1. CASE cached = None
        <5>1. SharedRows(p, cached) = 0
          BY <4>1 DEF SharedRows
        <5>2. r = 0
          BY <2>5, <5>1
        <5>3. C = <<>>
          BY <4>1 DEF Conversation
        <5>4. B = <<>>
          BY <5>2, <5>3, NoRows
        <5>5. QED
          BY <4>1, <2>1, <5>4 DEF Found
      <4>2. CASE cached # None
        <5>1. rollback'.prompt = B
          BY <4>2, <2>1 DEF Conversation
        <5>2. B # None
          BY <3>5, NoneApart
        <5>3. QED
          BY <5>1, <5>2 DEF Found
      <4>3. QED
        BY <4>1, <4>2
    <3>7. CpOf(C, best) /\ \A e \in cps : CpOf(C, e) /\ IsCp(e)
      BY <1>2, <2>5, <3>1 DEF Between, StateTypes
    <3> HIDE DEF C, B
    <3>8. Take(C, r) = Take(B, r)
      BY <3>5 DEF B
    <3>9. \A e \in cps : e.row <= r => CpOf(B, e)
      BY <2>5, <3>3, <3>5, <3>7, <3>8, CpOfPrefix
    <3>10. CpOf(B, best)
      <4>1. r <= r
        BY <2>5
      <4>2. QED
        BY <2>5, <3>9, <4>1
    <3>11. mem.kv = Take(C, live.row) /\ mem.kv \in Seq(Tokens)
      BY <1>2, <3>1, <3>3, TakeFacts, HoldingFacts DEF Between, C
    <3>12. r <= Len(mem.kv) /\ Take(mem.kv, r) = B
      <4>1. Len(mem.kv) = live.row
        BY <1>2, <3>3, <3>11, TakeFacts
      <4>2. Take(Take(C, live.row), r) = Take(C, r)
        BY <1>2, <2>5, <3>3, TakeOfTake
      <4>3. QED
        BY <2>5, <3>11, <4>1, <4>2 DEF B
    <3>13. /\ rollback'.cp = best /\ turn'.base = best /\ turn'.before = mem.kv
           /\ turn'.prompt = p
      BY <1>2, <2>1, <2>6
    <3>14. UndoInv'
      <4>1. \A e \in cps : e.row < r => CpOf(B, e)
        BY <1>2, <2>5, <3>9 DEF StateTypes, IsCp
      <4>2. QED
        BY <1>1, <2>1, <3>4, <3>5, <3>6, <3>10, <3>12, <3>13, <4>1, SameSetup DEF UndoInv
    <3>15. rollback' # None
      <4>1. best \in Checkpoint
        BY <2>5, <3>3, <3>4, <3>7, CpOfTyped
      <4>2. rollback' \in Rollback
        BY <2>1, <2>9, <4>1 DEF Rollback
      <4>3. QED
        BY <4>2, NoneApart
    <3>16. BaseInv'
      <4>1. Conversation' = C
        BY <2>1 DEF Conversation, C
      <4>2. Found' = Take(Conversation', r)
        BY <3>6, <4>1 DEF B
      <4>3. QED
        BY <1>1, <2>1, <2>5, <3>13, <3>15, <4>2, SameSetup DEF BaseInv, Evaluating, End
    <3>17. QED
      BY <1>1, <3>2, <3>14, <3>16
      DEF HeldInv, BetweenInv, ClearedInv, FailedInv, PrefixInv, SuffixInv, ReplyInv, PendingInv,
          Evaluating
  <2>12. QED
    BY <2>8, <2>10, <2>11 DEF TurnInv
<1>4. CASE ~(usable # {})
  <2>1. /\ mem' = Holding(<<>>) /\ cps' = {} /\ cached' = None /\ query' = None
        /\ lost' = FALSE
        /\ live' = [row |-> 0, cp |-> first]
        /\ turn' = [turn EXCEPT !.base = first]
        /\ rollback' = [cp |-> first, prompt |-> None]
    BY <1>4 DEF SelectBase
  <2>2. IsCp(first) /\ CpOf(<<>>, first) /\ first.row = 0 /\ first \in Checkpoint
    BY FirstCheckpoint
  <2> HIDE DEF first, usable
  <2>3. turn' = [prompt |-> p, span |-> turn.span, reset |-> turn.reset, base |-> first,
                 qrow |-> turn.qrow, row |-> turn.row, suffix |-> turn.suffix,
                 pending |-> turn.pending, reuse |-> turn.reuse, gen |-> turn.gen,
                 before |-> turn.before]
    BY <1>2, <2>1 DEF IsTurn
  <2>4. IsTurn(turn')
    BY <1>2, <2>3 DEF IsTurn
  <2>5. IsMem(mem') /\ IsFiniteSet(cps')
    BY <2>1, NoRows, HoldingFacts, FS_EmptySet
  <2>6. StateTypes'
    BY <1>1, <1>2, <2>1, <2>2, <2>4, <2>5 DEF StateTypes, Serving
  <2>7. RequestTypes'
    BY <1>1, <1>2, <2>1, <2>2, <2>3, SameSetup DEF RequestTypes, End
  <2>8. Empty'
    BY <1>1, <2>1, <2>2, SameSetup DEF Empty, AtRow
  <2>9. Between'
    BY <2>8, EmptyBetween, PTL
  <2>10. rollback' # None /\ Found' = <<>>
    <3>1. rollback' \in Rollback
      BY <2>1, <2>2 DEF Rollback
    <3>2. QED
      BY <2>1, <3>1, NoneApart DEF Found
  <2>11. UndoInv'
    <3>1. mem.kv \in Seq(Tokens)
      BY <1>2 DEF StateTypes, IsMem
    <3>2. 0 <= Len(mem.kv) /\ Take(mem.kv, 0) = <<>>
      BY <3>1, LenProperties, TakeNone
    <3>3. turn'.before = mem.kv /\ rollback'.cp = first /\ 0 <= MaxRows
      BY <1>2, <2>1, <2>3, Sizes
    <3>4. QED
      BY <1>1, <2>1, <2>2, <2>10, <3>2, <3>3, NoRows, SameSetup DEF UndoInv
  <2>12. SharedRows(p, cached') = 0
    BY <2>1 DEF SharedRows
  <2>13. BaseInv'
    <3>1. turn'.base = first /\ rollback'.cp = first /\ turn'.prompt = p
      BY <2>1, <2>3
    <3>2. Conversation' = <<>> /\ live'.row = 0 /\ Take(<<>>, 0) = <<>>
      BY <2>1, NoRows DEF Conversation
    <3>3. QED
      BY <1>1, <1>2, <2>2, <2>10, <2>12, <3>1, <3>2, SameSetup DEF BaseInv, Evaluating, End
  <2>14. QED
    BY <1>1, <2>6, <2>7, <2>9, <2>11, <2>13
    DEF TurnInv, HeldInv, BetweenInv, ClearedInv, FailedInv, PrefixInv, SuffixInv, ReplyInv,
        PendingInv, Evaluating
<1>5. QED
  BY <1>3, <1>4

\* The parts of the invariant that hold unless a rollback failed.
LEMMA HeldFacts ==
    ASSUME TurnInv, ~lost
    PROVE  /\ BetweenInv /\ ClearedInv /\ UndoInv /\ FailedInv /\ BaseInv
           /\ PrefixInv /\ SuffixInv /\ ReplyInv /\ PendingInv
           /\ StateTypes /\ RequestTypes
  BY DEF TurnInv, HeldInv

\* What is known of the base and of the rows it goes back to.
LEMMA BaseFacts ==
    ASSUME TurnInv, ~lost, pc \in Serving
    PROVE  /\ rollback # None /\ turn.base = rollback.cp /\ IsCp(rollback.cp)
           /\ rollback.cp.row \in Nat /\ rollback.cp.row <= End
           /\ rollback.cp # None
           /\ Found \in Seq(Tokens) /\ Len(Found) = rollback.cp.row
           /\ CpOf(Found, rollback.cp) /\ Take(Found, rollback.cp.row) = Found
           /\ rollback.cp.rec = Found /\ rollback.cp.carry = OfDraft(Found)
           /\ pc \in Evaluating => Found = Take(turn.prompt, rollback.cp.row)
<1>1. UndoInv /\ BaseInv /\ RequestTypes
  BY HeldFacts
<1>2. rollback # None /\ turn.base = rollback.cp /\ rollback.cp.row <= End
      /\ (pc \in Evaluating => Found = Take(turn.prompt, rollback.cp.row))
  BY <1>1 DEF BaseInv
<1>3. IsCp(rollback.cp) /\ rollback.cp.row \in Nat /\ rollback.prompt \in Seq(Tokens) \cup {None}
  BY <1>1, <1>2 DEF RequestTypes, IsCp
<1>4. Found \in Seq(Tokens)
  BY <1>3, NoRows DEF Found
<1>5. Len(Found) = rollback.cp.row /\ CpOf(Found, rollback.cp) /\ rollback.cp.row <= MaxRows
  BY <1>1, <1>2 DEF UndoInv
<1>6. Take(Found, rollback.cp.row) = Found
  BY <1>3, <1>4, <1>5, TakeAll
<1>7. rollback.cp.rec = Found /\ rollback.cp.carry = OfDraft(Found)
  BY <1>5, <1>6 DEF CpOf
<1>8. rollback.cp # None
  BY <1>3, <1>4, <1>5, CpOfTyped
<1>9. QED
  BY <1>2, <1>3, <1>4, <1>5, <1>6, <1>7, <1>8

\* Memories that hold rows of a sequence that begins with the base's can be
\* taken back to the base.
LEMMA UndoableRows ==
    ASSUME TurnInv, ~lost, pc \in Serving,
           NEW S \in Seq(Tokens), NEW a \in Nat, NEW b \in Nat,
           Take(S, rollback.cp.row) = Found, rollback.cp.row <= a, rollback.cp.row <= b,
           mem.kv = Take(S, a), mem.rec = Take(S, a), mem.carry = OfDraft(Take(S, a)),
           mem.draft = OfDraft(Take(S, a)), mem.store = Take(S, b), mem.mean = MeansOf(Take(S, b)),
           live.row = a \/ live.cp = None
    PROVE  Undoable
<1>1. /\ rollback.cp.row \in Nat /\ rollback.cp # None
      /\ rollback.cp.rec = Found /\ rollback.cp.carry = OfDraft(Found)
  BY BaseFacts
<1>2. Take(mem.kv, rollback.cp.row) = Found /\ Take(mem.store, rollback.cp.row) = Found
  BY <1>1, TakeOfTake
<1>3. ASSUME live = [row |-> rollback.cp.row, cp |-> rollback.cp]
      PROVE  mem.rec = rollback.cp.rec /\ mem.carry = rollback.cp.carry
  <2>1. live.row = rollback.cp.row /\ live.cp = rollback.cp
    BY <1>3
  <2>2. a = rollback.cp.row
    BY <1>1, <2>1
  <2>3. QED
    BY <1>1, <2>2
<1>4. QED
  BY <1>2, <1>3 DEF Undoable

\* The rows of a prompt and its reply.
LEMMA TextFacts ==
    ASSUME TurnInv, pc # "idle"
    PROVE  /\ Text(turn.gen) \in Seq(Tokens)
           /\ Len(Text(turn.gen)) = Len(turn.prompt) + Len(turn.gen)
           /\ \A n \in Nat : n <= Len(turn.prompt) => Take(Text(turn.gen), n) = Take(turn.prompt, n)
<1>1. turn.prompt \in Seq(Tokens) /\ turn.gen \in Seq(Tokens)
  BY RequestFacts
<1>2. QED
  BY <1>1, ConcatProperties, TakeOfConcat DEF Text

\* What the memories hold during a replay.
LEMMA ReplayingFacts ==
    ASSUME NEW S \in Seq(Tokens), NEW row \in Nat, NEW end \in Nat
    PROVE  LET m == Replaying(S, row, end)
           IN  /\ IsMem(m) /\ m.kv = Take(S, row) /\ m.rec = Take(S, row)
               /\ m.store = Take(S, end) /\ m.mean = MeansOf(Take(S, end))
               /\ m.draft = OfDraft(Take(S, row)) /\ m.carry = OfDraft(Take(S, row))
<1> DEFINE m == Replaying(S, row, end)
<1>1. m = [kv |-> Take(S, row), store |-> Take(S, end), rec |-> Take(S, row),
           mean |-> MeansOf(Take(S, end)),
           draft |-> OfDraft(Take(S, row)), carry |-> OfDraft(Take(S, row))]
  BY ReplayingIs
<1>2. Take(S, row) \in Seq(Tokens) /\ Take(S, end) \in Seq(Tokens)
  BY TakeFacts
<1> HIDE DEF m
<1>3. IsMem(m) /\ m.kv = Take(S, row) /\ m.rec = Take(S, row)
      /\ m.store = Take(S, end) /\ m.mean = MeansOf(Take(S, end))
      /\ m.draft = OfDraft(Take(S, row)) /\ m.carry = OfDraft(Take(S, row))
  BY <1>1, <1>2 DEF IsMem
<1>4. QED
  BY <1>3 DEF m

\* At every point of a request the memories can be taken back to its base.
LEMMA ServingUndoable ==
    ASSUME TurnInv, ~lost, pc \in Serving
    PROVE  Undoable
<1> DEFINE p == turn.prompt
           r == rollback.cp.row
<1>1. /\ BetweenInv /\ UndoInv /\ BaseInv /\ PrefixInv /\ SuffixInv /\ ReplyInv
      /\ StateTypes /\ RequestTypes
  BY HeldFacts
<1>2. /\ p \in Seq(Tokens) /\ End \in Nat /\ Len(turn.gen) \in Nat /\ r \in Nat /\ r <= End
      /\ turn.base = rollback.cp /\ Take(Found, r) = Found
      /\ turn.row \in Nat /\ turn.qrow \in Nat /\ live.row \in Nat
      /\ End <= Len(p)
  BY <1>1, RequestFacts, BaseFacts DEF StateTypes, IsTurn, Serving, Evaluating
<1>3. ASSUME pc \in Evaluating PROVE Take(p, r) = Found
  BY <1>3, BaseFacts
<1>4. ASSUME NEW S \in Seq(Tokens), NEW a \in Nat, mem = Holding(Take(S, a)), r <= a,
             Take(S, r) = Found, live.row = a \/ live.cp = None
      PROVE  Undoable
  <2>1. Take(S, a) \in Seq(Tokens)
    BY TakeFacts
  <2> DEFINE R == Take(S, a)
  <2>2. /\ mem.kv = R /\ mem.rec = R /\ mem.carry = OfDraft(R) /\ mem.draft = OfDraft(R)
        /\ mem.store = R /\ mem.mean = MeansOf(R)
    BY <1>4, <2>1, HoldingFacts
  <2>3. QED
    BY <1>2, <1>4, <2>2, UndoableRows
<1>5. CASE pc = "restore"
  <2> DEFINE C == Conversation
  <2>1. C \in Seq(Tokens)
    BY <1>1, NoRows DEF StateTypes, Conversation
  <2>2. mem = Holding(Take(C, live.row)) /\ r <= live.row /\ Take(C, r) = Found
    BY <1>1, <1>2, <1>5 DEF BetweenInv, Between, BaseInv
  <2>3. QED
    BY <1>2, <1>4, <2>1, <2>2
<1>6. CASE pc = "path"
  <2>1. mem = Holding(Take(p, r)) /\ live.row = r
    BY <1>1, <1>2, <1>6 DEF PrefixInv, AtRow
  <2>2. r <= r /\ Take(p, r) = Found
    BY <1>2, <1>3, <1>6 DEF Evaluating
  <2>3. QED
    BY <1>2, <1>4, <2>1, <2>2
<1>7. CASE pc \in {"prefix", "suffix", "again"}
  <2>1. mem = Holding(Take(p, turn.row)) /\ live.row = turn.row
    BY <1>1, <1>7 DEF PrefixInv, SuffixInv, AtRow
  <2>2. r <= turn.row
    <3>1. CASE pc = "prefix"
      BY <1>1, <1>2, <3>1 DEF PrefixInv
    <3>2. CASE pc # "prefix"
      <4>1. turn.qrow <= turn.row /\ turn.qrow = QueryRow
        BY <1>1, <1>7, <3>2 DEF SuffixInv, BaseInv, Serving, Evaluating
      <4>2. r <= QueryRow
        BY <1>1, <1>2, QueryRowFacts DEF StateTypes
      <4>3. QED
        BY <1>2, <4>1, <4>2
    <3>3. QED
      BY <3>1, <3>2
  <2>3. Take(p, r) = Found
    BY <1>3, <1>7 DEF Evaluating
  <2>4. QED
    BY <1>2, <1>4, <2>1, <2>2, <2>3
<1>8. CASE pc = "replay"
  <2>1. mem = Replaying(p, turn.row, End) /\ live.row = turn.row
        /\ turn.qrow <= turn.row /\ turn.qrow = QueryRow
    BY <1>1, <1>8 DEF SuffixInv, BaseInv, AtRow, Serving, Evaluating
  <2>2. r <= QueryRow
    BY <1>1, <1>2, QueryRowFacts DEF StateTypes
  <2>3. r <= turn.row
    BY <1>2, <2>1, <2>2
  <2>4. Take(p, r) = Found
    BY <1>3, <1>8 DEF Evaluating
  <2>5. /\ mem.kv = Take(p, turn.row) /\ mem.rec = Take(p, turn.row)
        /\ mem.store = Take(p, End) /\ mem.mean = MeansOf(Take(p, End))
        /\ mem.draft = OfDraft(Take(p, turn.row)) /\ mem.carry = OfDraft(Take(p, turn.row))
    BY <1>2, <2>1, ReplayingFacts
  <2>6. QED
    BY <1>2, <2>1, <2>3, <2>4, <2>5, UndoableRows
<1>9. CASE pc = "capture"
  <2>1. mem = Holding(Take(p, End)) /\ live.row = End
    BY <1>1, <1>9 DEF ReplyInv, AtRow
  <2>2. Take(p, r) = Found
    BY <1>3, <1>9 DEF Evaluating
  <2>3. QED
    BY <1>2, <1>4, <2>1, <2>2
<1>10. CASE pc = "generate"
  <2>1. mem = Holding(Take(Text(turn.gen), End + Len(turn.gen))) /\ live.cp = None
    BY <1>1, <1>10 DEF ReplyInv, HoldsPrompt, End
  <2>2. Take(p, r) = Found
    BY <1>3, <1>10 DEF Evaluating
  <2>3. r <= Len(p) /\ Len(p) \in Nat
    BY <1>2, LenProperties
  <2>4. Text(turn.gen) \in Seq(Tokens) /\ Take(Text(turn.gen), r) = Found
    BY <1>2, <1>10, <2>2, <2>3, TextFacts
  <2>5. End + Len(turn.gen) \in Nat /\ r <= End + Len(turn.gen)
    BY <1>2
  <2>6. QED
    BY <1>4, <2>1, <2>4, <2>5
<1>11. QED
  BY <1>5, <1>6, <1>7, <1>8, <1>9, <1>10 DEF Serving, Evaluating

\* Steps within a request leave what it goes back to.
LEMMA UndoFrame ==
    ASSUME TurnInv, ~lost, pc \in Serving, setup' = setup, rollback' = rollback,
           turn'.before = turn.before,
           \A e \in cps' : e.row < rollback.cp.row => e \in cps
    PROVE  UndoInv' /\ Found' = Found
<1>1. UndoInv /\ rollback # None
  BY HeldFacts, BaseFacts
<1>2. Found' = Found
  BY DEF Found
<1>3. QED
  BY <1>1, <1>2, SameSetup DEF UndoInv

\* The query row and the save points are the same all through a request.
LEMMA SameQueryRow ==
    ASSUME setup' = setup, turn'.prompt = turn.prompt, turn'.base = turn.base,
           turn'.span = turn.span
    PROVE  QueryRow' = QueryRow /\ \A row : SavePoint(row)' <=> SavePoint(row)
<1>1. QueryRow' = QueryRow
  BY SameSetup DEF QueryRow, LastImageEnd
<1>2. QED
  BY <1>1 DEF SavePoint

\* A request that fails leaves memories that can be taken back to its base.
LEMMA FailFrame ==
    ASSUME TurnInv, pc \in Serving, pc' = "failed", setup' = setup, lost' = lost,
           turn' = turn, rollback' = rollback, committed' = committed,
           cached' = cached, query' = query,
           IsMem(mem'), IsFiniteSet(cps'), \A e \in cps' : IsCp(e),
           live' = [row |-> live'.row, cp |-> live'.cp], live'.row \in Nat,
           live'.cp # None => IsCp(live'.cp),
           ~lost => Undoable' /\ \A e \in cps' : e.row < rollback.cp.row => e \in cps
    PROVE  TurnInv'
<1>1. StateTypes'
  BY DEF TurnInv, StateTypes
<1>2. RequestTypes'
  BY SameSetup DEF TurnInv, RequestTypes, Serving, Evaluating, End
<1>3. ASSUME ~lost' PROVE HeldInv'
  <2>1. UndoInv' /\ rollback' # None /\ Undoable'
    BY <1>3, UndoFrame, BaseFacts
  <2>2. QED
    BY <2>1
    DEF HeldInv, BetweenInv, ClearedInv, FailedInv, BaseInv, PrefixInv, SuffixInv, ReplyInv,
        PendingInv, Serving, Evaluating
<1>4. QED
  BY <1>1, <1>2, <1>3 DEF TurnInv

\* A retrieval that fails leaves what the request goes back to.
LEMMA RetrieveFailsTurn ==
    ASSUME TurnInv, RetrieveFails
    PROVE  TurnInv'
<1>1. pc \in Serving /\ StateTypes /\ IsMem(mem)
  BY DEF TurnInv, StateTypes, RetrieveFails, Serving, Evaluating
<1>2. /\ pc' = "failed" /\ setup' = setup /\ lost' = lost /\ turn' = turn /\ mem' = mem
      /\ rollback' = rollback /\ committed' = committed /\ cached' = cached
      /\ query' = query /\ cps' = cps /\ live' = live
  BY DEF RetrieveFails, Fail, fixed
<1>3. ASSUME ~lost PROVE Undoable'
  <2>1. Undoable
    BY <1>1, <1>3, ServingUndoable
  <2>2. QED
    BY <1>2, <2>1, SameSetup DEF Undoable, Found
<1>4. QED
  BY <1>1, <1>2, <1>3, FailFrame DEF StateTypes

\* A restore that fails changes nothing in front of its checkpoint.
LEMMA RestoreFailsTurn ==
    ASSUME TurnInv, RestoreFails
    PROVE  TurnInv'
<1> DEFINE cp == IF pc = "restore" THEN turn.base ELSE turn.suffix
<1>1. /\ pc \in {"restore", "again"} /\ pc' = "failed" /\ setup' = setup /\ lost' = lost
      /\ turn' = turn /\ rollback' = rollback /\ committed' = committed /\ cached' = cached
      /\ query' = query /\ cps' = cps /\ live' = live
      /\ mem' \in {mem, RestoredState(mem, cp), RestoredRows(mem, cp)}
  BY DEF RestoreFails, Fail, fixed
<1>2. pc \in Serving /\ StateTypes /\ RequestTypes /\ IsMem(mem)
  BY <1>1 DEF TurnInv, StateTypes, Serving, Evaluating
<1>3. IsCp(cp) /\ cp.row \in Nat
  BY <1>1, <1>2 DEF RequestTypes, IsCp
<1> HIDE DEF cp
<1>4. IsMem(mem')
  <2>1. 0 \in Nat /\ 0 <= cp.row
    BY <1>3
  <2>2. CASE mem' = mem
    BY <1>2, <2>2
  <2>3. CASE mem' \in {RestoredState(mem, cp), RestoredRows(mem, cp)}
    BY <1>2, <1>3, <2>1, <2>3, RestoredPart
  <2>4. QED
    BY <1>1, <2>2, <2>3
<1>5. ASSUME ~lost PROVE Undoable'
  <2> DEFINE r == rollback.cp.row
  <2>1. Undoable
    BY <1>2, <1>5, ServingUndoable
  <2>2. r \in Nat /\ turn.base = rollback.cp /\ r <= End /\ Found' = Found
    BY <1>1, <1>2, <1>5, BaseFacts DEF Found
  <2>3. r <= cp.row
    <3>1. CASE pc = "restore"
      BY <2>2, <3>1 DEF cp
    <3>2. CASE pc = "again"
      <4>1. turn.suffix.row = turn.qrow /\ turn.qrow = QueryRow
        BY <1>5, <3>2, HeldFacts DEF SuffixInv, BaseInv, Serving, Evaluating
      <4>2. IsTurn(turn) /\ End \in Nat
        BY <1>2, <3>2, RequestFacts DEF StateTypes
      <4>3. r <= QueryRow
        BY <2>2, <4>2, QueryRowFacts
      <4>4. QED
        BY <3>2, <4>1, <4>3 DEF cp
    <3>3. QED
      BY <1>1, <3>1, <3>2
  <2>4. CASE mem' = mem
    BY <1>1, <2>1, <2>2, <2>4, SameSetup DEF Undoable
  <2>5. CASE mem' \in {RestoredState(mem, cp), RestoredRows(mem, cp)}
    <3>1. /\ Take(mem'.kv, r) = Take(mem.kv, r)
          /\ mem'.store = mem.store /\ mem'.mean = mem.mean
          /\ mem.draft = OfDraft(mem.kv) => mem'.draft = OfDraft(mem'.kv)
          /\ live = [row |-> cp.row, cp |-> cp] => mem'.rec = mem.rec /\ mem'.carry = mem.carry
      BY <1>2, <1>3, <2>2, <2>3, <2>5, RestoredPart
    <3>2. live = [row |-> r, cp |-> rollback.cp] => mem'.rec = rollback.cp.rec
                                                    /\ mem'.carry = rollback.cp.carry
      <4> SUFFICES ASSUME live = [row |-> r, cp |-> rollback.cp]
                   PROVE  mem'.rec = rollback.cp.rec /\ mem'.carry = rollback.cp.carry
        OBVIOUS
      <4>1. mem.rec = rollback.cp.rec /\ mem.carry = rollback.cp.carry
        BY <2>1 DEF Undoable
      <4>2. CASE pc = "restore"
        <5>1. cp = rollback.cp
          BY <2>2, <4>2 DEF cp
        <5>2. QED
          BY <3>1, <4>1, <5>1
      <4>3. CASE pc = "again"
        <5>1. /\ live.row = turn.row /\ turn.row = End /\ turn.qrow < End
              /\ turn.qrow = QueryRow /\ cp.row = turn.qrow
          BY <1>5, <4>3, HeldFacts DEF SuffixInv, BaseInv, AtRow, Serving, Evaluating, cp
        <5>2. QueryRow \in Nat /\ r <= QueryRow /\ End \in Nat
          BY <1>2, <2>2, <4>3, RequestFacts, QueryRowFacts DEF StateTypes
        <5>3. live.row = r
          OBVIOUS
        <5>4. QED
          BY <2>2, <5>1, <5>2, <5>3
      <4>4. QED
        BY <1>1, <4>2, <4>3
    <3>3. QED
      BY <1>1, <2>1, <2>2, <3>1, <3>2, SameSetup DEF Undoable
  <2>6. QED
    BY <1>1, <2>4, <2>5
<1>6. QED
  BY <1>1, <1>2, <1>4, <1>5, FailFrame DEF StateTypes

\* The base's rows are the prompt's; what is left of the cached conversation
\* behind them is covered.
LEMMA RestoreBaseTurn ==
    ASSUME TurnInv, BranchCovered, RestoreBase
    PROVE  TurnInv'
<1> DEFINE p == turn.prompt
           cp == turn.base
           r == cp.row
<1>1. /\ pc = "restore" /\ pc' = "path" /\ setup' = setup /\ lost' = lost
      /\ turn' = turn /\ rollback' = rollback /\ committed' = committed /\ cached' = cached
      /\ query' = query /\ cps' = cps
      /\ live' = [row |-> r, cp |-> cp] /\ mem' = RestoredStore(mem, cp)
  BY DEF RestoreBase, fixed
<1>2. StateTypes /\ RequestTypes /\ IsMem(mem) /\ IsCp(cp) /\ r \in Nat /\ p \in Seq(Tokens)
      /\ cached \in Seq(Tokens) \cup {None} /\ IsTurn(turn) /\ turn.gen = <<>>
  BY <1>1, RequestFacts DEF TurnInv, StateTypes, RequestTypes, IsCp, Serving
<1>3. StateTypes'
  <2>1. IsMem(mem')
    <3> DEFINE c == RestoredCarry(mem, cp)
    <3>1. IsMem(c)
      <4>1. r <= r
        BY <1>2
      <4>2. QED
        BY <1>2, <4>1, RestoredPart
    <3>2. Take(c.store, r) \in Seq(Tokens)
      BY <1>2, <3>1, TakeFacts DEF IsMem
    <3> DEFINE mean == SetTailMean(IF r < Len(mem.store) THEN TruncateMean(mem.mean, r)
                                   ELSE mem.mean, r, cp.tail)
    <3>3. mem' = [c EXCEPT !.store = Take(c.store, r), !.mean = mean]
      BY <1>1 DEF RestoredStore
    <3> HIDE DEF c, mean
    <3>4. c = [kv |-> c.kv, store |-> c.store, rec |-> c.rec, mean |-> c.mean,
               draft |-> c.draft, carry |-> c.carry]
      BY <3>1 DEF IsMem
    <3>5. mem' = [kv |-> c.kv, store |-> Take(c.store, r), rec |-> c.rec, mean |-> mean,
                  draft |-> c.draft, carry |-> c.carry]
      BY <3>3, <3>4
    <3>6. QED
      BY <3>1, <3>2, <3>5 DEF IsMem
  <2>2. QED
    BY <1>1, <1>2, <2>1 DEF StateTypes, Serving, Evaluating
<1>4. RequestTypes'
  BY <1>1, <1>2, SameSetup DEF RequestTypes, Serving, Evaluating, End
<1>5. ASSUME ~lost' PROVE HeldInv'
  <2> DEFINE C == Conversation
             s == SharedRows(p, cached)
  <2>1. /\ BetweenInv /\ BaseInv /\ Between /\ ~lost /\ pc \in Serving
    BY <1>1, <1>5, HeldFacts DEF BetweenInv, Serving
  <2>2. /\ rollback # None /\ cp = rollback.cp /\ Found \in Seq(Tokens) /\ Len(Found) = r
        /\ CpOf(Found, cp) /\ Take(Found, r) = Found
        /\ cp.rec = Found /\ cp.carry = OfDraft(Found) /\ r <= End
    BY <2>1, BaseFacts
  <2>3. C \in Seq(Tokens) /\ r <= live.row /\ r <= s /\ Found = Take(C, r)
        /\ mem = Holding(Take(C, live.row)) /\ live.row \in Nat
    BY <1>1, <1>2, <2>1, NoRows DEF BaseInv, Between, Conversation, StateTypes
  <2>4. s \in Nat /\ s <= Len(p) /\ Take(p, s) = Take(C, s)
    BY <1>2, SharedRowsFacts
  <2> HIDE DEF C, s
  <2>5. Found = Take(p, r)
    BY <1>2, <2>3, <2>4, TakeShorter
  <2>6. Undoable
    BY <2>1, ServingUndoable
  <2>7. mem' = Holding(Found)
    <3>1. /\ Take(mem.kv, r) = Found /\ Take(mem.store, r) = Found
          /\ mem.mean = MeansOf(mem.store) /\ mem.draft = OfDraft(mem.kv)
          /\ live = [row |-> r, cp |-> cp] => mem.rec = cp.rec /\ mem.carry = cp.carry
      BY <2>2, <2>6 DEF Undoable
    <3>2. QED
      BY <1>1, <1>2, <2>2, <3>1, RestoredHolds
  <2>8. r <= Len(p)
    BY <1>1, <1>2, <2>2, RequestFacts
  <2>9. CpOf(p, cp)
    <3>1. r <= r /\ Take(Found, r) = Take(p, r)
      BY <1>2, <2>2, <2>5
    <3>2. QED
      BY <1>2, <2>2, <2>8, <3>1, CpOfPrefix
  <2>10. ASSUME NEW e \in cps
         PROVE  CpOf(p, e) \/ \E row \in r .. e.row : SavePoint(row)
    <3>1. IsCp(e) /\ CpOf(C, e)
      BY <1>2, <2>1 DEF Between, StateTypes, C
    <3>2. e.row <= s \/ \E row \in r .. e.row : SavePoint(row)
      BY <1>1, <2>1 DEF BranchCovered, s
    <3>3. CASE e.row <= s
      BY <1>2, <2>3, <2>4, <3>1, <3>3, CpOfPrefix
    <3>4. QED
      BY <3>2, <3>3
  <2>11. PrefixInv'
    <3>1. mem' = Holding(Take(p, r))
      BY <2>5, <2>7
    <3>2. AtRow(p, r)'
      BY <1>1, <2>9, SameSetup DEF AtRow
    <3>3. CoveredFrom(r)'
      BY <1>1, <2>10, SameSetup, SameQueryRow DEF CoveredFrom
    <3>4. QED
      BY <1>1, <3>1, <3>2, <3>3, SameSetup DEF PrefixInv
  <2>12. UndoInv' /\ Found' = Found
    BY <1>1, <2>1, UndoFrame
  <2>13. BaseInv'
    BY <1>1, <2>2, <2>5, <2>12, SameSetup DEF BaseInv, Serving, Evaluating, End
  <2>14. QED
    BY <1>1, <2>11, <2>12, <2>13
    DEF HeldInv, BetweenInv, ClearedInv, FailedInv, SuffixInv, ReplyInv, PendingInv
<1>6. QED
  BY <1>3, <1>4, <1>5 DEF TurnInv

\* Where the query begins, and whether an earlier capture serves it.
LEMMA ChoosePathTurn ==
    ASSUME TurnInv, ChoosePath
    PROVE  TurnInv'
<1> DEFINE p == turn.prompt
           r == turn.base.row
           pending == IF turn'.reuse THEN query ELSE None
<1>1. /\ pc = "path" /\ pc' = "prefix" /\ setup' = setup /\ lost' = lost /\ mem' = mem
      /\ cps' = cps /\ live' = live /\ rollback' = rollback /\ committed' = committed
      /\ cached' = cached /\ query' = query
  BY DEF ChoosePath, fixed
<1>2. /\ StateTypes /\ RequestTypes /\ IsTurn(turn) /\ IsCp(turn.base) /\ r \in Nat
      /\ p \in Seq(Tokens) /\ End \in Nat /\ turn.gen = <<>> /\ turn.span[2] <= End
  BY <1>1, RequestFacts DEF TurnInv, StateTypes, RequestTypes, IsCp, Serving, Evaluating
<1>3. QueryRow \in Nat /\ QueryRow <= End
  BY <1>2, QueryRowFacts
<1>4. PICK reuse \in {FALSE} \cup {SameQuery} :
         turn' = [turn EXCEPT !.qrow = QueryRow, !.row = r, !.reuse = reuse,
                              !.pending = IF reuse THEN query ELSE None]
  BY DEF ChoosePath
<1>5. turn' = [prompt |-> p, span |-> turn.span, reset |-> turn.reset, base |-> turn.base,
               qrow |-> QueryRow, row |-> r, suffix |-> turn.suffix,
               pending |-> IF reuse THEN query ELSE None, reuse |-> reuse, gen |-> turn.gen,
               before |-> turn.before]
  BY <1>2, <1>4 DEF IsTurn
<1>6. ASSUME turn'.pending # None
      PROVE  turn'.pending = query /\ query # None /\ SameQuery
  <2>1. turn'.pending = IF reuse THEN query ELSE None
    BY <1>5
  <2>2. CASE reuse
    <3>1. SameQuery
      BY <2>2
    <3>2. turn'.pending = query
      BY <2>1, <2>2
    <3>3. QED
      BY <1>6, <3>1, <3>2
  <2>3. CASE ~reuse
    BY <1>6, <2>1, <2>3
  <2>4. QED
    BY <2>2, <2>3
<1>7. IsTurn(turn')
  <2>1. turn'.pending # None => IsQuery(turn'.pending)
    BY <1>2, <1>6 DEF StateTypes
  <2>2. QED
    BY <1>2, <1>3, <1>5, <2>1 DEF IsTurn
<1>8. StateTypes'
  BY <1>1, <1>2, <1>7 DEF StateTypes, Serving, Evaluating
<1>9. RequestTypes'
  BY <1>1, <1>2, <1>3, <1>5, SameSetup DEF RequestTypes, Serving, Evaluating, End
<1>10. ASSUME ~lost' PROVE HeldInv'
  <2>1. BaseInv /\ PrefixInv /\ ~lost /\ pc \in Serving
    BY <1>1, <1>10, HeldFacts DEF Serving, Evaluating
  <2>2. turn.base = rollback.cp /\ rollback # None /\ r <= End /\ Found = Take(p, r)
    BY <1>1, <2>1, BaseFacts DEF Evaluating
  <2>3. r <= QueryRow
    BY <1>2, <2>2, QueryRowFacts
  <2>4. UndoInv' /\ Found' = Found
    BY <1>1, <1>5, <2>1, UndoFrame
  <2>5. QueryRow' = QueryRow /\ \A row : SavePoint(row)' <=> SavePoint(row)
    BY <1>1, <1>5, SameQueryRow
  <2>6. BaseInv'
    BY <1>1, <1>5, <2>2, <2>4, <2>5, SameSetup DEF BaseInv, Serving, Evaluating, End
  <2>7. PrefixInv'
    <3>1. mem' = Holding(Take(p, r)) /\ AtRow(p, r) /\ CoveredFrom(r)
      BY <1>1, <2>1 DEF PrefixInv
    <3>2. AtRow(p, r)' /\ CoveredFrom(r)'
      BY <1>1, <1>5, <2>5, <3>1, SameSetup DEF AtRow, CoveredFrom
    <3>3. r <= r
      BY <1>2
    <3>4. QED
      BY <1>1, <1>5, <2>3, <3>1, <3>2, <3>3, SameSetup DEF PrefixInv
  <2>8. PendingInv'
    <3> SUFFICES ASSUME turn'.pending # None
                 PROVE  /\ turn'.pending.span[2] <= End'
                        /\ turn'.pending.prefix = Take(turn'.prompt, turn'.pending.span[2])
      BY DEF PendingInv
    <3>1. turn'.pending = query /\ query # None /\ SameQuery
      BY <1>6
    <3> DEFINE n == turn.span[2]
               c == Common(p, query.prefix)
    <3>2. query.span = turn.span /\ c >= n /\ n \in Nat
      BY <1>2, <3>1 DEF SameQuery, IsTurn
    <3>3. query.prefix \in Seq(Tokens) /\ Len(query.prefix) = n
      BY <1>2, <3>1, <3>2 DEF StateTypes, IsQuery
    <3>4. c \in Nat /\ Take(p, c) = Take(query.prefix, c)
      BY <1>2, <3>3, CommonFacts
    <3> HIDE DEF c
    <3>5. Take(p, n) = Take(query.prefix, n)
      BY <1>2, <3>2, <3>3, <3>4, TakeShorter
    <3>6. Take(query.prefix, n) = query.prefix
      BY <3>2, <3>3, TakeAll
    <3>7. End' = End /\ turn'.prompt = p
      BY <1>1, <1>5, SameSetup DEF End
    <3>8. QED
      BY <1>2, <3>1, <3>2, <3>5, <3>6, <3>7
  <2>9. QED
    BY <1>1, <2>4, <2>6, <2>7, <2>8
    DEF HeldInv, BetweenInv, ClearedInv, FailedInv, SuffixInv, ReplyInv
<1>11. QED
  BY <1>8, <1>9, <1>10 DEF TurnInv

\* The steps that only choose how to go on.
LEMMA KeepViewTurn ==
    ASSUME TurnInv, KeepView
    PROVE  TurnInv'
<1>1. /\ pc = "suffix" /\ turn.row = End /\ pc' = "capture" /\ setup' = setup /\ lost' = lost
      /\ mem' = mem /\ cps' = cps /\ live' = live /\ cached' = cached /\ rollback' = rollback
      /\ committed' = committed /\ query' = query /\ turn' = turn
  BY DEF KeepView, fixed, StageEnd, End
<1>2. StateTypes'
  BY <1>1 DEF TurnInv, StateTypes, Serving, Evaluating
<1>3. RequestTypes'
  BY <1>1, SameSetup DEF TurnInv, RequestTypes, Serving, Evaluating, End
<1>4. ASSUME ~lost' PROVE HeldInv'
  <2>1. BaseInv /\ SuffixInv /\ PendingInv /\ ~lost /\ pc \in Serving
    BY <1>1, <1>4, HeldFacts DEF Serving, Evaluating
  <2>2. UndoInv' /\ Found' = Found
    BY <1>1, <2>1, UndoFrame
  <2>3. QueryRow' = QueryRow /\ End' = End
    BY <1>1, SameQueryRow, SameSetup DEF End
  <2>4. BaseInv'
    BY <1>1, <2>1, <2>2, <2>3 DEF BaseInv, Serving, Evaluating
  <2>5. SuffixInv' /\ ReplyInv'
    BY <1>1, <2>1, <2>3, SameSetup DEF SuffixInv, ReplyInv, AtRow
  <2>6. PendingInv'
    BY <1>1, <2>1, <2>3 DEF PendingInv, Evaluating
  <2>7. QED
    BY <1>1, <2>2, <2>4, <2>5, <2>6
    DEF HeldInv, BetweenInv, ClearedInv, FailedInv, PrefixInv
<1>5. QED
  BY <1>2, <1>3, <1>4 DEF TurnInv

\* A retrieval begins when all rows of the prompt have been evaluated.
LEMMA RetrieveTurn ==
    ASSUME TurnInv, Retrieve
    PROVE  TurnInv'
<1>1. /\ pc = "suffix" /\ turn.row = End /\ turn.qrow < End
      /\ pc' = "again" /\ setup' = setup /\ lost' = lost
      /\ mem' = mem /\ cps' = cps /\ live' = live /\ cached' = cached /\ rollback' = rollback
      /\ committed' = committed /\ query' = query /\ turn' = turn
  BY DEF Retrieve, fixed, StageEnd, End
<1>2. StateTypes'
  BY <1>1 DEF TurnInv, StateTypes, Serving, Evaluating
<1>3. RequestTypes'
  BY <1>1, SameSetup DEF TurnInv, RequestTypes, Serving, Evaluating, End
<1>4. ASSUME ~lost' PROVE HeldInv'
  <2>1. BaseInv /\ SuffixInv /\ PendingInv /\ ~lost /\ pc \in Serving
    BY <1>1, <1>4, HeldFacts DEF Serving, Evaluating
  <2>2. UndoInv' /\ Found' = Found
    BY <1>1, <2>1, UndoFrame
  <2>3. QueryRow' = QueryRow /\ End' = End
    BY <1>1, SameQueryRow, SameSetup DEF End
  <2>4. BaseInv'
    BY <1>1, <2>1, <2>2, <2>3 DEF BaseInv, Serving, Evaluating
  <2>5. SuffixInv'
    BY <1>1, <2>1, <2>3, SameSetup DEF SuffixInv, AtRow
  <2>6. PendingInv'
    BY <1>1, <2>1, <2>3 DEF PendingInv, Evaluating
  <2>7. QED
    BY <1>1, <2>2, <2>4, <2>5, <2>6
    DEF HeldInv, BetweenInv, ClearedInv, FailedInv, PrefixInv, ReplyInv
<1>5. QED
  BY <1>2, <1>3, <1>4 DEF TurnInv

\* The replay has put every row of the prompt back.
LEMMA ReplayedTurn ==
    ASSUME TurnInv, Replayed
    PROVE  TurnInv'
<1>1. /\ pc = "replay" /\ turn.row = End /\ pc' = "capture" /\ setup' = setup /\ lost' = lost
      /\ mem' = mem /\ cps' = cps /\ live' = live /\ cached' = cached /\ rollback' = rollback
      /\ committed' = committed /\ query' = query /\ turn' = turn
  BY DEF Replayed, fixed, StageEnd, End
<1>2. StateTypes'
  BY <1>1 DEF TurnInv, StateTypes, Serving, Evaluating
<1>3. RequestTypes'
  BY <1>1, SameSetup DEF TurnInv, RequestTypes, Serving, Evaluating, End
<1>4. ASSUME ~lost' PROVE HeldInv'
  <2>1. BaseInv /\ SuffixInv /\ PendingInv /\ ~lost /\ pc \in Serving
    BY <1>1, <1>4, HeldFacts DEF Serving, Evaluating
  <2>2. UndoInv' /\ Found' = Found
    BY <1>1, <2>1, UndoFrame
  <2>3. QueryRow' = QueryRow /\ End' = End
    BY <1>1, SameQueryRow, SameSetup DEF End
  <2>4. BaseInv'
    BY <1>1, <2>1, <2>2, <2>3 DEF BaseInv, Serving, Evaluating
  <2>5. mem = Holding(Take(turn.prompt, End))
    <3>1. mem = Replaying(turn.prompt, End, End)
      BY <1>1, <2>1 DEF SuffixInv
    <3>2. QED
      BY <3>1, ReplayingIs DEF Holding, MeansOf
  <2>6. SuffixInv' /\ ReplyInv'
    BY <1>1, <2>1, <2>3, <2>5, SameSetup DEF SuffixInv, ReplyInv, AtRow
  <2>7. PendingInv'
    BY <1>1, <2>1, <2>3 DEF PendingInv, Evaluating
  <2>8. QED
    BY <1>1, <2>2, <2>4, <2>6, <2>7
    DEF HeldInv, BetweenInv, ClearedInv, FailedInv, PrefixInv
<1>5. QED
  BY <1>2, <1>3, <1>4 DEF TurnInv

\* Back to where the query begins: the host store keeps the rows behind it.
LEMMA RestoreSuffixTurn ==
    ASSUME TurnInv, RestoreSuffix
    PROVE  TurnInv'
<1> DEFINE p == turn.prompt
           cp == turn.suffix
<1>1. /\ pc = "again" /\ pc' = "replay" /\ setup' = setup /\ lost' = lost
      /\ cps' = cps /\ cached' = cached /\ rollback' = rollback
      /\ committed' = committed /\ query' = query
      /\ mem' = RestoredCarry(mem, cp) /\ live' = [row |-> cp.row, cp |-> cp]
      /\ turn' = [turn EXCEPT !.row = turn.qrow]
  BY DEF RestoreSuffix, fixed
<1>2. /\ StateTypes /\ RequestTypes /\ IsMem(mem) /\ IsTurn(turn) /\ IsCp(cp) /\ cp.row \in Nat
      /\ p \in Seq(Tokens) /\ End \in Nat /\ turn.qrow \in Nat /\ End <= Len(p)
  BY <1>1, RequestFacts DEF TurnInv, StateTypes, RequestTypes, IsTurn, IsCp
<1>3. turn' = [prompt |-> p, span |-> turn.span, reset |-> turn.reset, base |-> turn.base,
               qrow |-> turn.qrow, row |-> turn.qrow, suffix |-> cp,
               pending |-> turn.pending, reuse |-> turn.reuse, gen |-> turn.gen,
               before |-> turn.before]
  BY <1>1, <1>2 DEF IsTurn
<1>4. StateTypes'
  <2>1. IsTurn(turn')
    BY <1>2, <1>3 DEF IsTurn
  <2>2. cp.row <= cp.row
    BY <1>2
  <2>3. IsMem(mem')
    BY <1>1, <1>2, <2>2, RestoredPart
  <2>4. QED
    BY <1>1, <1>2, <2>1, <2>3 DEF StateTypes, Serving, Evaluating
<1>5. RequestTypes'
  BY <1>1, <1>2, <1>3, SameSetup DEF RequestTypes, Serving, Evaluating, End
<1>6. ASSUME ~lost' PROVE HeldInv'
  <2>1. BaseInv /\ SuffixInv /\ PendingInv /\ ~lost /\ pc \in Serving
    BY <1>1, <1>6, HeldFacts DEF Serving, Evaluating
  <2>2. UndoInv' /\ Found' = Found
    BY <1>1, <1>3, <2>1, UndoFrame
  <2>3. QueryRow' = QueryRow /\ End' = End
    BY <1>1, <1>3, SameQueryRow, SameSetup DEF End
  <2>4. BaseInv'
    BY <1>1, <1>3, <2>1, <2>2, <2>3 DEF BaseInv, Serving, Evaluating
  <2>5. /\ cp.row = turn.qrow /\ CpOf(p, cp) /\ turn.row = End /\ turn.qrow < End
        /\ mem = Holding(Take(p, End)) /\ live.row = End
        /\ \A e \in cps : CpOf(p, e)
    BY <1>1, <2>1 DEF SuffixInv, AtRow
  <2> DEFINE R == Take(p, turn.qrow)
             F == Take(p, End)
  <2>6. R \in Seq(Tokens) /\ F \in Seq(Tokens) /\ Take(F, turn.qrow) = R
    BY <1>2, <2>5, TakeFacts, TakeOfTake
  <2>7. cp.rec = R /\ cp.carry = OfDraft(R)
    BY <2>5 DEF CpOf
  <2>8. live # [row |-> cp.row, cp |-> cp]
    <3>1. live.row # cp.row
      BY <1>2, <2>5
    <3>2. QED
      BY <3>1
  <2> HIDE DEF R, F
  <2>9. mem = [kv |-> F, store |-> F, rec |-> F, mean |-> MeansOf(F),
               draft |-> OfDraft(F), carry |-> OfDraft(F)]
    BY <2>5 DEF Holding, MeansOf, F
  <2>10. RestoredState(mem, cp) = [kv |-> F, store |-> F, rec |-> R, mean |-> MeansOf(F),
                                   draft |-> OfDraft(F), carry |-> OfDraft(F)]
    BY <2>7, <2>8, <2>9 DEF RestoredState
  <2>11. Take(mem.draft, cp.row) = Take(OfDraft(F), turn.qrow)
         /\ OfDraft(Take(OfDraft(F), turn.qrow)) = OfDraft(R)
    BY <2>5, <2>6, <2>9 DEF OfDraft
  <2>12. RestoredRows(mem, cp) = [kv |-> R, store |-> F, rec |-> R, mean |-> MeansOf(F),
                                  draft |-> OfDraft(R), carry |-> OfDraft(F)]
    <3> DEFINE s == RestoredState(mem, cp)
               t == RestoredRows(mem, cp)
               d == OfDraft(Take(mem.draft, cp.row))
               k == Take(s.kv, cp.row)
               n == MeansOf(F)
               c == OfDraft(F)
    <3>1. t = [s EXCEPT !.kv = k, !.draft = d]
      BY DEF RestoredRows
    <3>2. d = OfDraft(R) /\ k = R
      BY <2>5, <2>6, <2>10, <2>11
    <3>3. s = [kv |-> F, store |-> F, rec |-> R, mean |-> n, draft |-> c, carry |-> c]
      BY <2>10
    <3> HIDE DEF s, t, d, k, n, c
    <3>4. t = [kv |-> k, store |-> F, rec |-> R, mean |-> n, draft |-> d, carry |-> c]
      BY <3>1, <3>3
    <3>5. QED
      BY <3>2, <3>4 DEF t, n, c
  <2>13. mem' = [kv |-> R, store |-> F, rec |-> R, mean |-> MeansOf(F),
                 draft |-> OfDraft(R), carry |-> OfDraft(R)]
    BY <1>1, <2>7, <2>8, <2>12 DEF RestoredCarry
  <2>14. mem' = Replaying(p, turn.qrow, End)
    BY <2>13, ReplayingIs DEF R, F
  <2>15. SuffixInv'
    <3>1. AtRow(p, turn.qrow)'
      BY <1>1, <2>5, SameSetup DEF AtRow
    <3>2. turn.qrow <= turn.qrow /\ turn.qrow <= End
      BY <1>2, <2>5
    <3>3. Replaying(p, turn.qrow, End)' = Replaying(p, turn.qrow, End)
      BY <1>1, <1>3, <2>3, SameSetup DEF Replaying
    <3>4. QED
      BY <1>1, <1>3, <2>3, <2>5, <2>14, <3>1, <3>2, <3>3, SameSetup DEF SuffixInv
  <2>16. PendingInv'
    BY <1>1, <1>3, <2>1, <2>3 DEF PendingInv, Evaluating
  <2>17. QED
    BY <1>1, <2>2, <2>4, <2>15, <2>16
    DEF HeldInv, BetweenInv, ClearedInv, FailedInv, PrefixInv, ReplyInv
<1>7. QED
  BY <1>4, <1>5, <1>6 DEF TurnInv

\* Whatever was evaluated behind the base can be undone.
LEMMA UndoableBehind ==
    ASSUME TurnInv, ~lost, pc \in Serving, NEW T \in Seq(Tokens), NEW replay \in BOOLEAN,
           mem' = Evaluate(mem, T, replay), live'.cp = None, setup' = setup, rollback' = rollback
    PROVE  Undoable'
<1> DEFINE r == rollback.cp.row
<1>1. /\ Undoable /\ IsMem(mem) /\ r \in Nat /\ Len(Found) = r /\ rollback.cp # None
  BY ServingUndoable, BaseFacts DEF TurnInv, StateTypes
<1>2. Take(mem.kv, r) = Found /\ Take(mem.store, r) = Found
      /\ mem.mean = MeansOf(mem.store) /\ mem.draft = OfDraft(mem.kv)
      /\ mem.kv \in Seq(Tokens) /\ mem.store \in Seq(Tokens)
  BY <1>1 DEF Undoable, IsMem
<1>3. r <= Len(mem.kv) /\ r <= Len(mem.store)
  <2>1. \A s \in Seq(Tokens) : Len(Take(s, r)) = r => r <= Len(s)
    BY <1>1, TakeFacts, LenProperties
  <2>2. QED
    BY <1>1, <1>2, <2>1
<1>4. /\ Take(mem'.kv, r) = Found /\ Take(mem'.store, r) = Found
      /\ mem'.mean = MeansOf(mem'.store) /\ mem'.draft = OfDraft(mem'.kv)
  BY <1>1, <1>2, <1>3, EvaluateBehind
<1>5. Found' = Found
  BY DEF Found
<1>6. live' # [row |-> r, cp |-> rollback.cp]
  BY <1>1
<1>7. QED
  BY <1>4, <1>5, <1>6, SameSetup DEF Undoable

\* Marking a checkpoint as that of an image changes nothing else of it.
LEMMA MediaCheckpoint ==
    ASSUME NEW c, IsCp(c)
    PROVE  LET e == [c EXCEPT !.media = TRUE]
           IN  IsCp(e) /\ e.row = c.row /\ \A S : CpOf(S, c) => CpOf(S, e)
<1> DEFINE e == [c EXCEPT !.media = TRUE]
<1>1. c = [row |-> c.row, media |-> c.media, rec |-> c.rec, carry |-> c.carry, tail |-> c.tail]
      /\ c.row \in Nat
  BY DEF IsCp
<1>2. e = [c EXCEPT !.media = TRUE]
  OBVIOUS
<1> HIDE DEF e
<1>a. e = [row |-> c.row, media |-> TRUE, rec |-> c.rec, carry |-> c.carry, tail |-> c.tail]
  BY <1>1, <1>2
<1>3. IsCp(e) /\ e.row = c.row /\ \A S : CpOf(S, c) => CpOf(S, e)
  BY <1>1, <1>a DEF IsCp, CpOf
<1>4. QED
  BY <1>3 DEF e

\* The checkpoint in front of an image drops the ones behind it.
LEMMA BeforeImageTyped ==
    ASSUME StateTypes
    PROVE  IsFiniteSet(BeforeImage) /\ \A e \in BeforeImage : IsCp(e)
<1> DEFINE image == turn.prompt[turn.row + 1] \in Images /\ pc # "replay"
           c == CheckpointAt(mem, turn.row)
           e0 == [c EXCEPT !.media = TRUE]
<1>1. turn.row \in Nat /\ IsFiniteSet(cps) /\ (\A e \in cps : IsCp(e) /\ e.row \in Nat)
      /\ (live.cp # None => IsCp(live.cp))
  BY DEF StateTypes, IsTurn, IsCp
<1>2. CASE image
  <2>1. BeforeImage = Remember(cps, e0)
    BY <1>2 DEF BeforeImage
  <2>2. IsCp(c)
    BY <1>1, CheckpointAtTyped
  <2>3. IsCp(e0) /\ e0.row \in Nat
    <3> HIDE DEF c
    <3>1. IsCp(e0)
      BY <2>2, MediaCheckpoint
    <3>2. QED
      BY <3>1 DEF IsCp
  <2> HIDE DEF e0
  <2>4. QED
    BY <1>1, <2>1, <2>3, RememberFacts
<1>3. CASE ~image
  BY <1>1, <1>3 DEF BeforeImage
<1>4. QED
  BY <1>2, <1>3

\* The checkpoints kept in front of an image are the new one and earlier ones.
LEMMA BeforeImageFacts ==
    ASSUME StateTypes, NEW S \in Seq(Tokens), turn.row <= Len(S),
           mem = Holding(Take(S, turn.row)), AtRow(S, turn.row)
    PROVE  \A e \in BeforeImage :
              \/ e.row = turn.row /\ CpOf(S, e)
              \/ /\ e \in cps
                 /\ turn.prompt[turn.row + 1] \in Images /\ pc # "replay" => e.row < turn.row
<1> DEFINE image == turn.prompt[turn.row + 1] \in Images /\ pc # "replay"
           c == CheckpointAt(mem, turn.row)
           e0 == [c EXCEPT !.media = TRUE]
<1>1. turn.row \in Nat /\ IsFiniteSet(cps) /\ (\A e \in cps : IsCp(e) /\ e.row \in Nat)
      /\ (live.cp # None => IsCp(live.cp))
  BY DEF StateTypes, IsTurn, IsCp
<1>2. CASE image
  <2>1. BeforeImage = Remember(cps, e0)
    BY <1>2 DEF BeforeImage
  <2>2. IsCp(c) /\ c.row = turn.row /\ CpOf(S, c)
    BY <1>1, CheckpointAtFacts
  <2>3. IsCp(e0) /\ e0.row = turn.row /\ CpOf(S, e0)
    <3> HIDE DEF c
    <3>1. QED
      BY <2>2, MediaCheckpoint
  <2> HIDE DEF e0
  <2>4. \A e \in Remember(cps, e0) : e = e0 \/ (e \in cps /\ e.row < e0.row)
    BY <1>1, <2>3, RememberFacts
  <2>5. QED
    BY <2>1, <2>3, <2>4
<1>3. CASE ~image
  BY <1>1, <1>3 DEF BeforeImage
<1>4. QED
  BY <1>2, <1>3

\* A batch of the prompt, or an image of it behind a checkpoint.
LEMMA DecodeBatchTurn ==
    ASSUME TurnInv, DecodeBatch
    PROVE  TurnInv'
<1> DEFINE p == turn.prompt
           n == BatchEnd
           T == SubSeq(p, turn.row + 1, n)
<1>1. /\ pc \in {"prefix", "suffix", "replay"} /\ turn.row < StageEnd
      /\ pc' = pc /\ setup' = setup /\ lost' = lost
      /\ cached' = cached /\ rollback' = rollback /\ committed' = committed /\ query' = query
      /\ mem' = Evaluate(mem, T, pc = "replay") /\ cps' = BeforeImage
      /\ live' = [row |-> n, cp |-> None]
      /\ turn' = [turn EXCEPT !.row = n]
  BY DEF DecodeBatch, fixed
<1>2. /\ StateTypes /\ RequestTypes /\ IsMem(mem) /\ IsTurn(turn) /\ turn.row \in Nat
      /\ p \in Seq(Tokens) /\ End \in Nat /\ turn.qrow \in Nat /\ turn.qrow <= End
      /\ End <= Len(p) /\ Len(p) \in Nat /\ pc \in Serving
  BY <1>1, RequestFacts DEF TurnInv, StateTypes, RequestTypes, IsTurn, Serving, Evaluating
<1>3. StageEnd = (IF pc = "prefix" THEN turn.qrow ELSE End) /\ StageEnd \in Nat /\ StageEnd <= End
  BY <1>2 DEF StageEnd, End
<1>4. /\ n \in Nat /\ turn.row < n /\ n <= StageEnd
      /\ p[turn.row + 1] \notin Images => \A i \in turn.row + 1 .. n : p[i] \notin Images
  BY <1>1, <1>2, <1>3, BatchFacts
<1> HIDE DEF n
<1>5. turn' = [prompt |-> p, span |-> turn.span, reset |-> turn.reset, base |-> turn.base,
               qrow |-> turn.qrow, row |-> n, suffix |-> turn.suffix,
               pending |-> turn.pending, reuse |-> turn.reuse, gen |-> turn.gen,
               before |-> turn.before]
  BY <1>1, <1>2 DEF IsTurn
<1>6. n <= Len(p) /\ turn.row <= n /\ turn.row <= Len(p)
  BY <1>2, <1>3, <1>4
<1>7. StateTypes'
  <2>1. IsTurn(turn')
    BY <1>2, <1>4, <1>5 DEF IsTurn
  <2>2. T \in Seq(Tokens)
    BY <1>2, <1>4, <1>6, TakeOn
  <2>3. IsMem(mem')
    BY <1>1, <1>2, <2>2, EvaluateBehind
  <2>4. IsFiniteSet(cps') /\ \A e \in cps' : IsCp(e)
    BY <1>1, <1>2, BeforeImageTyped
  <2>5. QED
    BY <1>1, <1>2, <1>4, <2>1, <2>3, <2>4 DEF StateTypes
<1>8. RequestTypes'
  BY <1>1, <1>2, <1>5, SameSetup DEF RequestTypes, End
<1>9. ASSUME ~lost' PROVE HeldInv'
  <2>1. BaseInv /\ PrefixInv /\ SuffixInv /\ PendingInv /\ ~lost
    BY <1>1, <1>9, HeldFacts
  <2>2. AtRow(p, turn.row)
    BY <1>1, <2>1 DEF PrefixInv, SuffixInv
  <2>3. rollback.cp.row <= turn.row /\ rollback.cp.row \in Nat /\ turn.base = rollback.cp
    <3>1. rollback.cp.row \in Nat /\ rollback.cp.row <= End /\ turn.base = rollback.cp
      BY <1>2, <2>1, BaseFacts
    <3>2. CASE pc = "prefix"
      BY <2>1, <3>1, <3>2 DEF PrefixInv
    <3>3. CASE pc # "prefix"
      <4>1. turn.qrow <= turn.row /\ turn.qrow = QueryRow
        BY <1>1, <2>1, <3>3 DEF SuffixInv, BaseInv, Serving, Evaluating
      <4>2. rollback.cp.row <= QueryRow
        BY <1>2, <3>1, QueryRowFacts
      <4>3. QED
        BY <1>2, <3>1, <4>1, <4>2
    <3>4. QED
      BY <3>2, <3>3
  <2>4. CASE pc = "replay"
    <3>1. cps' = cps /\ mem = Replaying(p, turn.row, End)
      BY <1>1, <2>1, <2>4 DEF BeforeImage, SuffixInv
    <3>2. UndoInv' /\ Found' = Found
      BY <1>1, <1>2, <1>5, <2>1, <3>1, UndoFrame
    <3>3. QueryRow' = QueryRow /\ End' = End
      BY <1>1, <1>5, SameQueryRow, SameSetup DEF End
    <3>4. BaseInv'
      BY <1>1, <1>5, <2>1, <3>2, <3>3 DEF BaseInv
    <3>5. mem' = Replaying(p, n, End)
      <4>1. Evaluate(Replaying(p, turn.row, End), T, TRUE) = Replaying(p, n, End)
        <5>1. /\ p \in Seq(Tokens) /\ turn.row \in Nat /\ n \in Nat /\ turn.row <= n
              /\ n <= Len(p)
          BY <1>2, <1>4, <1>6
        <5> HIDE DEF p
        <5>2. QED
          BY <5>1, ReplayNext, Zenon
      <4>2. (pc = "replay") = TRUE
        BY <2>4
      <4>3. QED
        BY <1>1, <3>1, <4>1, <4>2
    <3>6. SuffixInv'
      <4>1. AtRow(turn.prompt, turn.row)'
        BY <1>1, <1>5 DEF AtRow
      <4>2. turn.qrow <= n /\ n <= End
        BY <1>2, <1>3, <1>4, <1>6, <2>1, <2>4 DEF SuffixInv
      <4>3. mem' = Replaying(turn.prompt, turn.row, End)'
        BY <1>1, <1>5, <3>3, <3>5, SameSetup DEF Replaying
      <4>4. turn'.row = n /\ turn'.prompt = p /\ turn'.suffix = turn.suffix /\ turn'.qrow = turn.qrow
        BY <1>5
      <4>5. QED
        BY <1>1, <2>1, <2>4, <3>1, <3>3, <4>1, <4>2, <4>3, <4>4, SameSetup DEF SuffixInv
    <3>7. PendingInv'
      BY <1>1, <1>5, <2>1, <3>3 DEF PendingInv
    <3>8. QED
      BY <1>1, <2>4, <3>2, <3>4, <3>6, <3>7
      DEF HeldInv, BetweenInv, ClearedInv, FailedInv, PrefixInv, ReplyInv
  <2>5. CASE pc # "replay"
    <3>1. mem = Holding(Take(p, turn.row))
      BY <1>1, <2>1, <2>5 DEF PrefixInv, SuffixInv
    <3>2. \A e \in cps' : \/ e.row = turn.row /\ CpOf(p, e)
                          \/ e \in cps /\ (p[turn.row + 1] \in Images => e.row < turn.row)
      BY <1>1, <1>2, <1>6, <2>2, <2>5, <3>1, BeforeImageFacts
    <3>3. \A e \in cps' : e.row < rollback.cp.row => e \in cps
      BY <1>2, <2>3, <3>2
    <3>4. UndoInv' /\ Found' = Found
      BY <1>1, <1>2, <1>5, <2>1, <3>3, UndoFrame
    <3>5. QueryRow' = QueryRow /\ End' = End /\ \A row : SavePoint(row)' <=> SavePoint(row)
      BY <1>1, <1>5, SameQueryRow, SameSetup DEF End
    <3>6. BaseInv'
      BY <1>1, <1>5, <2>1, <2>5, <3>4, <3>5 DEF BaseInv
    <3>7. mem' = Holding(Take(p, n))
      BY <1>1, <1>2, <1>4, <1>6, <2>5, <3>1, EvaluateNext
    <3>8. /\ mem' = Holding(Take(turn.prompt, turn.row))' /\ AtRow(turn.prompt, turn.row)'
          /\ turn'.row = n /\ turn'.prompt = p /\ turn'.suffix = turn.suffix
          /\ turn'.qrow = turn.qrow /\ turn'.base = turn.base
      BY <1>1, <1>5, <3>7, SameSetup DEF AtRow
    <3>9. ASSUME pc = "prefix" PROVE CoveredFrom(turn.row)'
      <4>1. CoveredFrom(turn.row) /\ turn.qrow = QueryRow
        BY <2>1, <3>9 DEF PrefixInv, BaseInv, Serving, Evaluating
      <4>2. ASSUME NEW e \in cps' PROVE CpOf(p, e) \/ \E row \in n .. e.row : SavePoint(row)
        <5>1. CASE e.row = turn.row /\ CpOf(p, e)
          BY <5>1
        <5>2. CASE e \in cps /\ (p[turn.row + 1] \in Images => e.row < turn.row)
          <6>1. e.row \in Nat
            BY <1>2, <5>2 DEF StateTypes, IsCp
          <6>2. SUFFICES ASSUME NEW row \in turn.row .. e.row, SavePoint(row)
                         PROVE  \E x \in n .. e.row : SavePoint(x)
            BY <4>1, <5>2 DEF CoveredFrom
          <6>3. row \in Nat /\ turn.row <= row /\ row <= e.row
            BY <1>2, <6>1
          <6>4. p[turn.row + 1] \notin Images
            BY <1>2, <5>2, <6>1, <6>3
          <6>5. \A i \in turn.row + 1 .. n : p[i] \notin Images
            BY <1>4, <6>4
          <6>6. n <= QueryRow
            BY <1>3, <1>4, <3>9, <4>1
          <6>7. n <= row
            <7>1. CASE row = QueryRow
              BY <6>6, <7>1
            <7>2. CASE p[row + 1] \in Images
              <8>1. row + 1 \notin turn.row + 1 .. n
                BY <6>5, <7>2
              <8>2. QED
                BY <1>2, <1>4, <6>3, <8>1
            <7>3. QED
              BY <6>2, <7>1, <7>2 DEF SavePoint
          <6>8. row \in n .. e.row
            BY <1>4, <6>1, <6>3, <6>7
          <6>9. QED
            BY <6>2, <6>8
        <5>3. QED
          BY <3>2, <5>1, <5>2
      <4>3. QED
        BY <1>1, <3>5, <3>8, <4>2, SameSetup DEF CoveredFrom
    <3>10. PrefixInv'
      <4>1. turn.base.row <= n
        BY <1>2, <1>4, <2>3
      <4>2. pc = "prefix" => n <= turn.qrow
        BY <1>3, <1>4
      <4>3. QED
        BY <1>1, <3>8, <3>9, <4>1, <4>2 DEF PrefixInv
    <3>13. SuffixInv'
      <4>1. CASE pc = "prefix"
        BY <1>1, <4>1 DEF SuffixInv
      <4>2. CASE pc = "suffix"
        <5>1. /\ \A e \in cps : CpOf(p, e)
              /\ turn.suffix.row = turn.qrow /\ CpOf(p, turn.suffix) /\ turn.qrow <= turn.row
          BY <2>1, <4>2 DEF SuffixInv
        <5>2. \A e \in cps' : CpOf(p, e)
          BY <3>2, <5>1
        <5>3. turn.qrow <= n /\ n <= End
          BY <1>2, <1>3, <1>4, <1>6, <5>1
        <5>4. QED
          BY <1>1, <3>5, <3>8, <4>2, <5>1, <5>2, <5>3, SameSetup DEF SuffixInv
      <4>3. QED
        BY <1>1, <2>5, <4>1, <4>2
    <3>11. PendingInv'
      BY <1>1, <1>5, <2>1, <3>5 DEF PendingInv
    <3>12. QED
      BY <1>1, <2>5, <3>4, <3>6, <3>10, <3>11, <3>13
      DEF HeldInv, BetweenInv, ClearedInv, FailedInv, ReplyInv
  <2>6. QED
    BY <2>4, <2>5
<1>10. QED
  BY <1>7, <1>8, <1>9 DEF TurnInv

\* A batch that fails leaves what it evaluated behind the base.
LEMMA DecodeFailsTurn ==
    ASSUME TurnInv, DecodeFails
    PROVE  TurnInv'
<1> DEFINE replay == pc = "replay"
<1>1. /\ pc \in {"prefix", "suffix", "replay"} /\ pc' = "failed" /\ setup' = setup /\ lost' = lost
      /\ turn' = turn /\ rollback' = rollback /\ committed' = committed /\ cached' = cached
      /\ query' = query
      /\ mem' \in {mem, Evaluate(mem, <<Junk>>, replay)} /\ cps' \in {cps, BeforeImage}
      /\ live' \in {live, [live EXCEPT !.cp = None]} /\ (mem' # mem => live'.cp = None)
  BY DEF DecodeFails, Fail, fixed
<1>2. /\ pc \in Serving /\ StateTypes /\ RequestTypes /\ IsMem(mem) /\ IsTurn(turn)
      /\ turn.row \in Nat /\ turn.qrow \in Nat /\ End \in Nat /\ turn.qrow <= End
      /\ turn.prompt \in Seq(Tokens) /\ End <= Len(turn.prompt) /\ Len(turn.prompt) \in Nat
  BY <1>1, RequestFacts DEF TurnInv, StateTypes, RequestTypes, IsTurn, Serving, Evaluating
<1>3. <<Junk>> \in Seq(Tokens)
  BY DEF Tokens
<1>4. replay \in BOOLEAN
  OBVIOUS
<1>5. IsMem(mem')
  <2> HIDE DEF replay
  <2>1. IsMem(Evaluate(mem, <<Junk>>, replay))
    BY <1>2, <1>3, <1>4, EvaluateBehind
  <2>2. QED
    BY <1>1, <1>2, <2>1
<1>6. IsFiniteSet(cps') /\ \A e \in cps' : IsCp(e)
  BY <1>1, <1>2, BeforeImageTyped DEF StateTypes
<1>7. /\ live' = [row |-> live'.row, cp |-> live'.cp] /\ live'.row \in Nat
      /\ live'.cp # None => IsCp(live'.cp)
      /\ live' # live => live'.cp = None
  <2>1. live = [row |-> live.row, cp |-> live.cp] /\ live.row \in Nat
        /\ (live.cp # None => IsCp(live.cp))
    BY <1>2 DEF StateTypes
  <2>2. CASE live' = live
    BY <2>1, <2>2
  <2>3. CASE live' = [live EXCEPT !.cp = None]
    BY <2>1, <2>3
  <2>4. QED
    BY <1>1, <2>2, <2>3
<1>8. ASSUME ~lost PROVE Undoable'
  <2>1. CASE live' = live /\ mem' = mem
    <3>1. Undoable
      BY <1>2, <1>8, ServingUndoable
    <3>2. QED
      BY <1>1, <2>1, <3>1, SameSetup DEF Undoable, Found
  <2>2. CASE live'.cp = None /\ mem' = mem
    <3>1. Undoable /\ rollback.cp # None
      BY <1>2, <1>8, ServingUndoable, BaseFacts
    <3>2. live' # [row |-> rollback.cp.row, cp |-> rollback.cp]
      BY <2>2, <3>1
    <3>3. QED
      BY <1>1, <2>2, <3>1, <3>2, SameSetup DEF Undoable, Found
  <2>3. CASE mem' # mem
    <3>1. mem' = Evaluate(mem, <<Junk>>, replay) /\ live'.cp = None
      BY <1>1, <2>3
    <3> HIDE DEF replay
    <3>2. QED
      BY <1>1, <1>2, <1>3, <1>4, <1>8, <3>1, UndoableBehind
  <2>4. QED
    BY <1>7, <2>1, <2>2, <2>3
<1>9. ASSUME ~lost PROVE \A e \in cps' : e.row < rollback.cp.row => e \in cps
  <2>1. CASE cps' = cps
    BY <2>1
  <2>2. CASE replay
    BY <1>1, <2>2 DEF BeforeImage
  <2>3. CASE cps' = BeforeImage /\ ~replay
    <3>1. /\ AtRow(turn.prompt, turn.row) /\ mem = Holding(Take(turn.prompt, turn.row))
          /\ BaseInv /\ PrefixInv /\ SuffixInv
      BY <1>1, <1>9, <2>3, HeldFacts DEF PrefixInv, SuffixInv
    <3>2. rollback.cp.row \in Nat /\ rollback.cp.row <= turn.row
      <4>1. rollback.cp.row \in Nat /\ rollback.cp.row <= End /\ turn.base = rollback.cp
        BY <1>2, <1>9, BaseFacts
      <4>2. CASE pc = "prefix"
        BY <3>1, <4>1, <4>2 DEF PrefixInv
      <4>3. CASE pc = "suffix"
        <5>1. turn.qrow <= turn.row /\ turn.qrow = QueryRow
          BY <3>1, <4>3 DEF SuffixInv, BaseInv, Serving, Evaluating
        <5>2. rollback.cp.row <= QueryRow
          BY <1>2, <4>1, QueryRowFacts
        <5>3. QED
          BY <1>2, <4>1, <5>1, <5>2
      <4>4. QED
        BY <1>1, <2>3, <4>2, <4>3
    <3>3. turn.row <= Len(turn.prompt)
      BY <1>1, <1>2, <2>3, <3>1 DEF PrefixInv, SuffixInv
    <3>4. \A e \in BeforeImage : e.row = turn.row \/ e \in cps
      BY <1>2, <3>1, <3>3, BeforeImageFacts
    <3>5. QED
      BY <1>2, <2>3, <3>2, <3>4
  <2>4. QED
    BY <1>1, <2>1, <2>2, <2>3
<1>10. QED
  BY <1>1, <1>2, <1>5, <1>6, <1>7, <1>8, <1>9, FailFrame

\* The checkpoint where the query begins drops every other one that is not the
\* prompt's.
LEMMA RememberQueryTurn ==
    ASSUME TurnInv, RememberQuery
    PROVE  TurnInv'
<1> DEFINE p == turn.prompt
           cp == CheckpointAt(mem, turn.qrow)
<1>1. /\ pc = "prefix" /\ turn.row = turn.qrow /\ pc' = "suffix" /\ setup' = setup
      /\ lost' = lost /\ mem' = mem /\ cached' = cached /\ rollback' = rollback
      /\ committed' = committed /\ query' = query
      /\ turn' = [turn EXCEPT !.suffix = cp] /\ cps' = Remember(cps, cp)
      /\ live' = [live EXCEPT !.cp = cp]
  BY DEF RememberQuery, fixed
<1>2. /\ StateTypes /\ RequestTypes /\ IsMem(mem) /\ IsTurn(turn) /\ turn.row \in Nat
      /\ p \in Seq(Tokens) /\ End \in Nat /\ turn.qrow \in Nat /\ turn.qrow <= End
      /\ End <= Len(p) /\ Len(p) \in Nat /\ pc \in Serving
      /\ live = [row |-> live.row, cp |-> live.cp] /\ live.row \in Nat
      /\ (live.cp # None => IsCp(live.cp))
  BY <1>1, RequestFacts DEF TurnInv, StateTypes, RequestTypes, IsTurn, Serving, Evaluating
<1>3. IsCp(cp) /\ cp.row \in Nat
  <2>1. IsCp(cp)
    BY <1>2, CheckpointAtTyped
  <2>2. QED
    BY <2>1 DEF IsCp
<1>4. ASSUME ~lost PROVE cp.row = turn.qrow /\ CpOf(p, cp)
  <2>1. mem = Holding(Take(p, turn.qrow)) /\ AtRow(p, turn.qrow)
    BY <1>1, <1>4, HeldFacts DEF PrefixInv
  <2>2. QED
    BY <1>2, <2>1, CheckpointAtFacts
<1> HIDE DEF cp
<1>5. turn' = [prompt |-> p, span |-> turn.span, reset |-> turn.reset, base |-> turn.base,
               qrow |-> turn.qrow, row |-> turn.row, suffix |-> cp,
               pending |-> turn.pending, reuse |-> turn.reuse, gen |-> turn.gen,
               before |-> turn.before]
  BY <1>1, <1>2 DEF IsTurn
<1>6. live' = [row |-> live.row, cp |-> cp]
  BY <1>1, <1>2
<1>7. /\ IsFiniteSet(cps') /\ cp \in cps'
      /\ \A e \in cps' : e = cp \/ (e \in cps /\ e.row < cp.row)
  <2>1. IsFiniteSet(cps) /\ \A e \in cps : e.row \in Nat
    BY <1>2 DEF StateTypes, IsCp
  <2>2. QED
    BY <1>1, <1>3, <2>1, RememberFacts
<1>8. StateTypes'
  <2>1. IsTurn(turn')
    BY <1>2, <1>5 DEF IsTurn
  <2>2. QED
    BY <1>1, <1>2, <1>3, <1>6, <1>7, <2>1 DEF StateTypes, Serving, Evaluating
<1>9. RequestTypes'
  BY <1>1, <1>2, <1>3, <1>5, SameSetup DEF RequestTypes, Serving, Evaluating, End
<1>10. ASSUME ~lost' PROVE HeldInv'
  <2>1. BaseInv /\ PrefixInv /\ PendingInv /\ ~lost
    BY <1>1, <1>10, HeldFacts
  <2>2. cp.row = turn.qrow /\ CpOf(p, cp)
    BY <1>4, <2>1
  <2>3. /\ rollback.cp.row \in Nat /\ rollback.cp.row <= turn.qrow /\ turn.qrow = QueryRow
        /\ mem = Holding(Take(p, turn.qrow)) /\ AtRow(p, turn.qrow) /\ CoveredFrom(turn.qrow)
    BY <1>1, <1>2, <2>1, BaseFacts DEF PrefixInv, BaseInv, Serving, Evaluating
  <2>4. \A e \in cps' : e.row < rollback.cp.row => e \in cps
    BY <1>2, <1>7, <2>2, <2>3
  <2>5. UndoInv' /\ Found' = Found
    BY <1>1, <1>2, <1>5, <2>1, <2>4, UndoFrame
  <2>6. QueryRow' = QueryRow /\ End' = End
    BY <1>1, <1>5, SameQueryRow, SameSetup DEF End
  <2>7. BaseInv'
    BY <1>1, <1>5, <2>1, <2>5, <2>6 DEF BaseInv, Serving, Evaluating
  <2>8. \A e \in cps' : CpOf(p, e)
    <3>1. SUFFICES ASSUME NEW e \in cps, e.row < turn.qrow PROVE CpOf(p, e)
      BY <1>7, <2>2
    <3>2. e.row \in Nat
      BY <1>2 DEF StateTypes, IsCp
    <3>3. turn.qrow .. e.row = {}
      BY <1>2, <3>1, <3>2
    <3>4. QED
      BY <2>3, <3>3 DEF CoveredFrom
  <2>9. SuffixInv'
    <3>1. AtRow(turn.prompt, turn.row)'
      BY <1>1, <1>5, <1>6, <2>2, <2>3, SameSetup DEF AtRow
    <3>2. mem' = Holding(Take(turn.prompt, turn.row))'
      BY <1>1, <1>5, <2>3, SameSetup
    <3>3. turn.qrow <= turn.row
      BY <1>1, <1>2
    <3>4. QED
      BY <1>1, <1>2, <1>5, <2>2, <2>6, <2>8, <3>1, <3>2, <3>3, SameSetup DEF SuffixInv
  <2>10. PendingInv'
    BY <1>1, <1>5, <2>1, <2>6 DEF PendingInv, Evaluating
  <2>11. QED
    BY <1>1, <2>5, <2>7, <2>9, <2>10
    DEF HeldInv, BetweenInv, ClearedInv, FailedInv, PrefixInv, ReplyInv
<1>11. QED
  BY <1>8, <1>9, <1>10 DEF TurnInv

\* What was captured of this request, or of an earlier one, is of its prompt.
LEMMA CapturedFacts ==
    ASSUME TurnInv, pc = "capture"
    PROVE  /\ Captured # None => IsQuery(Captured)
           /\ ~lost /\ Captured # None =>
                 /\ Captured.span[2] <= End
                 /\ Captured.prefix = Take(turn.prompt, Captured.span[2])
<1>1. /\ IsTurn(turn) /\ turn.span[2] <= End /\ End \in Nat /\ End <= Len(turn.prompt)
      /\ Len(turn.prompt) \in Nat /\ turn.prompt \in Seq(Tokens)
  BY RequestFacts DEF TurnInv, StateTypes, RequestTypes
<1>2. turn.span \in Nat \X Nat /\ (turn.pending # None => IsQuery(turn.pending))
  BY <1>1 DEF IsTurn
<1> DEFINE prefix == Take(turn.prompt, turn.span[2])
<1>3. prefix \in Seq(Tokens) /\ Len(prefix) = turn.span[2]
  BY <1>1, <1>2, TakeFacts
<1>4. CASE Captured = [span |-> turn.span, prefix |-> prefix]
  <2> HIDE DEF prefix
  <2> DEFINE c == Captured
  <2>1. c = [span |-> turn.span, prefix |-> prefix]
    BY <1>4
  <2> HIDE DEF c
  <2>2. IsQuery(c) /\ c.span[2] <= End /\ c.prefix = prefix /\ c.span = turn.span
    BY <1>1, <1>2, <1>3, <2>1 DEF IsQuery
  <2>3. QED
    BY <2>2 DEF c, prefix
<1>5. CASE Captured = turn.pending
  <2>1. ~lost => PendingInv
    BY HeldFacts
  <2>2. QED
    BY <1>2, <1>5, <2>1 DEF PendingInv, Evaluating
<1>6. QED
  BY <1>4, <1>5 DEF Captured

\* At the end of the prompt every memory is at the same row.
LEMMA CaptureTurn ==
    ASSUME TurnInv, Capture
    PROVE  TurnInv'
<1> DEFINE p == turn.prompt
           cp == CheckpointAt(mem, End)
           synced == SpecOK => Len(mem.carry) = End
           c == Captured
<1>1. /\ pc = "capture" /\ setup' = setup
      /\ lost' = lost /\ mem' = mem /\ cached' = cached /\ rollback' = rollback
      /\ committed' = committed /\ query' = query
      /\ turn' = [turn EXCEPT !.pending = c] /\ cps' = Remember(cps, cp)
      /\ live' = [live EXCEPT !.cp = IF synced THEN None ELSE cp]
      /\ pc' = IF synced THEN "generate" ELSE "failed"
  BY DEF Capture, fixed, End
<1>2. /\ StateTypes /\ RequestTypes /\ IsMem(mem) /\ IsTurn(turn)
      /\ p \in Seq(Tokens) /\ End \in Nat /\ turn.gen = <<>>
      /\ End <= Len(p) /\ Len(p) \in Nat /\ pc \in Serving
      /\ live = [row |-> live.row, cp |-> live.cp] /\ live.row \in Nat
      /\ (live.cp # None => IsCp(live.cp))
  BY <1>1, RequestFacts DEF TurnInv, StateTypes, RequestTypes, IsTurn, Serving, Evaluating
<1>3. /\ c # None => IsQuery(c)
      /\ ~lost /\ c # None => c.span[2] <= End /\ c.prefix = Take(p, c.span[2])
  BY <1>1, CapturedFacts
<1>4. IsCp(cp) /\ cp.row \in Nat
  <2>1. IsCp(cp)
    BY <1>2, CheckpointAtTyped
  <2>2. QED
    BY <2>1 DEF IsCp
<1>5. ASSUME ~lost
      PROVE  /\ cp.row = End /\ CpOf(p, cp) /\ synced
             /\ mem = Holding(Take(p, End)) /\ AtRow(p, End)
  <2>1. mem = Holding(Take(p, End)) /\ AtRow(p, End)
    BY <1>1, <1>5, HeldFacts DEF ReplyInv
  <2>2. cp.row = End /\ CpOf(p, cp)
    BY <1>2, <2>1, CheckpointAtFacts
  <2>3. Take(p, End) \in Seq(Tokens) /\ Len(Take(p, End)) = End
    BY <1>2, TakeFacts
  <2>4. mem.carry = OfDraft(Take(p, End))
    BY <2>1, <2>3, HoldingFacts
  <2>5. synced
    BY <2>3, <2>4 DEF OfDraft
  <2>6. QED
    BY <2>1, <2>2, <2>5
<1> HIDE DEF cp, synced, c
<1>6. turn' = [prompt |-> p, span |-> turn.span, reset |-> turn.reset, base |-> turn.base,
               qrow |-> turn.qrow, row |-> turn.row, suffix |-> turn.suffix,
               pending |-> c, reuse |-> turn.reuse, gen |-> turn.gen,
               before |-> turn.before]
  BY <1>1, <1>2 DEF IsTurn
<1>7. live' = [row |-> live.row, cp |-> IF synced THEN None ELSE cp]
  BY <1>1, <1>2
<1>8. /\ IsFiniteSet(cps') /\ cp \in cps'
      /\ \A e \in cps' : e = cp \/ (e \in cps /\ e.row < cp.row)
  <2>1. IsFiniteSet(cps) /\ \A e \in cps : e.row \in Nat
    BY <1>2 DEF StateTypes, IsCp
  <2>2. QED
    BY <1>1, <1>4, <2>1, RememberFacts
<1>9. StateTypes'
  <2>1. IsTurn(turn')
    BY <1>2, <1>3, <1>6 DEF IsTurn
  <2>2. QED
    BY <1>1, <1>2, <1>4, <1>7, <1>8, <2>1 DEF StateTypes, Serving, Evaluating
<1>10. RequestTypes'
  BY <1>1, <1>2, <1>6, SameSetup DEF RequestTypes, Serving, Evaluating, End
<1>11. ASSUME ~lost' PROVE HeldInv'
  <2>1. /\ BaseInv /\ SuffixInv /\ ~lost /\ cp.row = End /\ CpOf(p, cp)
        /\ mem = Holding(Take(p, End)) /\ pc' = "generate" /\ live'.cp = None
    BY <1>1, <1>5, <1>7, <1>11, HeldFacts
  <2>2. \A e \in cps' : e.row < rollback.cp.row => e \in cps
    <3>1. rollback.cp.row \in Nat /\ rollback.cp.row <= End
      BY <1>2, <2>1, BaseFacts
    <3>2. QED
      BY <1>2, <1>8, <2>1, <3>1
  <2>3. UndoInv' /\ Found' = Found
    BY <1>1, <1>2, <1>6, <2>1, <2>2, UndoFrame
  <2>4. QueryRow' = QueryRow /\ End' = End
    BY <1>1, <1>6, SameQueryRow, SameSetup DEF End
  <2>5. BaseInv'
    BY <1>1, <1>6, <2>1, <2>3, <2>4 DEF BaseInv, Serving, Evaluating
  <2>6. SuffixInv'
    <3>1. \A e \in cps : CpOf(p, e)
      BY <1>1, <2>1 DEF SuffixInv
    <3>2. QED
      BY <1>1, <1>6, <1>8, <2>1, <3>1, SameSetup DEF SuffixInv
  <2>7. ReplyInv'
    <3>1. turn'.prompt = p /\ turn'.gen = <<>>
      BY <1>2, <1>6
    <3>2. Text(turn.gen)' = p
      BY <1>2, <3>1, ConcatEmptySeq DEF Text
    <3>3. EvalEnd(turn.prompt)' + Len(turn.gen)' = End
      BY <1>1, <1>2, <3>1, NoRows, SameSetup DEF End
    <3>4. HoldsPrompt'
      BY <1>1, <2>1, <3>2, <3>3, SameSetup DEF HoldsPrompt
    <3>5. QED
      BY <2>1, <3>4 DEF ReplyInv
  <2>8. PendingInv'
    BY <1>1, <1>3, <1>6, <2>1, <2>4 DEF PendingInv
  <2>9. QED
    BY <2>1, <2>3, <2>5, <2>6, <2>7, <2>8
    DEF HeldInv, BetweenInv, ClearedInv, FailedInv, PrefixInv
<1>12. QED
  BY <1>9, <1>10, <1>11 DEF TurnInv

\* The row numbers of a reply that gets one more token, for a prompt of l rows
\* of which e were evaluated and a reply of g.
LEMMA WithOneMore ==
    ASSUME NEW l \in Nat, NEW g \in Nat, NEW e \in Nat, l > 1, e = l - 1 \/ e = l
    PROVE  /\ e + g \in Nat /\ e + g <= l + g /\ e + g + 1 \in 1 .. l + g + 1
           /\ e + (g + 1) = e + g + 1 /\ l + g \in 1 .. l + g
           /\ e = l - 1 => e + g + 1 = l + g
           /\ e = l => e + g + 1 = l + g + 1
  OBVIOUS

\* With one more token in the reply, the next row is the one evaluated for it.
LEMMA ReplyGrows ==
    ASSUME TurnInv, pc = "generate", NEW t \in Tokens,
           NEW tok, tok = IF SpecOK THEN Last(Text(turn.gen)) ELSE t
    PROVE  LET Y == Text(Append(turn.gen, t))
               m == End + Len(turn.gen)
           IN  /\ Y \in Seq(Tokens) /\ tok \in Tokens /\ m \in Nat /\ m + 1 <= Len(Y)
               /\ End + Len(Append(turn.gen, t)) = m + 1
               /\ Take(Y, m) = Take(Text(turn.gen), m) /\ SubSeq(Y, m + 1, m + 1) = <<tok>>
<1> DEFINE p == turn.prompt
           h == turn.gen
           o == <<t>>
           a == Append(h, t)
           X == Text(h)
           Y == Text(a)
           m == End + Len(h)
           l == Len(p)
           g == Len(h)
           x == Len(X)
           e == End
<1>1. /\ p \in Seq(Tokens) /\ h \in Seq(Tokens) /\ l \in Nat /\ g \in Nat /\ l > 1
      /\ e \in Nat /\ e = (IF SpecOK THEN l - 1 ELSE l)
  BY RequestFacts, PromptFacts
<1>2. X \in Seq(Tokens) /\ x = l + g
  BY TextFacts
<1>3. a = h \o o /\ Len(a) = g + 1 /\ o \in Seq(Tokens)
  BY <1>1, OneMore
<1>4. Y = X \o o
  <2>1. Y = p \o (h \o o) /\ X = p \o h
    BY <1>3 DEF Text
  <2> HIDE DEF p, h, o
  <2>2. (p \o h) \o o = p \o (h \o o)
    BY <1>1, <1>3, ConcatAssociative
  <2>3. QED
    BY <2>1, <2>2
<1> HIDE DEF X
<1>5. /\ Y \in Seq(Tokens) /\ Len(Y) = x + 1
      /\ \A i \in 1 .. x : Y[i] = X[i] /\ X[i] \in Tokens
      /\ Y[x + 1] = t
  <2> DEFINE z == X \o <<t>>
  <2>1. z \in Seq(Tokens) /\ Len(z) = x + 1
    BY <1>2, OneMore
  <2>2. ASSUME NEW i \in 1 .. x PROVE z[i] = X[i]
    <3>1. \A s \in Seq(Tokens) : \A k \in 1 .. Len(s) : (s \o <<t>>)[k] = s[k]
      BY OneMore
    <3>2. QED
      BY <1>2, <3>1
  <2>3. z[x + 1] = t
    BY <1>2, OneMore
  <2>4. \A i \in 1 .. x : X[i] \in Tokens
    BY <1>2, ElementOfSeq
  <2>5. Y = z
    BY <1>4
  <2> HIDE DEF z, Y
  <2>6. QED
    BY <2>1, <2>2, <2>3, <2>4, <2>5
<1>6. \A n \in Nat : n <= x => Take(Y, n) = Take(X, n)
  <2> HIDE DEF o
  <2>1. \A n \in Nat : n <= x => Take(X \o o, n) = Take(X, n)
    BY <1>2, <1>3, TakeOfConcat
  <2>2. QED
    BY <1>4, <2>1
<1>7. m = e + g /\ e = End
  OBVIOUS
<1>8. tok = IF SpecOK THEN X[x] ELSE t
  BY DEF Last, X
<1> HIDE DEF Y, m, x, l, g, e, a
<1>9. /\ m \in Nat /\ m <= x /\ m + 1 \in 1 .. x + 1 /\ x \in 1 .. x /\ e + (g + 1) = m + 1
      /\ SpecOK => m + 1 = x
      /\ ~SpecOK => m + 1 = x + 1
  BY <1>1, <1>2, <1>7, WithOneMore
<1>10. Y[m + 1] = tok /\ tok \in Tokens
  <2>1. CASE SpecOK
    BY <1>5, <1>8, <1>9, <2>1
  <2>2. CASE ~SpecOK
    BY <1>5, <1>8, <1>9, <2>2
  <2>3. QED
    BY <2>1, <2>2
<1>11. SubSeq(Y, m + 1, m + 1) = <<tok>>
  <2>1. m + 1 \in 1 .. Len(Y)
    BY <1>5, <1>9
  <2>2. QED
    BY <1>5, <1>10, <2>1, OneRow
<1>12. m + 1 <= Len(Y) /\ e + Len(a) = m + 1 /\ Take(Y, m) = Take(X, m)
  <2>1. x \in Nat /\ Len(Y) = x + 1
    BY <1>1, <1>2, <1>5
  <2>2. m + 1 <= Len(Y)
    BY <1>9, <2>1
  <2>3. QED
    BY <1>3, <1>6, <1>9, <2>2
<1>13. /\ Y \in Seq(Tokens) /\ tok \in Tokens /\ m \in Nat /\ m + 1 <= Len(Y)
       /\ e + Len(a) = m + 1
       /\ Take(Y, m) = Take(X, m) /\ SubSeq(Y, m + 1, m + 1) = <<tok>>
  BY <1>5, <1>9, <1>10, <1>11, <1>12
<1>14. QED
  BY <1>13 DEF X, m, Y, a, e

\* A token of the reply is evaluated behind the rows there are.
LEMMA GenerateTurn ==
    ASSUME TurnInv, NEW t \in Words, Generate(t)
    PROVE  TurnInv'
<1> DEFINE p == turn.prompt
           h == turn.gen
           tok == IF SpecOK THEN Last(Text(turn.gen)) ELSE t
<1>1. /\ pc = "generate" /\ pc' = "generate" /\ Len(h) < setup.reply /\ setup' = setup
      /\ lost' = lost /\ cps' = cps /\ cached' = cached /\ rollback' = rollback
      /\ committed' = committed /\ query' = query
      /\ turn' = [turn EXCEPT !.gen = Append(h, t)]
      /\ mem' = Evaluate(mem, <<tok>>, FALSE) /\ live' = [live EXCEPT !.row = Len(mem'.kv)]
  BY DEF Generate, fixed
<1>2. /\ StateTypes /\ RequestTypes /\ IsMem(mem) /\ IsTurn(turn) /\ h \in Seq(Tokens)
      /\ p \in Seq(Tokens) /\ End \in Nat /\ Len(h) \in Nat /\ pc \in Serving
      /\ End = IF SpecOK THEN Len(p) - 1 ELSE Len(p)
      /\ live = [row |-> live.row, cp |-> live.cp] /\ live.row \in Nat
      /\ (live.cp # None => IsCp(live.cp)) /\ Len(p) > 1 /\ setup.reply \in Nat
      /\ p \in setup.prompts /\ setup \in Setups
  BY <1>1, RequestFacts, PromptFacts
  DEF TurnInv, StateTypes, RequestTypes, IsTurn, Serving, Evaluating
<1>3. t \in Tokens
  BY DEF Tokens
<1> DEFINE Y == Text(Append(turn.gen, t))
           m == End + Len(turn.gen)
<1>4. /\ Y \in Seq(Tokens) /\ tok \in Tokens /\ m \in Nat /\ m + 1 <= Len(Y)
      /\ End + Len(Append(h, t)) = m + 1
      /\ Take(Y, m) = Take(Text(h), m) /\ SubSeq(Y, m + 1, m + 1) = <<tok>>
  BY <1>1, <1>3, ReplyGrows
<1>5. Append(h, t) \in Seq(Tokens) /\ Len(Append(h, t)) = Len(h) + 1
  BY <1>2, <1>3, OneMore
<1> HIDE DEF tok, Y, m
<1>6. turn' = [prompt |-> p, span |-> turn.span, reset |-> turn.reset, base |-> turn.base,
               qrow |-> turn.qrow, row |-> turn.row, suffix |-> turn.suffix,
               pending |-> turn.pending, reuse |-> turn.reuse, gen |-> Append(h, t),
               before |-> turn.before]
  BY <1>1, <1>2 DEF IsTurn
<1>7. IsMem(mem') /\ Len(mem'.kv) \in Nat
  <2>1. <<tok>> \in Seq(Tokens) /\ FALSE \in BOOLEAN
    BY <1>4
  <2>2. IsMem(mem')
    <3>1. IsMem(Evaluate(mem, <<tok>>, FALSE))
      BY <1>2, <2>1, EvaluateBehind
    <3>2. QED
      BY <1>1, <3>1
  <2>3. QED
    BY <2>2, LenProperties DEF IsMem
<1>8. live' = [row |-> Len(mem'.kv), cp |-> live.cp]
  BY <1>1, <1>2
<1>9. StateTypes'
  <2>1. IsTurn(turn')
    BY <1>2, <1>5, <1>6 DEF IsTurn
  <2>2. QED
    BY <1>1, <1>2, <1>7, <1>8, <2>1 DEF StateTypes
<1>10. RequestTypes'
  <2>1. Len(turn'.gen) <= setup.reply
    <3>1. turn'.gen = Append(h, t)
      BY <1>6
    <3> DEFINE k == Len(h)
    <3>2. k \in Nat /\ k < setup.reply /\ setup.reply \in Nat /\ Len(turn'.gen) = k + 1
      BY <1>1, <1>2, <1>5, <3>1
    <3> HIDE DEF k
    <3>3. QED
      BY <3>2
  <2>2. QED
    BY <1>1, <1>2, <1>6, <2>1, SameSetup DEF RequestTypes, Serving, Evaluating, End
<1>11. ASSUME ~lost' PROVE HeldInv'
  <2>1. BaseInv /\ SuffixInv /\ ReplyInv /\ PendingInv /\ ~lost
    BY <1>1, <1>11, HeldFacts
  <2>2. UndoInv' /\ Found' = Found
    BY <1>1, <1>2, <1>6, <2>1, UndoFrame
  <2>3. QueryRow' = QueryRow /\ End' = End
    BY <1>1, <1>6, SameQueryRow, SameSetup DEF End
  <2>4. BaseInv'
    BY <1>1, <1>6, <2>1, <2>2, <2>3 DEF BaseInv, Serving, Evaluating
  <2>5. SuffixInv'
    BY <1>1, <1>6, <2>1, SameSetup DEF SuffixInv
  <2>6. mem = Holding(Take(Text(h), m)) /\ live.cp = None
    BY <1>1, <2>1 DEF ReplyInv, HoldsPrompt, End, m
  <2>7. mem' = Holding(Take(Y, m + 1))
    <3>1. m + 1 \in Nat /\ m <= m + 1
      BY <1>4
    <3>2. Evaluate(Holding(Take(Y, m)), SubSeq(Y, m + 1, m + 1), FALSE) = Holding(Take(Y, m + 1))
      BY <1>4, <3>1, EvaluateNext
    <3>3. QED
      BY <1>1, <1>4, <2>6, <3>2
  <2>8. HoldsPrompt'
    <3>1. turn'.prompt = p /\ turn'.gen = Append(h, t)
      BY <1>6
    <3>2. Text(turn.gen)' = Y
      BY <3>1 DEF Text, Y
    <3>3. EvalEnd(turn.prompt)' + Len(turn.gen)' = m + 1
      BY <1>1, <1>4, <3>1, SameSetup DEF End
    <3>4. QED
      BY <1>1, <2>7, <3>2, <3>3, SameSetup DEF HoldsPrompt
  <2>9. ReplyInv'
    BY <1>1, <1>8, <2>6, <2>8 DEF ReplyInv
  <2>10. PendingInv'
    BY <1>1, <1>6, <2>1, <2>3 DEF PendingInv
  <2>11. QED
    BY <1>1, <2>2, <2>4, <2>5, <2>9, <2>10
    DEF HeldInv, BetweenInv, ClearedInv, FailedInv, PrefixInv
<1>12. QED
  BY <1>9, <1>10, <1>11 DEF TurnInv

\* A token that fails leaves its row behind the base.
LEMMA GenerateFailsTurn ==
    ASSUME TurnInv, GenerateFails
    PROVE  TurnInv'
<1>1. /\ pc = "generate" /\ pc' = "failed" /\ setup' = setup /\ lost' = lost
      /\ turn' = turn /\ rollback' = rollback /\ committed' = committed /\ cached' = cached
      /\ query' = query /\ cps' = cps /\ live' = live
      /\ mem' \in {mem, Evaluate(mem, <<Junk>>, FALSE)}
  BY DEF GenerateFails, Fail, fixed
<1>2. pc \in Serving /\ StateTypes /\ IsMem(mem)
  BY <1>1 DEF TurnInv, StateTypes, Serving, Evaluating
<1>3. <<Junk>> \in Seq(Tokens) /\ FALSE \in BOOLEAN
  BY DEF Tokens
<1>4. IsMem(mem')
  <2>1. IsMem(Evaluate(mem, <<Junk>>, FALSE))
    BY <1>2, <1>3, EvaluateBehind
  <2>2. QED
    BY <1>1, <1>2, <2>1
<1>5. ASSUME ~lost PROVE Undoable'
  <2>1. CASE mem' = mem
    <3>1. Undoable
      BY <1>2, <1>5, ServingUndoable
    <3>2. QED
      BY <1>1, <2>1, <3>1, SameSetup DEF Undoable, Found
  <2>2. CASE mem' = Evaluate(mem, <<Junk>>, FALSE)
    <3>1. live'.cp = None
      BY <1>1, <1>5, HeldFacts DEF ReplyInv
    <3>2. QED
      BY <1>1, <1>2, <1>3, <1>5, <2>2, <3>1, UndoableBehind
  <2>3. QED
    BY <1>1, <2>1, <2>2
<1>6. QED
  BY <1>1, <1>2, <1>4, <1>5, FailFrame DEF StateTypes

\* The rows evaluated of a prompt and its reply are within the bound.
LEMMA ReplyRows ==
    ASSUME NEW l \in Nat, NEW g \in Nat, NEW e \in Nat, NEW x, NEW max, e <= l, x = l + g,
           l + g <= max
    PROVE  /\ e + g \in Nat /\ e + g <= x /\ x \in Nat /\ x <= max /\ e <= e + g /\ l <= x
  OBVIOUS

\* commit_cached: the conversation and the reply are what the memories hold.
LEMMA CommitTurn ==
    ASSUME TurnInv, Commit
    PROVE  TurnInv'
<1> DEFINE p == turn.prompt
           X == Text(turn.gen)
           row == Len(mem.store)
           cp == CheckpointAt(mem, row)
           m == End + Len(turn.gen)
<1>1. /\ pc = "generate" /\ pc' = "idle" /\ setup' = setup /\ lost' = lost
      /\ cached' = X /\ cps' = Remember(cps, cp) /\ live' = [row |-> row, cp |-> cp]
      /\ query' = turn.pending /\ committed' = TRUE /\ rollback' = None
      /\ turn' = NoTurn /\ mem' = mem
  BY DEF Commit, fixed
<1>2. /\ StateTypes /\ RequestTypes /\ IsMem(mem) /\ IsTurn(turn) /\ pc \in Serving
      /\ (live.cp # None => IsCp(live.cp)) /\ mem.store \in Seq(Tokens)
      /\ (turn.pending # None => IsQuery(turn.pending))
      /\ p \in Seq(Tokens) /\ Len(p) \in Nat /\ End <= Len(p) /\ End \in Nat
      /\ Len(turn.gen) \in Nat /\ Len(p) + Len(turn.gen) <= MaxRows
  BY <1>1, RequestFacts DEF TurnInv, StateTypes, IsMem, IsTurn, Serving, Evaluating
<1>3. X \in Seq(Tokens) /\ Len(X) = Len(p) + Len(turn.gen)
      /\ Take(X, Len(p)) = Take(p, Len(p))
  <2>1. Len(p) <= Len(p)
    BY <1>2
  <2>2. QED
    BY <1>1, <1>2, <2>1, TextFacts
<1>4. m \in Nat /\ m <= Len(X) /\ Len(X) \in Nat /\ Len(X) <= MaxRows /\ End <= m
      /\ Len(p) <= Len(X)
  <2> DEFINE l == Len(p)
             g == Len(turn.gen)
             e == End
             x == Len(X)
  <2>1. l \in Nat /\ g \in Nat /\ e \in Nat /\ e <= l /\ x = l + g /\ l + g <= MaxRows /\ m = e + g
    BY <1>2, <1>3
  <2> HIDE DEF l, g, e, x, m
  <2>2. m \in Nat /\ m <= x /\ x \in Nat /\ x <= MaxRows /\ e <= m /\ l <= x
    BY <2>1, ReplyRows
  <2>3. QED
    BY <2>2 DEF l, e, x
<1>5. row \in Nat
  BY <1>2, LenProperties
<1>6. ASSUME ~lost
      PROVE  /\ mem = Holding(Take(X, m)) /\ row = m /\ cp.row = m /\ CpOf(X, cp)
             /\ \A e \in cps : CpOf(X, e)
  <2>1. mem = Holding(Take(X, m)) /\ live.cp = None
    BY <1>1, <1>6, HeldFacts DEF ReplyInv, HoldsPrompt, End
  <2>2. Take(X, m) \in Seq(Tokens) /\ Len(Take(X, m)) = m
    BY <1>3, <1>4, TakeFacts
  <2>3. row = m
    BY <2>1, <2>2, HoldingFacts
  <2>4. cp.row = m /\ CpOf(X, cp)
    <3> HIDE DEF m, X
    <3>1. CheckpointAt(Holding(Take(X, m)), m).row = m
          /\ CpOf(X, CheckpointAt(Holding(Take(X, m)), m))
      BY <1>2, <1>3, <1>4, <2>1, CheckpointAtFacts
    <3>2. QED
      BY <2>1, <2>3, <3>1
  <2>5. ASSUME NEW e \in cps PROVE CpOf(X, e)
    <3>1. CpOf(p, e) /\ IsCp(e)
      BY <1>1, <1>2, <1>6, HeldFacts DEF SuffixInv, StateTypes
    <3>2. e.row <= Len(p) /\ Len(p) <= Len(X)
      BY <1>4, <3>1 DEF CpOf
    <3> HIDE DEF X, p
    <3>3. QED
      BY <1>2, <1>3, <3>1, <3>2, CpOfPrefix
  <2>6. QED
    BY <2>1, <2>3, <2>4, <2>5
<1>7. IsCp(cp) /\ cp.row \in Nat
  <2>1. IsCp(cp)
    BY <1>2, <1>5, CheckpointAtTyped
  <2>2. QED
    BY <2>1 DEF IsCp
<1> HIDE DEF X, m, row, cp
<1>8. /\ IsFiniteSet(cps') /\ cp \in cps'
      /\ \A e \in cps' : e = cp \/ (e \in cps /\ e.row < cp.row)
  <2>1. IsFiniteSet(cps) /\ \A e \in cps : e.row \in Nat
    BY <1>2 DEF StateTypes, IsCp
  <2>2. QED
    BY <1>1, <1>7, <2>1, RememberFacts
<1>9. StateTypes'
  BY <1>1, <1>2, <1>3, <1>5, <1>7, <1>8, NoTurnFacts DEF StateTypes
<1>10. RequestTypes'
  BY <1>1, NoTurnFacts DEF RequestTypes, Serving, Evaluating
<1>11. ASSUME ~lost' PROVE HeldInv'
  <2>1. /\ mem = Holding(Take(X, m)) /\ row = m /\ cp.row = m /\ CpOf(X, cp) /\ ~lost
        /\ \A e \in cps : CpOf(X, e)
    BY <1>1, <1>6, <1>11
  <2>2. Conversation' = X
    <3>1. X # None
      BY <1>3, NoneApart
    <3>2. QED
      BY <1>1, <3>1 DEF Conversation
  <2>3. \A e \in cps' : e.row <= m /\ CpOf(X, e)
    <3>1. \A e \in cps : e.row \in Nat
      BY <1>2 DEF StateTypes, IsCp
    <3>2. QED
      BY <1>4, <1>8, <2>1, <3>1
  <2>4. ASSUME turn.pending # None
        PROVE  turn.pending.span[2] <= m /\ turn.pending.prefix = Take(X, turn.pending.span[2])
    <3> DEFINE n == turn.pending.span[2]
    <3>1. n <= End /\ turn.pending.prefix = Take(p, n) /\ n \in Nat
      BY <1>1, <1>2, <2>1, <2>4, HeldFacts DEF PendingInv, Evaluating, IsQuery
    <3> HIDE DEF n
    <3>2. n <= m /\ n <= Len(p)
      BY <1>2, <1>4, <3>1
    <3>3. Take(X, n) = Take(p, n)
      BY <1>2, <1>3, <3>1, <3>2, TakeShorter
    <3>4. QED
      BY <3>1, <3>2, <3>3 DEF n
  <2>5. Between'
    <3>2. AtRow(Conversation, live.row)'
      BY <1>1, <2>1, <2>2, SameSetup DEF AtRow
    <3>3. mem' = Holding(Take(Conversation, live.row))'
      BY <1>1, <2>1, <2>2, SameSetup
    <3>4. QED
      BY <1>1, <1>4, <1>8, <2>1, <2>2, <2>3, <2>4, <3>2, <3>3, SameSetup DEF Between
  <2>6. QED
    BY <1>1, <2>5
    DEF HeldInv, BetweenInv, ClearedInv, UndoInv, FailedInv, BaseInv, PrefixInv, SuffixInv,
        ReplyInv, PendingInv, Serving, Evaluating
<1>12. QED
  BY <1>9, <1>10, <1>11 DEF TurnInv

\* A restore keeps the memories what memories are.
LEMMA RestoredTyped ==
    ASSUME NEW m, IsMem(m), NEW cp, IsCp(cp)
    PROVE  IsMem(RestoredStore(m, cp))
<1> DEFINE c == RestoredCarry(m, cp)
           s == Take(c.store, cp.row)
           n == RestoredStore(m, cp).mean
           t == RestoredStore(m, cp)
<1>1. cp.row \in Nat /\ 0 \in Nat /\ 0 <= cp.row
  BY DEF IsCp
<1>2. IsMem(c)
  BY <1>1, RestoredPart
<1>3. s \in Seq(Tokens)
  BY <1>1, <1>2, TakeFacts DEF IsMem
<1>4. t.kv = c.kv /\ t.store = s
      /\ t = [kv |-> t.kv, store |-> t.store, rec |-> t.rec, mean |-> t.mean,
              draft |-> t.draft, carry |-> t.carry]
  <2> DEFINE cut == IF cp.row < Len(m.store) THEN TruncateMean(m.mean, cp.row) ELSE m.mean
             x == SetTailMean(cut, cp.row, cp.tail)
  <2>1. t = [c EXCEPT !.store = s, !.mean = x]
    BY DEF RestoredStore
  <2>2. c = [kv |-> c.kv, store |-> c.store, rec |-> c.rec, mean |-> c.mean,
             draft |-> c.draft, carry |-> c.carry]
    BY <1>2 DEF IsMem
  <2> HIDE DEF t, c, s, cut, x
  <2>3. QED
    BY <2>1, <2>2
<1> HIDE DEF c, s, t
<1>5. IsMem(t)
  BY <1>2, <1>3, <1>4 DEF IsMem
<1>6. QED
  BY <1>5 DEF t

\* What a rollback leaves: the rows found at the base, in every memory.
LEMMA RolledBack ==
    ASSUME TurnInv, ~lost, pc = "failed", rollback # None
    PROVE  /\ RestoredStore(mem, rollback.cp) = Holding(Found)
           /\ Found \in Seq(Tokens) /\ Len(Found) = rollback.cp.row
           /\ rollback.cp.row <= MaxRows /\ rollback.cp.row \in Nat
           /\ CpOf(Found, rollback.cp) /\ Take(Found, rollback.cp.row) = Found
           /\ rollback.cp.row <= Len(turn.before) /\ Take(turn.before, rollback.cp.row) = Found
           /\ \A e \in cps : e.row < rollback.cp.row => CpOf(Found, e)
<1>1. UndoInv /\ FailedInv /\ StateTypes /\ RequestTypes /\ IsMem(mem)
  BY HeldFacts DEF StateTypes
<1>2. IsCp(rollback.cp) /\ rollback.cp.row \in Nat /\ Found \in Seq(Tokens)
  BY <1>1, NoRows DEF RequestTypes, IsCp, Found
<1>3. /\ Len(Found) = rollback.cp.row /\ CpOf(Found, rollback.cp)
      /\ rollback.cp.row <= MaxRows
      /\ rollback.cp.row <= Len(turn.before) /\ Take(turn.before, rollback.cp.row) = Found
      /\ \A e \in cps : e.row < rollback.cp.row => CpOf(Found, e)
  BY <1>1 DEF UndoInv
<1>4. Undoable
  BY <1>1 DEF FailedInv
<1>5. Take(Found, rollback.cp.row) = Found
  BY <1>2, <1>3, TakeAll
<1>6. RestoredStore(mem, rollback.cp) = Holding(Found)
  BY <1>1, <1>2, <1>3, <1>4, RestoredHolds DEF Undoable
<1>7. QED
  BY <1>2, <1>3, <1>5, <1>6

\* A rollback leaves the conversation the request found, up to its base.
LEMMA RollBackTurn ==
    ASSUME TurnInv, RollBack
    PROVE  TurnInv'
<1> DEFINE cp == rollback.cp
<1>1. /\ pc = "failed" /\ pc' = "idle" /\ rollback # None /\ setup' = setup /\ lost' = lost
      /\ mem' = RestoredStore(mem, cp) /\ live' = [row |-> cp.row, cp |-> cp]
      /\ cps' = Remember(cps, cp) /\ cached' = rollback.prompt /\ query' = None
      /\ committed' = TRUE /\ rollback' = None /\ turn' = NoTurn
  BY DEF RollBack, NothingToUndo, fixed
<1>2. /\ StateTypes /\ RequestTypes /\ IsMem(mem) /\ IsCp(cp) /\ cp.row \in Nat
      /\ rollback.prompt \in Seq(Tokens) \cup {None}
  BY <1>1 DEF TurnInv, StateTypes, RequestTypes, IsCp
<1> HIDE DEF cp
<1>3. /\ IsFiniteSet(cps') /\ cp \in cps'
      /\ \A e \in cps' : e = cp \/ (e \in cps /\ e.row < cp.row)
  <2>1. IsFiniteSet(cps) /\ \A e \in cps : e.row \in Nat
    BY <1>2 DEF StateTypes, IsCp
  <2>2. QED
    BY <1>1, <1>2, <2>1, RememberFacts
<1>4. IsMem(mem')
  BY <1>1, <1>2, RestoredTyped
<1>5. StateTypes'
  BY <1>1, <1>2, <1>3, <1>4, NoTurnFacts DEF StateTypes
<1>6. RequestTypes'
  BY <1>1, NoTurnFacts DEF RequestTypes, Serving, Evaluating
<1>7. ASSUME ~lost' PROVE HeldInv'
  <2> DEFINE F == Found
  <2>1. /\ mem' = Holding(F) /\ F \in Seq(Tokens) /\ Len(F) = cp.row /\ cp.row <= MaxRows
        /\ CpOf(F, cp) /\ Take(F, cp.row) = F
        /\ \A e \in cps : e.row < cp.row => CpOf(F, e)
    BY <1>1, <1>7, RolledBack DEF cp
  <2>2. Conversation' = F
    BY <1>1 DEF Conversation, Found
  <2> HIDE DEF F
  <2>3. \A e \in cps' : e.row <= cp.row /\ CpOf(F, e)
    <3>1. \A e \in cps : e.row \in Nat
      BY <1>2 DEF StateTypes, IsCp
    <3>2. QED
      BY <1>2, <1>3, <2>1, <3>1
  <2>4. Between'
    <3>1. AtRow(Conversation, live.row)'
      BY <1>1, <2>1, <2>2, SameSetup DEF AtRow
    <3>2. mem' = Holding(Take(Conversation, live.row))'
      BY <1>1, <2>1, <2>2, SameSetup
    <3>3. cp.row <= cp.row
      BY <1>2
    <3>4. QED
      BY <1>1, <1>3, <2>1, <2>2, <2>3, <3>1, <3>2, <3>3, SameSetup DEF Between
  <2>5. QED
    BY <1>1, <2>4
    DEF HeldInv, BetweenInv, ClearedInv, UndoInv, FailedInv, BaseInv, PrefixInv, SuffixInv,
        ReplyInv, PendingInv, Serving, Evaluating
<1>8. QED
  BY <1>5, <1>6, <1>7 DEF TurnInv

\* After a rollback that failed only the types are left.
LEMMA RollBackFailsTurn ==
    ASSUME TurnInv, RollBackFails
    PROVE  TurnInv'
<1> DEFINE cp == rollback.cp
<1>1. /\ pc = "failed" /\ pc' = "idle" /\ rollback # None /\ setup' = setup /\ lost' = TRUE
      /\ mem' \in {mem, RestoredState(mem, cp), RestoredRows(mem, cp)}
      /\ cps' = cps /\ live' = live /\ cached' = cached /\ query' = query
      /\ committed' = committed /\ rollback' = None /\ turn' = NoTurn
  BY DEF RollBackFails, NothingToUndo
<1>2. StateTypes /\ RequestTypes /\ IsMem(mem) /\ IsCp(cp) /\ cp.row \in Nat
  BY <1>1 DEF TurnInv, StateTypes, RequestTypes, IsCp
<1> HIDE DEF cp
<1>3. IsMem(mem')
  <2>1. 0 \in Nat /\ 0 <= cp.row
    BY <1>2
  <2>2. IsMem(RestoredState(mem, cp)) /\ IsMem(RestoredRows(mem, cp))
    BY <1>2, <2>1, RestoredPart
  <2>3. QED
    BY <1>1, <1>2, <2>2
<1>4. StateTypes'
  BY <1>1, <1>2, <1>3, NoTurnFacts DEF StateTypes
<1>5. RequestTypes'
  BY <1>1, NoTurnFacts DEF RequestTypes, Serving, Evaluating
<1>6. QED
  BY <1>1, <1>4, <1>5 DEF TurnInv

\* A request that failed before it had a base has cleared everything.
LEMMA LeaveFailedTurn ==
    ASSUME TurnInv, LeaveFailed
    PROVE  /\ TurnInv'
           /\ ~lost' => mem' = Holding(<<>>) /\ cached' = None
<1>1. /\ pc = "failed" /\ pc' = "idle" /\ setup' = setup /\ lost' = lost /\ mem' = mem
      /\ cps' = cps /\ live' = live /\ cached' = cached /\ query' = query
      /\ committed' = committed /\ rollback' = rollback /\ turn' = NoTurn
      /\ StateTypes /\ RequestTypes
  BY DEF LeaveFailed, fixed, TurnInv
<1>2. rollback = None
  BY DEF LeaveFailed, NothingToUndo, TurnInv, RequestTypes
<1>3. StateTypes'
  BY <1>1, NoTurnFacts DEF StateTypes
<1>4. RequestTypes'
  BY <1>1, <1>2, NoTurnFacts DEF RequestTypes, Serving, Evaluating
<1>5. ASSUME ~lost' PROVE HeldInv' /\ mem' = Holding(<<>>) /\ cached' = None
  <2>1. mem = Holding(<<>>) /\ cps = {} /\ cached = None /\ query = None /\ live = NoLive
    BY <1>1, <1>2, <1>5, HeldFacts DEF ClearedInv
  <2>2. Empty'
    BY <1>1, <2>1, SameSetup DEF Empty, AtRow, NoLive
  <2>3. Between'
    BY <2>2, EmptyBetween, PTL
  <2>4. HeldInv'
    BY <1>1, <2>3
    DEF HeldInv, BetweenInv, ClearedInv, UndoInv, FailedInv, BaseInv, PrefixInv, SuffixInv,
        ReplyInv, PendingInv, Serving, Evaluating
  <2>5. QED
    BY <1>1, <2>1, <2>4
<1>6. QED
  BY <1>3, <1>4, <1>5 DEF TurnInv

\* A step that changes nothing keeps the invariant.
LEMMA StutterTurn ==
    ASSUME TurnInv, vars' = vars
    PROVE  TurnInv'
<1>1. /\ setup' = setup /\ lost' = lost /\ mem' = mem /\ cps' = cps /\ live' = live
      /\ cached' = cached /\ rollback' = rollback /\ committed' = committed
      /\ query' = query /\ turn' = turn /\ pc' = pc
  BY DEF vars, fixed
<1>2. StateTypes' /\ RequestTypes'
  BY <1>1, SameSetup DEF TurnInv, StateTypes, RequestTypes, End
<1>3. ASSUME ~lost' PROVE HeldInv'
  <2>1. /\ BetweenInv /\ ClearedInv /\ UndoInv /\ FailedInv /\ BaseInv
        /\ PrefixInv /\ SuffixInv /\ ReplyInv /\ PendingInv
    BY <1>1, <1>3, HeldFacts
  <2>2. /\ QueryRow' = QueryRow /\ End' = End /\ Found' = Found /\ Conversation' = Conversation
        /\ \A row : SavePoint(row)' <=> SavePoint(row)
        /\ \A S, n : AtRow(S, n)' <=> AtRow(S, n)
    BY <1>1, SameQueryRow, SameSetup DEF End, Found, Conversation, AtRow
  <2>3. BetweenInv' /\ ClearedInv'
    BY <1>1, <2>1, <2>2, SameSetup DEF BetweenInv, Between, ClearedInv, NoLive
  <2>4. UndoInv' /\ FailedInv'
    BY <1>1, <2>1, <2>2, SameSetup DEF UndoInv, FailedInv, Undoable
  <2>5. BaseInv' /\ PendingInv'
    BY <1>1, <2>1, <2>2, SameSetup DEF BaseInv, PendingInv, SharedRows, Common
  <2>6. PrefixInv'
    BY <1>1, <2>1, <2>2, SameSetup DEF PrefixInv, CoveredFrom
  <2>7. SuffixInv'
    <3>1. \A S, n, e : Replaying(S, n, e)' = Replaying(S, n, e)
      BY <1>1, SameSetup DEF Replaying
    <3>2. QED
      BY <1>1, <2>1, <2>2, <3>1, SameSetup DEF SuffixInv
  <2>8. ReplyInv'
    BY <1>1, <2>1, <2>2, SameSetup DEF ReplyInv, HoldsPrompt, Text
  <2>9. QED
    BY <2>3, <2>4, <2>5, <2>6, <2>7, <2>8 DEF HeldInv
<1>4. QED
  BY <1>2, <1>3 DEF TurnInv

\* The invariant is inductive where branches are covered.
LEMMA NextTurn ==
    ASSUME TurnInv, BranchCovered, [Next]_vars
    PROVE  TurnInv'
<1>1. CASE vars' = vars
  BY <1>1, StutterTurn
<1>2. CASE \E p \in setup.prompts, q \in setup.spans, reset \in BOOLEAN : Accept(p, q, reset)
  BY <1>2, AcceptTurn
<1>3. CASE SelectBase
  BY <1>3, SelectBaseTurn
<1>4. CASE ClearThenFail
  BY <1>4, ClearThenFailTurn
<1>5. CASE RestoreBase
  BY <1>5, RestoreBaseTurn
<1>6. CASE RestoreFails
  BY <1>6, RestoreFailsTurn
<1>7. CASE ChoosePath
  BY <1>7, ChoosePathTurn
<1>8. CASE DecodeBatch
  BY <1>8, DecodeBatchTurn
<1>9. CASE DecodeFails
  BY <1>9, DecodeFailsTurn
<1>10. CASE RememberQuery
  BY <1>10, RememberQueryTurn
<1>11. CASE KeepView
  BY <1>11, KeepViewTurn
<1>12. CASE Retrieve
  BY <1>12, RetrieveTurn
<1>13. CASE RetrieveFails
  BY <1>13, RetrieveFailsTurn
<1>14. CASE RestoreSuffix
  BY <1>14, RestoreSuffixTurn
<1>15. CASE Replayed
  BY <1>15, ReplayedTurn
<1>16. CASE Capture
  BY <1>16, CaptureTurn
<1>17. CASE \E t \in Words : Generate(t)
  BY <1>17, GenerateTurn
<1>18. CASE GenerateFails
  BY <1>18, GenerateFailsTurn
<1>19. CASE Commit
  BY <1>19, CommitTurn
<1>20. CASE RollBack
  BY <1>20, RollBackTurn
<1>21. CASE RollBackFails
  BY <1>21, RollBackFailsTurn
<1>22. CASE LeaveFailed
  BY <1>22, LeaveFailedTurn
<1>23. QED
  BY <1>1, <1>2, <1>3, <1>4, <1>5, <1>6, <1>7, <1>8, <1>9, <1>10, <1>11, <1>12, <1>13, <1>14,
     <1>15, <1>16, <1>17, <1>18, <1>19, <1>20, <1>21, <1>22 DEF Next, Serve

\* What the invariant says of a reply, of the time between two requests and of
\* a failure.
LEMMA TurnMeans ==
    ASSUME TurnInv
    PROVE  /\ ReplyFromPrompt /\ CheckpointsOfConversation /\ LastTurnResumable
           /\ CachedQueryCurrent
<1>1. ReplyFromPrompt
  BY HeldFacts DEF ReplyFromPrompt, ReplyInv
<1>2. ASSUME pc = "idle", ~lost PROVE Between
  BY <1>2, HeldFacts DEF BetweenInv
<1>3. cached # None => Conversation = cached
  BY DEF Conversation
<1>4. /\ (cached # None => cached \in Seq(Tokens)) /\ Conversation \in Seq(Tokens)
      /\ live.row \in Nat /\ (query # None => IsQuery(query)) /\ \A e \in cps : IsCp(e)
  BY NoRows DEF TurnInv, StateTypes, Conversation
<1>5. CheckpointsOfConversation
  <2> SUFFICES ASSUME pc = "idle", cached # None, ~lost, NEW e \in cps
               PROVE  LET then == Holding(Take(cached, e.row))
                      IN  /\ e.rec = then.rec /\ e.carry = then.carry
                          /\ e.tail = TailMean(then.mean, e.row)
    BY DEF CheckpointsOfConversation
  <2>1. CpOf(cached, e)
    BY <1>2, <1>3 DEF Between
  <2>2. Take(cached, e.row) \in Seq(Tokens)
    BY <1>4, TakeFacts DEF IsCp
  <2> DEFINE R == Take(cached, e.row)
  <2>3. Holding(R).rec = R /\ Holding(R).carry = OfDraft(R) /\ Holding(R).mean = MeansOf(R)
    BY <2>2, HoldingFacts
  <2>4. QED
    BY <2>1, <2>3 DEF CpOf
<1>6. LastTurnResumable
  BY <1>2 DEF LastTurnResumable, Between
<1>7. CachedQueryCurrent
  <2> SUFFICES ASSUME pc = "idle", query # None, ~lost
               PROVE  Take(mem.kv, query.span[2]) = query.prefix
    BY DEF CachedQueryCurrent
  <2> DEFINE n == query.span[2]
             C == Conversation
  <2>1. n <= live.row /\ query.prefix = Take(C, n) /\ mem = Holding(Take(C, live.row))
    BY <1>2 DEF Between
  <2>2. n \in Nat
    BY <1>4 DEF IsQuery
  <2>3. Take(C, live.row) \in Seq(Tokens)
    BY <1>4, TakeFacts
  <2>4. mem.kv = Take(C, live.row)
    BY <2>1, <2>3, HoldingFacts
  <2>5. Take(Take(C, live.row), n) = Take(C, n)
    <3> HIDE DEF n, C
    <3>1. QED
      BY <1>4, <2>1, <2>2, TakeOfTake DEF C
  <2>6. QED
    BY <2>1, <2>4, <2>5
<1>8. QED
  BY <1>1, <1>5, <1>6, <1>7

\* What a failed request leaves.
FailureStep ==
    (pc = "failed" /\ pc' = "idle" /\ ~lost') =>
        /\ mem' = Holding(mem'.kv)
        /\ IsPrefix(mem'.kv, turn.before)
        /\ cached' = None \/ IsPrefix(mem'.kv, cached')

\* Taking rows of a conversation gives a prefix of it.
LEMMA PrefixIsTake ==
    ASSUME NEW s \in Seq(Tokens), NEW n \in Nat, n <= Len(s)
    PROVE  IsPrefix(Take(s, n), s)
<1> DEFINE t == Take(s, n)
<1>1. t \in Seq(Tokens) /\ Len(t) = n /\ t = SubSeq(s, 1, n) /\ Len(s) \in Nat
  BY TakeFacts, TakeIsSubSeq, LenProperties
<1>2. Take(t, n) = SubSeq(t, 1, n)
  <2> HIDE DEF t
  <2>1. n <= Len(t)
    BY <1>1
  <2>2. QED
    BY <1>1, <2>1, TakeIsSubSeq
<1>3. Take(t, n) = t
  <2>1. n >= Len(t)
    BY <1>1
  <2> HIDE DEF t
  <2>2. QED
    BY <1>1, <2>1, TakeAll
<1> HIDE DEF t
<1>4. IsPrefix(t, s)
  BY <1>1, <1>2, <1>3 DEF IsPrefix
<1>5. QED
  BY <1>4 DEF t

\* A step that ends a failed request leaves a prefix of the rows it found.
LEMMA FailureTurn ==
    ASSUME TurnInv, [Next]_vars
    PROVE  FailureStep
<1> SUFFICES ASSUME pc = "failed", pc' = "idle", ~lost'
             PROVE  /\ mem' = Holding(mem'.kv)
                    /\ IsPrefix(mem'.kv, turn.before)
                    /\ cached' = None \/ IsPrefix(mem'.kv, cached')
  BY DEF FailureStep
<1>1. RollBack \/ LeaveFailed
  <2>1. ~(vars' = vars)
    BY DEF vars
  <2>2. ~RollBackFails
    BY DEF RollBackFails
  <2>3. Next => RollBack \/ RollBackFails \/ LeaveFailed
    BY DEF Next, Serve, Accept, SelectBase, ClearThenFail, RestoreBase, RestoreFails, ChoosePath,
           DecodeBatch, DecodeFails, RememberQuery, KeepView, Retrieve, RetrieveFails,
           RestoreSuffix, Replayed, Capture, Generate, GenerateFails, Commit
  <2>4. QED
    BY <2>1, <2>2, <2>3
<1>2. turn.before \in Seq(Tokens)
  BY DEF TurnInv, StateTypes, IsTurn
<1>3. CASE RollBack
  <2> DEFINE F == Found
             r == rollback.cp.row
  <2>1. rollback # None /\ lost' = lost /\ mem' = RestoredStore(mem, rollback.cp)
        /\ cached' = rollback.prompt
    BY <1>3 DEF RollBack, NothingToUndo, fixed
  <2>2. /\ mem' = Holding(F) /\ F \in Seq(Tokens) /\ Len(F) = r /\ r \in Nat
        /\ r <= Len(turn.before) /\ Take(turn.before, r) = F /\ Take(F, r) = F
    BY <2>1, RolledBack
  <2>3. F = cached' \/ cached' = None
    BY <2>1 DEF Found
  <2> HIDE DEF F, r
  <2>4. mem'.kv = F
    BY <2>2, HoldingFacts
  <2>5. IsPrefix(F, turn.before)
    BY <1>2, <2>2, PrefixIsTake
  <2>6. IsPrefix(F, F)
    <3>1. r <= Len(F)
      BY <2>2
    <3>2. QED
      BY <2>2, <3>1, PrefixIsTake
  <2>7. QED
    BY <2>2, <2>3, <2>4, <2>5, <2>6
<1>4. CASE LeaveFailed
  <2>1. mem' = Holding(<<>>) /\ cached' = None
    BY <1>4, LeaveFailedTurn
  <2>2. mem'.kv = <<>>
    BY <2>1, NoRows, HoldingFacts
  <2>3. IsPrefix(<<>>, turn.before)
    <3>1. 0 <= Len(turn.before) /\ Take(turn.before, 0) = <<>>
      BY <1>2, LenProperties, TakeNone
    <3>2. QED
      BY <1>2, <3>1, PrefixIsTake
  <2>4. QED
    BY <2>1, <2>2, <2>3
<1>5. QED
  BY <1>1, <1>3, <1>4

\* What is cached, or will be after a rollback, are rows of a conversation of the
\* client and a reply; the query of a request begins where its span says.
ClientInv ==
    /\ turn.gen \in Seq(Words)
    /\ cached # None => cached \in Kept(setup)
    /\ rollback # None /\ rollback.prompt # None => rollback.prompt \in Kept(setup)
    /\ pc # "idle" => \E q \in setup.spans : turn.span[1] = Min({q[1], End})

\* Words are tokens.
LEMMA WordsAreTokens ==
    ASSUME NEW g \in Seq(Words)
    PROVE  g \in Seq(Tokens)
<1>1. Words \subseteq Tokens
  BY DEF Tokens
<1>2. QED
  BY <1>1, SeqMonotonic

\* The replies of a client are its sequences of words within max_tokens.
LEMMA RepliesAreWords ==
    ASSUME setup \in Setups
    PROVE  /\ \A g \in Replies(setup) : g \in Seq(Words)
           /\ \A g \in Seq(Words) : Len(g) <= setup.reply => g \in Replies(setup)
<1>1. setup.reply \in Nat
  BY ServerTurnAssumption
<1>2. ASSUME NEW g \in Replies(setup) PROVE g \in Seq(Words)
  <2>1. PICK k \in 0..setup.reply : g \in [1..k -> Words]
    BY DEF Replies
  <2>2. k \in Nat
    BY <1>1, <2>1
  <2>3. QED
    BY <2>1, <2>2
<1>3. ASSUME NEW g \in Seq(Words), Len(g) <= setup.reply PROVE g \in Replies(setup)
  <2>1. Len(g) \in Nat /\ g \in [1..Len(g) -> Words]
    BY LenProperties
  <2>2. Len(g) \in 0..setup.reply
    BY <1>1, <1>3, <2>1
  <2>3. QED
    BY <2>1, <2>2 DEF Replies
<1>4. QED
  BY <1>2, <1>3

\* What a client keeps are rows.
LEMMA KeptRows ==
    ASSUME setup \in Setups, NEW p \in setup.prompts, NEW g \in Replies(setup), NEW n \in Nat
    PROVE  p \o g \in Seq(Tokens) /\ Take(p \o g, n) \in Seq(Tokens)
<1>1. p \in Seq(Tokens)
  BY PromptFacts
<1>2. g \in Seq(Tokens)
  BY RepliesAreWords, WordsAreTokens
<1>3. p \o g \in Seq(Tokens)
  BY <1>1, <1>2, ConcatProperties
<1> DEFINE X == p \o g
<1> HIDE DEF X
<1>4. X \in Seq(Tokens) => Take(X, n) \in Seq(Tokens)
  BY TakeFacts
<1>5. QED
  BY <1>3, <1>4 DEF X

\* The first rows of what may be kept may be kept.
LEMMA KeptPrefix ==
    ASSUME setup \in Setups, NEW S \in Kept(setup), NEW m \in Nat
    PROVE  Take(S, m) \in Kept(setup)
<1>1. PICK p \in setup.prompts, g \in Replies(setup), n \in 0..MaxRows : S = Take(p \o g, n)
  BY DEF Kept
<1>2. n \in Nat /\ n <= MaxRows /\ MaxRows \in Nat
  BY <1>1, Sizes
<1> DEFINE X == p \o g
<1>3. X \in Seq(Tokens) /\ S = Take(X, n)
  BY <1>1, <1>2, KeptRows
<1>4. \A k \in 0..MaxRows : Take(X, k) \in Kept(setup)
  BY DEF Kept
<1> HIDE DEF X
<1>5. CASE m <= n
  <2>1. Take(S, m) = Take(X, m)
    BY <1>2, <1>3, <1>5, TakeOfTake
  <2>2. m \in 0..MaxRows
    BY <1>2, <1>5
  <2>3. QED
    BY <1>4, <2>1, <2>2
<1>6. CASE m > n
  <2>1. S \in Seq(Tokens) /\ Len(S) <= n /\ Len(S) \in Nat
    <3>1. S \in Seq(Tokens) /\ Len(S) = IF n <= Len(X) THEN n ELSE Len(X)
      BY <1>2, <1>3, TakeFacts
    <3>2. Len(X) \in Nat
      BY <1>3, LenProperties
    <3>3. QED
      BY <1>2, <3>1, <3>2
  <2>2. m >= Len(S)
    BY <1>2, <1>6, <2>1
  <2>3. Take(S, m) = S
    BY <2>1, <2>2, TakeAll
  <2>4. QED
    BY <2>3
<1>7. QED
  BY <1>2, <1>5, <1>6

\* A conversation and its reply may be kept.
LEMMA KeptText ==
    ASSUME TurnInv, ClientInv, pc # "idle"
    PROVE  Text(turn.gen) \in Kept(setup)
<1> DEFINE X == Text(turn.gen)
           n == Len(X)
<1>1. X \in Seq(Tokens) /\ n = Len(turn.prompt) + Len(turn.gen)
  BY TextFacts
<1>2. /\ n <= MaxRows /\ turn.prompt \in setup.prompts /\ setup \in Setups
      /\ Len(turn.gen) <= setup.reply
  BY <1>1, RequestFacts DEF TurnInv, RequestTypes
<1>3. n \in Nat /\ MaxRows \in Nat
  BY <1>1, LenProperties, Sizes
<1>4. turn.gen \in Replies(setup)
  BY <1>2, RepliesAreWords DEF ClientInv
<1>5. Take(X, n) = X
  <2>1. n >= n
    BY <1>3
  <2> HIDE DEF X
  <2>2. QED
    BY <1>1, <1>3, <2>1, TakeAll
<1>6. n \in 0..MaxRows
  <2> HIDE DEF n
  <2>1. QED
    BY <1>2, <1>3
<1> HIDE DEF n
<1>7. Take(turn.prompt \o turn.gen, n) \in Kept(setup)
  BY <1>2, <1>4, <1>6 DEF Kept
<1>8. QED
  BY <1>5, <1>7 DEF Text

\* The server starts with nothing kept.
LEMMA InitClient == Init => ClientInv
<1>1. <<>> \in Seq(Words)
  BY EmptySeq
<1>2. QED
  BY <1>1, NoTurnFacts DEF Init, ClientInv

\* A step within a request leaves what its client may keep.
LEMMA ClientFrame ==
    ASSUME ClientInv, pc # "idle", setup' = setup, cached' = cached, rollback' = rollback,
           turn'.gen = turn.gen, turn'.span = turn.span, turn'.prompt = turn.prompt
    PROVE  ClientInv'
<1>1. End' = End
  BY SameSetup DEF End
<1>2. \A x : Kept(x)' = Kept(x)
  BY DEF Kept, Replies
<1>3. QED
  BY <1>1, <1>2 DEF ClientInv

\* Between requests there is no reply.
LEMMA ClientDone ==
    ASSUME ClientInv, pc' = "idle", setup' = setup, turn' = NoTurn,
           rollback' = None \/ rollback' = rollback,
           cached' # None => cached' \in Kept(setup)
    PROVE  ClientInv'
<1>1. <<>> \in Seq(Words)
  BY EmptySeq
<1>2. \A x : Kept(x)' = Kept(x)
  BY DEF Kept, Replies
<1>3. QED
  BY <1>1, <1>2, NoTurnFacts DEF ClientInv

\* Every step leaves rows of a conversation and a reply in the cache.
LEMMA NextClient ==
    ASSUME TurnInv, TurnInv', ClientInv, [Next]_vars
    PROVE  ClientInv'
<1>1. IsTurn(turn) /\ setup \in Setups /\ StateTypes /\ RequestTypes
  BY DEF TurnInv, StateTypes
<1>2. \A x : Kept(x)' = Kept(x)
  BY DEF Kept, Replies
<1>3. CASE vars' = vars
  <2>1. /\ setup' = setup /\ cached' = cached /\ rollback' = rollback /\ turn' = turn /\ pc' = pc
    BY <1>3 DEF vars, fixed
  <2>2. End' = End
    BY <2>1, SameSetup DEF End
  <2>3. QED
    BY <1>2, <2>1, <2>2 DEF ClientInv
<1>4. ASSUME NEW p \in setup.prompts, NEW q \in setup.spans, NEW reset \in BOOLEAN,
             Accept(p, q, reset)
      PROVE  ClientInv'
  <2> DEFINE span == <<Min({q[1], EvalEnd(p)}), Min({q[2], EvalEnd(p)})>>
  <2>1. /\ pc' = "select" /\ setup' = setup /\ cached' = cached /\ rollback' = rollback
        /\ turn' = [NoTurn EXCEPT !.prompt = p, !.reset = reset, !.before = mem.kv, !.span = span]
    BY <1>4 DEF Accept, fixed
  <2>2. span[1] = Min({q[1], EvalEnd(p)})
    OBVIOUS
  <2> HIDE DEF span
  <2>3. turn'.gen = <<>> /\ turn'.prompt = p /\ turn'.span = span
    BY <2>1 DEF NoTurn
  <2>4. End' = EvalEnd(p)
    BY <2>1, <2>3, SameSetup DEF End
  <2>5. <<>> \in Seq(Words)
    BY EmptySeq
  <2>6. \E x \in setup.spans : turn'.span[1] = Min({x[1], End'})
    BY <2>2, <2>3, <2>4
  <2>7. QED
    BY <1>2, <2>1, <2>3, <2>5, <2>6 DEF ClientInv
<1>5. CASE SelectBase
  <2>1. pc = "select" /\ setup' = setup /\ rollback' # None => IsCp(rollback'.cp)
    BY <1>5 DEF SelectBase, TurnInv, RequestTypes
  <2>2. /\ turn'.gen = turn.gen /\ turn'.span = turn.span /\ turn'.prompt = turn.prompt
        /\ setup' = setup /\ pc = "select"
    BY <1>1, <1>5 DEF SelectBase, IsTurn
  <2>3. \/ cached' = cached /\ (rollback' # None /\ rollback'.prompt # None =>
              cached # None /\ rollback'.prompt = Take(cached, rollback'.cp.row))
        \/ cached' = None /\ rollback'.prompt = None
    <3> DEFINE usable == IF turn.reset THEN {} ELSE Usable(cps, KeepRows(turn.prompt, cached))
               best == CHOOSE e \in usable : \A f \in usable : f.row <= e.row
               first == [row |-> 0, media |-> FALSE, rec |-> <<>>, carry |-> <<>>, tail |-> None]
    <3>1. \/ /\ cached' = cached
             /\ rollback' = [cp |-> best, prompt |->
                                IF cached = None THEN None ELSE Take(cached, best.row)]
          \/ cached' = None /\ rollback' = [cp |-> first, prompt |-> None]
      BY <1>5 DEF SelectBase
    <3> HIDE DEF best, first, usable
    <3>2. QED
      BY <3>1
  <2>4. ASSUME rollback' # None, rollback'.prompt # None PROVE rollback'.prompt \in Kept(setup)
    <3>1. cached # None /\ rollback'.prompt = Take(cached, rollback'.cp.row)
      BY <2>3, <2>4
    <3>2. rollback'.cp.row \in Nat
      BY <2>4 DEF TurnInv, RequestTypes, IsCp
    <3>3. cached \in Kept(setup)
      BY <3>1 DEF ClientInv
    <3>4. QED
      BY <1>1, <3>1, <3>2, <3>3, KeptPrefix
  <2>5. cached' # None => cached' \in Kept(setup)
    BY <2>3 DEF ClientInv
  <2>6. End' = End
    BY <2>2, SameSetup DEF End
  <2>7. QED
    BY <1>2, <2>2, <2>4, <2>5, <2>6 DEF ClientInv
<1>6. CASE ClearThenFail
  <2>1. /\ setup' = setup /\ cached' = None /\ rollback' = rollback /\ turn' = turn
        /\ pc = "select"
    BY <1>6 DEF ClearThenFail
  <2>2. End' = End
    BY <2>1, SameSetup DEF End
  <2>3. QED
    BY <1>2, <2>1, <2>2 DEF ClientInv
<1>7. CASE \/ RestoreBase \/ RestoreFails \/ DecodeFails \/ KeepView \/ Retrieve
           \/ RetrieveFails \/ Replayed \/ GenerateFails
  <2>1. /\ setup' = setup /\ cached' = cached /\ rollback' = rollback /\ turn' = turn
        /\ pc # "idle"
    BY <1>7 DEF RestoreBase, RestoreFails, DecodeFails, KeepView, Retrieve, RetrieveFails,
                Replayed, GenerateFails, fixed
  <2>2. QED
    BY <2>1, ClientFrame
<1>8. CASE ChoosePath
  <2>1. /\ setup' = setup /\ cached' = cached /\ rollback' = rollback /\ pc # "idle"
    BY <1>8 DEF ChoosePath, fixed
  <2>2. PICK reuse \in {FALSE} \cup {SameQuery} :
           turn' = [turn EXCEPT !.qrow = QueryRow, !.row = turn.base.row, !.reuse = reuse,
                                !.pending = IF reuse THEN query ELSE None]
    BY <1>8 DEF ChoosePath
  <2> DEFINE a == QueryRow
             b == IF reuse THEN query ELSE None
  <2>3. turn' = [turn EXCEPT !.qrow = a, !.row = turn.base.row, !.reuse = reuse, !.pending = b]
    BY <2>2
  <2> HIDE DEF a, b
  <2>4. turn'.gen = turn.gen /\ turn'.span = turn.span /\ turn'.prompt = turn.prompt
    BY <1>1, <2>3 DEF IsTurn
  <2>5. QED
    BY <2>1, <2>4, ClientFrame
<1>9. CASE DecodeBatch \/ RememberQuery \/ RestoreSuffix \/ Capture
  <2>1. /\ setup' = setup /\ cached' = cached /\ rollback' = rollback /\ pc # "idle"
        /\ turn'.gen = turn.gen /\ turn'.span = turn.span /\ turn'.prompt = turn.prompt
    BY <1>1, <1>9 DEF DecodeBatch, RememberQuery, RestoreSuffix, Capture, fixed, IsTurn
  <2>2. QED
    BY <2>1, ClientFrame
<1>10. ASSUME NEW t \in Words, Generate(t) PROVE ClientInv'
  <2>1. /\ setup' = setup /\ cached' = cached /\ rollback' = rollback /\ pc # "idle"
        /\ turn' = [turn EXCEPT !.gen = Append(turn.gen, t)]
    BY <1>10 DEF Generate, fixed
  <2>2. turn'.gen = Append(turn.gen, t) /\ turn'.span = turn.span /\ turn'.prompt = turn.prompt
    BY <1>1, <2>1 DEF IsTurn
  <2>3. turn'.gen \in Seq(Words)
    BY <1>10, <2>2, AppendProperties DEF ClientInv
  <2>4. End' = End
    BY <2>1, <2>2, SameSetup DEF End
  <2>5. QED
    BY <1>2, <2>1, <2>2, <2>3, <2>4 DEF ClientInv
<1>11. CASE Commit
  <2>1. /\ setup' = setup /\ cached' = Text(turn.gen) /\ rollback' = None /\ pc # "idle"
        /\ pc' = "idle" /\ turn' = NoTurn
    BY <1>11 DEF Commit, fixed
  <2>2. QED
    BY <2>1, KeptText, ClientDone
<1>12. CASE RollBack
  <2>1. /\ setup' = setup /\ cached' = rollback.prompt /\ rollback # None /\ rollback' = None
        /\ pc' = "idle" /\ turn' = NoTurn
    BY <1>12 DEF RollBack, NothingToUndo, fixed
  <2>2. cached' # None => cached' \in Kept(setup)
    BY <2>1 DEF ClientInv
  <2>3. QED
    BY <2>1, <2>2, ClientDone
<1>13. CASE RollBackFails \/ LeaveFailed
  <2>1. /\ setup' = setup /\ cached' = cached /\ (rollback' = None \/ rollback' = rollback)
        /\ pc' = "idle" /\ turn' = NoTurn
    BY <1>13 DEF RollBackFails, LeaveFailed, fixed
  <2>2. cached' # None => cached' \in Kept(setup)
    BY <2>1 DEF ClientInv
  <2>3. QED
    BY <2>1, <2>2, ClientDone
<1>14. QED
  BY <1>3, <1>4, <1>5, <1>6, <1>7, <1>8, <1>9, <1>10, <1>11, <1>12, <1>13 DEF Next, Serve

\* The query row of a request whose query and images lie no later than n, or
\* whose rows do, is no later than n.
LEMMA EarlyQueryRow ==
    ASSUME IsTurn(turn), End \in Nat, turn.base.row \in Nat, NEW n \in Nat, turn.base.row <= n,
           End <= n \/ (turn.span[1] <= n /\ LastImageEnd(turn.prompt) <= n)
    PROVE  QueryRow <= n
<1> DEFINE s == Min({turn.span[1], End})
           i == LastImageEnd(turn.prompt)
           m == Max({turn.base.row, s, i})
<1>1. turn.span[1] \in Nat /\ i \in Nat
  BY LastImageFacts DEF IsTurn
<1>2. s \in Nat /\ s <= turn.span[1]
  BY <1>1, MinOfTwo
<1>3. QueryRow = Min({End, m})
  BY DEF QueryRow, End
<1> HIDE DEF s
<1>4. m \in {turn.base.row, s, i}
  <2> HIDE DEF i
  <2>1. turn.base.row \in Int /\ s \in Int /\ i \in Int
    BY <1>1, <1>2
  <2>2. QED
    BY <2>1, MaxOfThree, Zenon
<1>5. m \in Nat /\ (End <= n \/ m <= n)
  BY <1>1, <1>2, <1>4
<1> HIDE DEF m
<1>6. Min({End, m}) \in {End, m} /\ Min({End, m}) <= End /\ Min({End, m}) <= m
  BY <1>5, MinOfTwo
<1>7. QED
  BY <1>3, <1>5, <1>6

\* Clients that branch early, or not at all, leave no checkpoint uncovered.
LEMMA EarlyIsCovered ==
    ASSUME TurnInv, ClientInv, BranchesEarly(setup)
    PROVE  BranchCovered
<1> SUFFICES ASSUME pc = "restore", ~lost, NEW e \in cps
             PROVE  \/ e.row <= SharedRows(turn.prompt, cached)
                    \/ \E row \in turn.base.row .. e.row : SavePoint(row)
  BY DEF BranchCovered
<1> DEFINE p == turn.prompt
           c == SharedRows(p, cached)
           r == turn.base.row
<1>1. /\ StateTypes /\ RequestTypes /\ IsTurn(turn) /\ p \in Seq(Tokens) /\ End \in Nat
      /\ setup \in Setups /\ p \in setup.prompts /\ live.row \in Nat /\ e.row \in Nat
      /\ cached \in Seq(Tokens) \cup {None}
      /\ End = IF SpecOK THEN Len(p) - 1 ELSE Len(p)
  BY RequestFacts DEF TurnInv, StateTypes, IsCp
<1>2. Between /\ e.row <= live.row /\ live.row <= Len(Conversation)
  BY HeldFacts DEF BetweenInv, Between
<1>3. r \in Nat /\ r <= c
  BY HeldFacts, BaseFacts DEF BaseInv, Serving
<1>4. c \in Nat /\ Len(Conversation) \in Nat
  <2>1. Conversation \in Seq(Tokens)
    BY <1>1, NoRows DEF Conversation
  <2>2. QED
    BY <1>1, <2>1, SharedRowsFacts, LenProperties
<1>5. CASE cached = None
  <2>1. Len(Conversation) = 0
    BY <1>5, NoRows DEF Conversation
  <2>2. e.row <= c
    BY <1>1, <1>2, <1>4, <2>1
  <2>3. QED
    BY <2>2
<1>6. CASE cached # None
  <2>1. PICK q \in setup.spans : turn.span[1] = Min({q[1], End})
    BY DEF ClientInv
  <2>2. q[1] \in Nat /\ turn.span[1] <= q[1] /\ turn.span[1] \in Nat
    <3>1. q[1] \in Nat
      BY <1>1, ServerTurnAssumption
    <3>2. QED
      BY <1>1, <2>1, <3>1, MinOfTwo
  <2>3. cached \in Kept(setup)
    BY <1>6 DEF ClientInv
  <2>4. c = Common(p, cached) /\ Conversation = cached
    BY <1>6 DEF SharedRows, Conversation
  <2>5. \/ c = Len(cached) \/ Len(p) - (IF setup.spec THEN 1 ELSE 0) <= c
        \/ q[1] <= c /\ LastImageEnd(p) <= c
    BY <1>1, <2>1, <2>3, <2>4 DEF BranchesEarly
  <2>6. CASE c = Len(cached)
    <3>1. e.row <= live.row /\ live.row <= c
      BY <1>2, <2>4, <2>6, Zenon
    <3>2. e.row <= c
      <4> HIDE DEF c
      <4>1. QED
        BY <1>1, <1>4, <3>1
    <3>3. QED
      BY <3>2
  <2>7. CASE End <= c \/ (q[1] <= c /\ LastImageEnd(p) <= c)
    <3>1. End <= c \/ (turn.span[1] <= c /\ LastImageEnd(p) <= c)
      BY <1>4, <2>2, <2>7
    <3> HIDE DEF c
    <3>2. QueryRow <= c
      BY <1>1, <1>3, <1>4, <3>1, EarlyQueryRow
    <3>3. QueryRow \in Nat /\ r <= QueryRow
      <4>1. r <= End
        BY HeldFacts DEF BaseInv, Serving
      <4>2. QED
        BY <1>1, <1>3, <4>1, QueryRowFacts
    <3>4. CASE e.row <= c
      BY <3>4 DEF c
    <3>5. CASE ~(e.row <= c)
      <4>1. QueryRow \in r .. e.row
        BY <1>1, <1>3, <1>4, <3>2, <3>3, <3>5
      <4>2. QED
        BY <4>1 DEF SavePoint
    <3>6. QED
      BY <3>4, <3>5
  <2>8. c = Len(cached) \/ End <= c \/ (q[1] <= c /\ LastImageEnd(p) <= c)
    <3>1. End = Len(p) - (IF setup.spec THEN 1 ELSE 0)
      BY <1>1 DEF SpecOK
    <3> HIDE DEF c
    <3>2. QED
      BY <2>5, <3>1, Zenon
  <2> HIDE DEF c
  <2>9. QED
    BY <2>6, <2>7, <2>8, Zenon
<1>7. QED
  BY <1>5, <1>6

-----------------------------------------------------------------------------
(* The theorems.                                                           *)

\* The inductive invariant holds in every behaviour in which branches are
\* covered, whatever the clients send.
THEOREM TurnCovered == Spec /\ []BranchCovered => []TurnInv
<1>1. Init => TurnInv
  BY InitTurn
<1>2. TurnInv /\ BranchCovered /\ [Next]_vars => TurnInv'
  BY NextTurn
<1>3. QED
  BY <1>1, <1>2, PTL DEF Spec

\* It holds, and every branch is covered, for all clients that branch early.
THEOREM TurnInvariant ==
    ASSUME \A x \in Setups : BranchesEarly(x)
    PROVE  Spec => [](TurnInv /\ BranchCovered)
<1> DEFINE Inv == TurnInv /\ ClientInv
<1>1. Init => Inv
  BY InitTurn, InitClient
<1>2. Inv => BranchCovered
  <2>1. TurnInv => BranchesEarly(setup)
    BY DEF TurnInv, StateTypes
  <2>2. QED
    BY <2>1, EarlyIsCovered
<1>3. Inv /\ [Next]_vars => Inv'
  BY <1>2, NextTurn, NextClient
<1> HIDE DEF Inv
<1>4. Inv => TurnInv
  BY DEF Inv
<1>5. QED
  BY <1>1, <1>2, <1>3, <1>4, PTL DEF Spec

\* A reply is generated from exactly the request's prompt, in every memory.
THEOREM RepliesFromPrompt ==
    ASSUME \A x \in Setups : BranchesEarly(x)
    PROVE  Spec => []ReplyFromPrompt
<1>1. TurnInv => ReplyFromPrompt
  BY TurnMeans
<1>2. QED
  BY <1>1, TurnInvariant, PTL

\* Every checkpoint the server keeps, and the one a request starts from, is a
\* state of the conversation the memories hold.
THEOREM CheckpointsAreStates ==
    ASSUME \A x \in Setups : BranchesEarly(x)
    PROVE  Spec => []CheckpointsOfConversation
<1>1. TurnInv => CheckpointsOfConversation
  BY TurnMeans
<1>2. QED
  BY <1>1, TurnInvariant, PTL

\* Between two requests the conversation can be resumed where it was left.
THEOREM TurnsResumable ==
    ASSUME \A x \in Setups : BranchesEarly(x)
    PROVE  Spec => []LastTurnResumable
<1>1. TurnInv => LastTurnResumable
  BY TurnMeans
<1>2. QED
  BY <1>1, TurnInvariant, PTL

\* A captured query is one of the conversation the memories hold.
THEOREM QueryIsCurrent ==
    ASSUME \A x \in Setups : BranchesEarly(x)
    PROVE  Spec => []CachedQueryCurrent
<1>1. TurnInv => CachedQueryCurrent
  BY TurnMeans
<1>2. QED
  BY <1>1, TurnInvariant, PTL

\* A request that fails leaves rows the memories held before it, or nothing.
THEOREM FailuresKeepPrefix ==
    ASSUME \A x \in Setups : BranchesEarly(x)
    PROVE  Spec => FailureKeepsPrefix
<1>1. TurnInv /\ [Next]_vars => [FailureStep]_vars
  BY FailureTurn
<1>2. Spec => [][FailureStep]_vars
  BY <1>1, TurnInvariant, PTL DEF Spec
<1>3. FailureKeepsPrefix <=> [][FailureStep]_vars
  BY DEF FailureKeepsPrefix, FailureStep
<1>4. QED
  BY <1>2, <1>3

=============================================================================

-------------------------- MODULE LegacyTurnProofs --------------------------
(***************************************************************************)
(* Proofs about LegacyTurn: whatever a request keeps of the conversation   *)
(* before it, and from whichever saved state its recurrent memory is       *)
(* caught up, its reply is generated from exactly its own rows; as long as *)
(* no request was cut short.                                               *)
(*                                                                         *)
(* LegacyInv says what both memories and both saved states hold at each    *)
(* point of a request.  Its centre is QueryKept: what lets a turn keep     *)
(* some rows, the recurrent memory at that row or a saved state no later,  *)
(* also means that the saved state of the query is no later, so a state of *)
(* a question that was withdrawn is never gone back to.                    *)
(***************************************************************************)
EXTENDS LegacyTurn, SequenceTheorems, FiniteSetTheorems, WellFoundedInduction, TLAPS

-----------------------------------------------------------------------------
(* The invariant.                                                          *)

Toks == turn.req.toks
Past == turn.past

\* s is the beginning of the conversation S.
Begins(S, s) == Len(s) <= Len(S) /\ s = Take(S, Len(s))

\* A saved state, if there is one, is the state at its row of S.
SavedOf(S, c) == c.rec # None => c.row <= Len(S) /\ c.rec = Take(S, c.row)

\* The query of a turn was saved before its last state, and at a row that the
\* recurrent memory is not before.
QueryFirst ==
    queryCkpt.rec # None => genCkpt.rec # None /\ queryCkpt.row <= genCkpt.row

Saved(S) == SavedOf(S, genCkpt) /\ SavedOf(S, queryCkpt) /\ QueryFirst

QueryKept == queryCkpt.rec # None => queryCkpt.row <= Past

\* Both memories hold the first n rows of the request.
Holds(n) == kv = Take(Toks, n) /\ (Recurrent => rec = Take(Toks, n))

\* Between two requests, and until rows are removed for the next.
Rests ==
    /\ Begins(cached.toks, kv)
    /\ Recurrent => Begins(cached.toks, rec)
    /\ Saved(cached.toks)
    /\ queryCkpt.rec # None => queryCkpt.row <= Len(rec)

Ckpt == [row : Nat, rec : Seq(Tokens) \cup {None}]

StateTypes ==
    /\ Recurrent \in BOOLEAN
    /\ {kv, rec, cached.toks} \subseteq Seq(Tokens)
    /\ genCkpt \in Ckpt /\ queryCkpt \in Ckpt
    /\ ~Recurrent => genCkpt.rec = None /\ queryCkpt.rec = None

IsTurn(t) ==
    /\ t = [req |-> t.req, past |-> t.past, reused |-> t.reused, same |-> t.same,
            warm |-> t.warm, fits |-> t.fits, ckpt |-> t.ckpt, gen |-> t.gen]
    /\ t.req \in Prompts /\ t.past \in Nat /\ t.past <= Len(t.req.toks)
    /\ {t.same, t.warm, t.fits} \subseteq BOOLEAN
    /\ t.ckpt \in Seq(Tokens) \cup {None} /\ t.gen \in Seq(Tokens)

RequestTypes ==
    /\ pc # "idle" => IsTurn(turn)
    /\ pc # "generate" /\ pc # "idle" => turn.gen = <<>>
    /\ pc \in {"cut", "sync", "cold", "reselect", "prefix", "save"} => turn.ckpt = None

\* The rows that are kept are rows of the request.
KeptRows == Past <= Len(cached.toks) /\ Take(cached.toks, Past) = Take(Toks, Past)
KeptInv == pc \in {"cut", "sync", "reselect", "prefix", "save", "query"} => KeptRows

CutInv ==
    pc = "cut" =>
        /\ Rests /\ Past <= Len(kv)
        /\ turn.warm /\ Recurrent => Len(rec) = Past

SyncInv == pc = "sync" => Rests /\ Len(kv) = Past

\* Only a warm turn goes from the cut straight to the tail.
ColdInv == pc \in {"sync", "reselect", "prefix", "save", "query", "again"} => ~turn.warm

\* Which way a turn goes through its query.
WayInv ==
    /\ pc = "reselect" => Prepared = "reselect"
    /\ pc \in {"prefix", "save", "query", "again"} => Prepared = "prefix"

ReadyInv == pc \in {"reselect", "prefix"} => Saved(cached.toks) /\ QueryKept /\ Holds(Past)

Reached == IF Past >= turn.req.q0 THEN Past ELSE turn.req.q0

SaveInv ==
    pc = "save" => Saved(cached.toks) /\ QueryKept /\ Holds(Reached) /\ Saving

QueryInv ==
    pc = "query" =>
        IF Saving
        THEN /\ kv = Take(Toks, Reached)
             /\ rec = Take(Toks, turn.req.q0) /\ turn.ckpt = rec
             /\ SavedOf(Toks, queryCkpt)
        ELSE Saved(cached.toks) /\ QueryKept /\ Holds(Reached)

AgainInv ==
    pc = "again" =>
        /\ SavedOf(Toks, queryCkpt) /\ Holds(turn.req.q1) /\ Past <= turn.req.q1
        /\ Recurrent => turn.ckpt = Take(Toks, turn.req.q0)

TailInv == pc = "tail" => SavedOf(Toks, queryCkpt) /\ Holds(TailFrom) /\ TailFrom <= End

GenerateInv ==
    pc = "generate" =>
        /\ HoldsRequest /\ SavedOf(Toks, queryCkpt)
        /\ Recurrent => genCkpt = [row |-> End, rec |-> Toks]

RequestInv ==
    /\ pc = "idle" => Rests
    /\ KeptInv /\ CutInv /\ SyncInv /\ ColdInv /\ WayInv /\ ReadyInv /\ SaveInv
    /\ QueryInv /\ AgainInv /\ TailInv /\ GenerateInv

TurnInv == StateTypes /\ RequestTypes /\ RequestInv

\* faults = 0: no request was cut short.
LegacyInv == faults \in Nat /\ (faults = 0 => TurnInv)

-----------------------------------------------------------------------------
(* Numbers.                                                                *)

\* The least and the greatest of two integers.
LEMMA MinOfTwo ==
    ASSUME NEW a \in Int, NEW b \in Int
    PROVE  Min({a, b}) = IF a <= b THEN a ELSE b
<1>1. \A x \in {a, b} : (\A y \in {a, b} : x <= y) <=> x = (IF a <= b THEN a ELSE b)
  OBVIOUS
<1>2. (IF a <= b THEN a ELSE b) \in {a, b}
  OBVIOUS
<1>3. QED
  BY <1>1, <1>2 DEF Min

LEMMA MaxOfTwo ==
    ASSUME NEW a \in Int, NEW b \in Int
    PROVE  Max({a, b}) = IF a >= b THEN a ELSE b
<1>1. \A x \in {a, b} : (\A y \in {a, b} : x >= y) <=> x = (IF a >= b THEN a ELSE b)
  OBVIOUS
<1>2. (IF a >= b THEN a ELSE b) \in {a, b}
  OBVIOUS
<1>3. QED
  BY <1>1, <1>2 DEF Max

\* A set of naturals has a least element.
LEMMA LeastOfNats ==
    ASSUME NEW S \in SUBSET Nat, S # {}
    PROVE  \E m \in S : \A x \in S : m <= x
<1>1. PICK m \in S : \A x \in S : <<x, m>> \notin OpToRel(<, Nat)
  BY NatLessThanWellFounded, WFMin, Zenon
<1>2. \A x \in S : ~ x < m
  BY <1>1, Zenon DEF OpToRel
<1>3. \A x \in S : m <= x
  BY <1>2
<1>4. QED
  BY <1>3

\* A bounded set of naturals has a greatest element.
LEMMA GreatestOfNats ==
    ASSUME NEW S \in SUBSET Nat, S # {}, NEW n \in Nat, \A x \in S : x <= n
    PROVE  \E m \in S : \A x \in S : x <= m
<1> DEFINE T == {n - x : x \in S}
<1>1. T \in SUBSET Nat /\ T # {}
  <2>1. \A x \in S : n - x \in Nat
    OBVIOUS
  <2>2. T # {}
    OBVIOUS
  <2>3. QED
    BY <2>1, <2>2
<1>2. PICK t \in T : \A y \in T : t <= y
  <2> HIDE DEF T
  <2>1. QED
    BY <1>1, LeastOfNats
<1>3. PICK m \in S : t = n - m
  OBVIOUS
<1>4. \A x \in S : n - m <= n - x
  BY <1>2, <1>3
<1>5. QED
  BY <1>4

-----------------------------------------------------------------------------
(* Sequences.                                                              *)

\* What a request may keep: the longest common prefix of two conversations.
Common(s, t) == Len(LongestCommonPrefix({s, t}))

\* Take(s, n) is the first n elements of s, or all of it.
LEMMA TakeFacts ==
    ASSUME NEW T, NEW s \in Seq(T), NEW n \in Nat
    PROVE  /\ Take(s, n) \in Seq(T)
           /\ Len(Take(s, n)) = IF n <= Len(s) THEN n ELSE Len(s)
           /\ \A i \in 1 .. Len(Take(s, n)) : Take(s, n)[i] = s[i]
<1> DEFINE m == IF n <= Len(s) THEN n ELSE Len(s)
<1>1. m \in Nat /\ m <= Len(s) /\ Len(s) \in Nat
  BY LenProperties
<1>2. \A i \in 1 .. m : s[i] \in T
  BY <1>1, ElementOfSeq
<1>3. /\ SubSeq(s, 1, m) \in Seq(T)
      /\ Len(SubSeq(s, 1, m)) = IF 1 <= m THEN m - 1 + 1 ELSE 0
      /\ \A i \in 1 .. m - 1 + 1 : SubSeq(s, 1, m)[i] = s[1 + i - 1]
  <2> HIDE DEF m
  <2>1. m \in Int /\ 1 \in Int
    BY <1>1
  <2>2. QED
    BY <2>1, <1>2, SubSeqProperties
<1>4. Take(s, n) = SubSeq(s, 1, m)
  BY <1>1, MinOfTwo DEF Take
<1> HIDE DEF m
<1>5. Len(SubSeq(s, 1, m)) = m
  BY <1>1, <1>3
<1>6. \A i \in 1 .. m : SubSeq(s, 1, m)[i] = s[i]
  BY <1>1, <1>3
<1>7. QED
  BY <1>3, <1>4, <1>5, <1>6 DEF m

\* Take within a sequence is a subsequence.
LEMMA TakeIsSubSeq ==
    ASSUME NEW T, NEW s \in Seq(T), NEW n \in Nat, n <= Len(s)
    PROVE  Take(s, n) = SubSeq(s, 1, n)
<1>1. Len(s) \in Nat
  BY LenProperties
<1>2. Min({n, Len(s)}) = n
  BY <1>1, MinOfTwo
<1>3. QED
  BY <1>2 DEF Take

\* Taking all of a sequence, and nothing of it.
LEMMA TakeAll ==
    ASSUME NEW T, NEW s \in Seq(T), NEW n \in Nat, n >= Len(s)
    PROVE  Take(s, n) = s
<1>1. Len(s) \in Nat
  BY LenProperties
<1>2. Len(Take(s, n)) = Len(s)
  BY <1>1, TakeFacts
<1>3. QED
  BY <1>2, TakeFacts, SeqEqual

LEMMA TakeNone ==
    ASSUME NEW T, NEW s \in Seq(T)
    PROVE  Take(s, 0) = <<>>
<1>1. Len(s) \in Nat /\ Len(Take(s, 0)) = 0 /\ Take(s, 0) \in Seq(T)
  BY LenProperties, TakeFacts
<1>2. QED
  BY <1>1, EmptySeq

\* Taking twice takes the fewer rows.
LEMMA TakeOfTake ==
    ASSUME NEW T, NEW s \in Seq(T), NEW n \in Nat, NEW m \in Nat, m <= n
    PROVE  Take(Take(s, n), m) = Take(s, m)
<1>1. Len(s) \in Nat
  BY LenProperties
<1>2. Take(s, n) \in Seq(T) /\ Take(s, m) \in Seq(T) /\ Take(Take(s, n), m) \in Seq(T)
  BY TakeFacts
<1>3. Len(Take(Take(s, n), m)) = Len(Take(s, m))
  BY <1>1, <1>2, TakeFacts
<1>4. ASSUME NEW i \in 1 .. Len(Take(s, m)) PROVE Take(Take(s, n), m)[i] = Take(s, m)[i]
  <2>1. i \in 1 .. Len(Take(s, n)) /\ i \in 1 .. Len(Take(Take(s, n), m))
    BY <1>1, <1>2, <1>3, TakeFacts
  <2>2. Take(Take(s, n), m)[i] = Take(s, n)[i] /\ Take(s, n)[i] = s[i] /\ Take(s, m)[i] = s[i]
    BY <2>1, <1>2, TakeFacts
  <2>3. QED
    BY <2>2
<1>5. QED
  BY <1>2, <1>3, <1>4, SeqEqual

\* Sequences that agree on n elements agree on fewer.
LEMMA TakeShorter ==
    ASSUME NEW T, NEW s \in Seq(T), NEW t \in Seq(T), NEW n \in Nat, NEW m \in Nat, m <= n,
           Take(s, n) = Take(t, n)
    PROVE  Take(s, m) = Take(t, m)
  BY TakeOfTake

\* Taking on: the next elements behind the first m are the first n.
LEMMA TakeOn ==
    ASSUME NEW T, NEW s \in Seq(T), NEW m \in Nat, NEW n \in Nat, m <= n, n <= Len(s)
    PROVE  /\ Take(s, m) \o SubSeq(s, m + 1, n) = Take(s, n)
           /\ SubSeq(s, m + 1, n) \in Seq(T)
           /\ Len(SubSeq(s, m + 1, n)) = n - m
<1>1. Len(s) \in Nat
  BY LenProperties
<1>2. Take(s, m) = SubSeq(s, 1, m) /\ Take(s, n) = SubSeq(s, 1, n)
  BY <1>1, TakeIsSubSeq
<1>3. 1 \in 1 .. Len(s) + 1 /\ m \in 1 - 1 .. Len(s) /\ n \in m .. Len(s)
  BY <1>1
<1>4. SubSeq(s, 1, m) \o SubSeq(s, m + 1, n) = SubSeq(s, 1, n)
  BY <1>3, ConcatAdjacentSubSeq
<1>5. \A i \in m + 1 .. n : s[i] \in T
  BY <1>1, ElementOfSeq
<1>6. m + 1 \in Int /\ n \in Int
  OBVIOUS
<1>7. /\ SubSeq(s, m + 1, n) \in Seq(T)
      /\ Len(SubSeq(s, m + 1, n)) = IF m + 1 <= n THEN n - (m + 1) + 1 ELSE 0
  BY <1>5, <1>6, SubSeqProperties
<1>8. QED
  BY <1>2, <1>4, <1>7

\* What is added behind a sequence is not taken before its end.
LEMMA TakeOfConcat ==
    ASSUME NEW T, NEW s \in Seq(T), NEW t \in Seq(T), NEW n \in Nat, n <= Len(s)
    PROVE  Take(s \o t, n) = Take(s, n)
<1>1. Len(s) \in Nat /\ Len(t) \in Nat
  BY LenProperties
<1>2. /\ s \o t \in Seq(T) /\ Len(s \o t) = Len(s) + Len(t)
      /\ \A i \in 1 .. Len(s) + Len(t) : (s \o t)[i] = IF i <= Len(s) THEN s[i] ELSE t[i - Len(s)]
  BY ConcatProperties
<1>3. Len(Take(s \o t, n)) = n /\ Len(Take(s, n)) = n
  <2>1. Len(Take(s, n)) = IF n <= Len(s) THEN n ELSE Len(s)
    BY TakeFacts
  <2>2. Len(Take(s \o t, n)) = IF n <= Len(s \o t) THEN n ELSE Len(s \o t)
    BY <1>2, TakeFacts
  <2>3. n <= Len(s \o t)
    BY <1>1, <1>2
  <2>4. QED
    BY <2>1, <2>2, <2>3
<1>4. ASSUME NEW i \in 1 .. n PROVE Take(s \o t, n)[i] = Take(s, n)[i]
  <2>1. Take(s \o t, n)[i] = (s \o t)[i] /\ Take(s, n)[i] = s[i]
    BY <1>2, <1>3, TakeFacts
  <2>2. QED
    BY <2>1, <1>1, <1>2
<1>5. Take(s \o t, n) \in Seq(T) /\ Take(s, n) \in Seq(T)
  BY <1>2, TakeFacts
<1>6. QED
  BY <1>3, <1>4, <1>5, SeqEqual

\* A sequence with one element added.
LEMMA OneMore ==
    ASSUME NEW T, NEW s \in Seq(T), NEW e \in T
    PROVE  /\ s \o <<e>> \in Seq(T) /\ Len(s \o <<e>>) = Len(s) + 1
           /\ s \o <<e>> = Append(s, e)
           /\ \A i \in 1 .. Len(s) : (s \o <<e>>)[i] = s[i]
           /\ (s \o <<e>>)[Len(s) + 1] = e
<1> DEFINE a == Append(s, e)
           c == s \o <<e>>
<1>1. a = c
  BY AppendIsConcat, Zenon
<1>2. /\ a \in Seq(T) /\ Len(a) = Len(s) + 1
      /\ \A i \in 1 .. Len(s) : a[i] = s[i]
      /\ a[Len(s) + 1] = e
  BY AppendProperties
<1> HIDE DEF a, c
<1>3. /\ c \in Seq(T) /\ Len(c) = Len(s) + 1 /\ c = a
      /\ \A i \in 1 .. Len(s) : c[i] = s[i]
      /\ c[Len(s) + 1] = e
  BY <1>1, <1>2, Zenon
<1>4. QED
  BY <1>3 DEF a, c

\* Common(s, t) elements are common to s and t.
LEMMA CommonFacts ==
    ASSUME NEW T, NEW s \in Seq(T), NEW t \in Seq(T)
    PROVE  /\ Common(s, t) \in Nat /\ Common(s, t) <= Len(s) /\ Common(s, t) <= Len(t)
           /\ Take(s, Common(s, t)) = Take(t, Common(s, t))
<1> DEFINE P == CommonPrefixes({s, t})
<1> DEFINE lens == {Len(p) : p \in P}
<1>1. Len(s) \in Nat /\ Len(t) \in Nat
  BY LenProperties
<1>2. \A u \in Seq(T) : \A l \in 0 .. Len(u) : SubSeq(u, 1, l) \in Seq(T)
  <2> SUFFICES ASSUME NEW u \in Seq(T), NEW l \in 0 .. Len(u) PROVE SubSeq(u, 1, l) \in Seq(T)
    OBVIOUS
  <2>1. Len(u) \in Nat
    BY LenProperties
  <2>2. \A i \in 1 .. l : u[i] \in T
    BY <2>1, ElementOfSeq
  <2>3. l \in Int /\ 1 \in Int
    BY <2>1
  <2>4. QED
    BY <2>2, <2>3, SubSeqProperties
<1>3. \A p \in P : p \in Seq(T) /\ IsPrefix(p, s) /\ IsPrefix(p, t)
  BY <1>2 DEF CommonPrefixes, Prefixes
<1>4. <<>> \in P
  <2>1. SubSeq(s, 1, 0) = <<>>
    BY SubSeqEmpty
  <2>2. IsPrefix(<<>>, s) /\ IsPrefix(<<>>, t)
    <3>1. Len(<<>>) = 0
      BY EmptySeq
    <3>2. SubSeq(<<>>, 1, 0) = <<>> /\ SubSeq(s, 1, 0) = <<>> /\ SubSeq(t, 1, 0) = <<>>
      BY SubSeqEmpty
    <3>3. QED
      BY <3>1, <3>2, <1>1 DEF IsPrefix
  <2>3. <<>> \in Prefixes(s)
    BY <2>1, <1>1 DEF Prefixes
  <2>4. QED
    BY <2>2, <2>3 DEF CommonPrefixes
<1>5. lens \in SUBSET Nat /\ lens # {} /\ \A x \in lens : x <= Len(s)
  <2>1. \A p \in P : Len(p) \in Nat /\ Len(p) <= Len(s)
    BY <1>3, LenProperties DEF IsPrefix
  <2>2. QED
    BY <2>1, <1>4
<1>6. PICK m \in lens : \A x \in lens : x <= m
  <2> HIDE DEF lens
  <2>1. QED
    BY <1>1, <1>5, GreatestOfNats
<1>7. \E p \in P : \A q \in P : Len(q) <= Len(p)
  BY <1>6
<1>8. LongestCommonPrefix({s, t}) \in P
  BY <1>7, Zenon DEF LongestCommonPrefix
<1> DEFINE l == LongestCommonPrefix({s, t})
<1>9. l \in Seq(T) /\ IsPrefix(l, s) /\ IsPrefix(l, t)
  BY <1>3, <1>8
<1> HIDE DEF l
<1>10. Len(l) \in Nat /\ Len(l) <= Len(s) /\ Len(l) <= Len(t)
  BY <1>9, LenProperties DEF IsPrefix
<1>11. Take(s, Len(l)) = SubSeq(s, 1, Len(l)) /\ Take(t, Len(l)) = SubSeq(t, 1, Len(l))
  BY <1>10, TakeIsSubSeq
<1>12. SubSeq(s, 1, Len(l)) = SubSeq(t, 1, Len(l))
  BY <1>9 DEF IsPrefix
<1>13. QED
  BY <1>10, <1>11, <1>12 DEF Common, l

-----------------------------------------------------------------------------
(* Requests, saved states and rows.                                        *)

\* The requests, and the value that stands for no request and no state.
LEMMA PromptFacts ==
    ASSUME NEW p \in Prompts
    PROVE  /\ p.toks \in Seq(Tokens) /\ Len(p.toks) \in Nat
           /\ p.q0 \in Nat /\ p.q1 \in Nat /\ p.q0 < p.q1 /\ p.q1 <= Len(p.toks)
<1>1. /\ p.toks \in Seq(Range(p.toks))
      /\ p.q0 \in Nat /\ p.q1 \in Nat /\ p.q0 < p.q1 /\ p.q1 <= Len(p.toks)
  BY LegacyTurnAssumption
<1>2. Range(p.toks) \subseteq Tokens
  BY DEF Tokens
<1>3. p.toks \in Seq(Tokens)
  BY <1>1, <1>2, SeqMonotonic
<1>4. QED
  BY <1>1, <1>3, LenProperties

LEMMA NoneApart == None \notin Seq(Tokens) /\ None \notin Prompts
  BY LegacyTurnAssumption

\* The request that is served.
LEMMA TurnFacts ==
    ASSUME IsTurn(turn)
    PROVE  /\ Toks \in Seq(Tokens) /\ End = Len(Toks) /\ End \in Nat
           /\ turn.req.q0 \in Nat /\ turn.req.q1 \in Nat
           /\ turn.req.q0 < turn.req.q1 /\ turn.req.q1 <= End
           /\ Past \in Nat /\ Past <= End
  BY PromptFacts DEF IsTurn, Toks, End, Past

\* Rows a..b-1 follow the first a rows.
LEMMA RowsFacts ==
    ASSUME IsTurn(turn), NEW a \in Nat, NEW b \in Nat, a <= b, b <= End
    PROVE  /\ Rows(a, b) \in Seq(Tokens)
           /\ Take(Toks, a) \o Rows(a, b) = Take(Toks, b)
           /\ Take(Toks, a) \in Seq(Tokens) /\ Len(Take(Toks, a)) = a
<1>1. Toks \in Seq(Tokens) /\ End = Len(Toks) /\ End \in Nat
  BY TurnFacts
<1>2. /\ Take(Toks, a) \o SubSeq(Toks, a + 1, b) = Take(Toks, b)
      /\ SubSeq(Toks, a + 1, b) \in Seq(Tokens)
  BY <1>1, TakeOn
<1>3. Rows(a, b) = SubSeq(Toks, a + 1, b)
  BY DEF Rows, Toks
<1>4. Take(Toks, a) \in Seq(Tokens) /\ Len(Take(Toks, a)) = a
  BY <1>1, TakeFacts
<1>5. QED
  BY <1>2, <1>3, <1>4

\* Writing rows of the request again over a memory that holds the first n of
\* them loses none and adds those after it.
LEMMA WrittenAgain ==
    ASSUME IsTurn(turn), NEW S, NEW n \in Nat, n <= End, S = Take(Toks, n),
           NEW a \in Nat, NEW b \in Nat, a <= n, a <= b, b <= End
    PROVE  Take(S, a) \o Rows(a, b) \o SubSeq(S, b + 1, Len(S))
             = Take(Toks, IF b <= n THEN n ELSE b)
<1>1. Toks \in Seq(Tokens) /\ End = Len(Toks) /\ End \in Nat
  BY TurnFacts
<1>2. S \in Seq(Tokens) /\ Len(S) = n
  BY <1>1, TakeFacts
<1>3. Take(S, a) \o Rows(a, b) = Take(Toks, b)
  BY <1>1, RowsFacts, TakeOfTake
<1>4. CASE b <= n
  <2>1. Take(S, b) = Take(Toks, b)
    BY <1>1, <1>4, TakeOfTake
  <2>2. Take(S, b) \o SubSeq(S, b + 1, n) = Take(S, n)
    <3>1. n <= Len(S)
      BY <1>2
    <3>2. S \in Seq(Tokens)
      BY <1>2
    <3>3. QED
      BY <1>4, <3>1, <3>2, TakeOn
  <2>3. Take(S, n) = S
    BY <1>2, TakeAll
  <2>4. QED
    BY <1>2, <1>3, <1>4, <2>1, <2>2, <2>3
<1>5. CASE ~ b <= n
  <2>1. SubSeq(S, b + 1, n) = <<>>
    BY <1>2, <1>5, SubSeqEmpty
  <2>2. Take(Toks, b) \in Seq(Tokens)
    BY <1>1, TakeFacts
  <2>3. Take(Toks, b) \o <<>> = Take(Toks, b)
    BY <2>2, ConcatEmptySeq
  <2>4. QED
    BY <1>2, <1>3, <1>5, <2>1, <2>3
<1>6. QED
  BY <1>4, <1>5

\* What the conversation and the request agree on, they agree on in its part.
LEMMA KeptPart ==
    ASSUME StateTypes, IsTurn(turn), KeptRows, NEW n \in Nat, n <= Past
    PROVE  Take(cached.toks, n) = Take(Toks, n)
<1>1. Toks \in Seq(Tokens) /\ Past \in Nat
  BY TurnFacts
<1>2. cached.toks \in Seq(Tokens)
  BY DEF StateTypes
<1>3. QED
  BY <1>1, <1>2, TakeShorter DEF KeptRows

\* A state of the conversation at a kept row is a state of the request.
LEMMA KeptState ==
    ASSUME StateTypes, IsTurn(turn), KeptRows, NEW c \in Ckpt, SavedOf(cached.toks, c),
           c.rec # None => c.row <= Past
    PROVE  SavedOf(Toks, c)
<1>1. SUFFICES ASSUME c.rec # None PROVE c.row <= Len(Toks) /\ c.rec = Take(Toks, c.row)
  BY DEF SavedOf
<1>2. c.row \in Nat /\ c.row <= Past /\ c.rec = Take(cached.toks, c.row)
  BY <1>1 DEF SavedOf, Ckpt
<1>3. Past \in Nat /\ Past <= Len(Toks) /\ Len(Toks) \in Nat
  BY TurnFacts
<1>4. Take(cached.toks, c.row) = Take(Toks, c.row)
  BY <1>2, KeptPart
<1>5. QED
  BY <1>2, <1>3, <1>4

\* gdn_sync_to picks one of the saved states that are no later than the row.
LEMMA LatestFacts ==
    ASSUME StateTypes, NEW row \in Nat, Ckpts(row) # {}
    PROVE  /\ LatestCkpt(row) \in {genCkpt, queryCkpt} /\ LatestCkpt(row) \in Ckpt
           /\ LatestCkpt(row).rec # None /\ LatestCkpt(row).row \in Nat
           /\ LatestCkpt(row).row <= row
<1>1. Ckpts(row) \subseteq {genCkpt, queryCkpt}
  BY DEF Ckpts
<1>2. genCkpt.row \in Nat /\ queryCkpt.row \in Nat /\ genCkpt \in Ckpt /\ queryCkpt \in Ckpt
  BY DEF StateTypes, Ckpt
<1>3. \E c \in Ckpts(row) : \A d \in Ckpts(row) : d.row <= c.row
  <2>1. CASE genCkpt \in Ckpts(row) /\ (queryCkpt \in Ckpts(row) => queryCkpt.row <= genCkpt.row)
    <3>1. \A d \in Ckpts(row) : d.row <= genCkpt.row
      BY <1>1, <1>2, <2>1
    <3>2. QED
      BY <2>1, <3>1
  <2>2. CASE queryCkpt \in Ckpts(row) /\ (genCkpt \in Ckpts(row) => genCkpt.row <= queryCkpt.row)
    <3>1. \A d \in Ckpts(row) : d.row <= queryCkpt.row
      BY <1>1, <1>2, <2>2
    <3>2. QED
      BY <2>2, <3>1
  <2>3. QED
    BY <1>1, <1>2, <2>1, <2>2
<1>4. LatestCkpt(row) \in Ckpts(row)
  BY <1>3, Zenon DEF LatestCkpt
<1>5. QED
  BY <1>1, <1>2, <1>4 DEF Ckpts

\* The attention rows stay, the recurrent state is the one at the row.
LEMMA SyncFacts ==
    ASSUME StateTypes, IsTurn(turn), KeptRows, Saved(cached.toks),
           NEW row \in Nat, NEW n \in Nat, row <= n, n <= End, row <= Past,
           kv = Take(Toks, n), Synced(row) \/ Ckpts(row) # {},
           Recurrent /\ Synced(row) => rec = Take(Toks, row), SyncTo(row)
    PROVE  /\ kv' = kv /\ rec' \in Seq(Tokens)
           /\ Recurrent => rec' = Take(Toks, row)
<1>1. rec \in Seq(Tokens) /\ Recurrent \in BOOLEAN
  BY DEF StateTypes
<1>2. CASE Synced(row)
  BY <1>1, <1>2 DEF SyncTo, memory
<1>3. CASE ~Synced(row)
  <2> DEFINE c == LatestCkpt(row)
  <2>1. /\ c \in {genCkpt, queryCkpt} /\ c \in Ckpt
        /\ c.rec # None /\ c.row \in Nat /\ c.row <= row
    BY <1>3, LatestFacts
  <2>2. Rewrite(c.row, row, c.rec) /\ Recurrent
    BY <1>3 DEF SyncTo, Synced
  <2> HIDE DEF c
  <2>3. SavedOf(cached.toks, c)
    BY <2>1 DEF Saved
  <2>4. Past \in Nat /\ End \in Nat
    BY TurnFacts
  <2>5. SavedOf(Toks, c)
    BY <2>1, <2>3, <2>4, KeptState
  <2>6. c.rec = Take(Toks, c.row)
    BY <2>1, <2>5 DEF SavedOf
  <2>7. row <= End
    BY <2>4
  <2>8. c.rec \o Rows(c.row, row) = Take(Toks, row) /\ Take(Toks, row) \in Seq(Tokens)
    BY <2>1, <2>6, <2>7, RowsFacts
  <2>9. Take(kv, c.row) \o Rows(c.row, row) \o SubSeq(kv, row + 1, Len(kv)) = Take(Toks, n)
    <3> DEFINE a == c.row
    <3>1. a \in Nat /\ a <= row /\ a <= n
      BY <2>1
    <3> HIDE DEF a
    <3>2. Take(kv, a) \o Rows(a, row) \o SubSeq(kv, row + 1, Len(kv))
            = Take(Toks, IF row <= n THEN n ELSE row)
      BY <2>7, <3>1, WrittenAgain
    <3>3. QED
      BY <3>2 DEF a
  <2>10. QED
    BY <2>2, <2>8, <2>9 DEF Rewrite
<1>4. QED
  BY <1>2, <1>3

-----------------------------------------------------------------------------
(* What has to be shown of the state after a step, by where it leads.      *)

Serving == StateTypes /\ IsTurn(turn)
Begun == Serving /\ turn.gen = <<>> /\ turn.ckpt = None
Coming == Begun /\ KeptRows /\ ~turn.warm
Ready == Coming /\ Saved(cached.toks) /\ QueryKept

LEMMA AtIdle == pc = "idle" /\ StateTypes /\ Rests => TurnInv
  BY DEF TurnInv, RequestTypes, RequestInv, KeptInv, CutInv, SyncInv, ColdInv, WayInv,
         ReadyInv, SaveInv, QueryInv, AgainInv, TailInv, GenerateInv

LEMMA AtCut ==
    pc = "cut" /\ Begun /\ KeptRows /\ Rests /\ Past <= Len(kv)
      /\ (turn.warm /\ Recurrent => Len(rec) = Past) => TurnInv
  BY DEF TurnInv, RequestTypes, RequestInv, KeptInv, CutInv, SyncInv, ColdInv, WayInv,
         ReadyInv, SaveInv, QueryInv, AgainInv, TailInv, GenerateInv, Begun, Serving

LEMMA AtCold == pc = "cold" /\ Begun => TurnInv
  BY DEF TurnInv, RequestTypes, RequestInv, KeptInv, CutInv, SyncInv, ColdInv, WayInv,
         ReadyInv, SaveInv, QueryInv, AgainInv, TailInv, GenerateInv, Begun, Serving

LEMMA AtSync == pc = "sync" /\ Coming /\ Rests /\ Len(kv) = Past => TurnInv
  BY DEF TurnInv, RequestTypes, RequestInv, KeptInv, CutInv, SyncInv, ColdInv, WayInv,
         ReadyInv, SaveInv, QueryInv, AgainInv, TailInv, GenerateInv, Begun, Serving, Coming

LEMMA AtReady ==
    pc \in {"reselect", "prefix"} /\ pc = Prepared /\ Ready /\ Holds(Past) => TurnInv
  BY DEF TurnInv, RequestTypes, RequestInv, KeptInv, CutInv, SyncInv, ColdInv, WayInv,
         ReadyInv, SaveInv, QueryInv, AgainInv, TailInv, GenerateInv, Begun, Serving, Coming,
         Ready

LEMMA AtSave ==
    pc = "save" /\ Prepared = "prefix" /\ Ready /\ Holds(Reached) /\ Saving => TurnInv
  BY DEF TurnInv, RequestTypes, RequestInv, KeptInv, CutInv, SyncInv, ColdInv, WayInv,
         ReadyInv, SaveInv, QueryInv, AgainInv, TailInv, GenerateInv, Begun, Serving, Coming,
         Ready

LEMMA AtQuery ==
    pc = "query" /\ Prepared = "prefix" /\ Serving /\ turn.gen = <<>> /\ KeptRows
      /\ ~turn.warm /\ QueryInv => TurnInv
  BY DEF TurnInv, RequestTypes, RequestInv, KeptInv, CutInv, SyncInv, ColdInv, WayInv,
         ReadyInv, SaveInv, AgainInv, TailInv, GenerateInv, Serving

LEMMA AtAgain ==
    pc = "again" /\ Prepared = "prefix" /\ Serving /\ turn.gen = <<>> /\ ~turn.warm
      /\ AgainInv => TurnInv
  BY DEF TurnInv, RequestTypes, RequestInv, KeptInv, CutInv, SyncInv, ColdInv, WayInv,
         ReadyInv, SaveInv, QueryInv, TailInv, GenerateInv, Serving

LEMMA AtTail == pc = "tail" /\ Serving /\ turn.gen = <<>> /\ TailInv => TurnInv
  BY DEF TurnInv, RequestTypes, RequestInv, KeptInv, CutInv, SyncInv, ColdInv, WayInv,
         ReadyInv, SaveInv, QueryInv, AgainInv, GenerateInv, Serving

LEMMA AtGenerate == pc = "generate" /\ Serving /\ GenerateInv => TurnInv
  BY DEF TurnInv, RequestTypes, RequestInv, KeptInv, CutInv, SyncInv, ColdInv, WayInv,
         ReadyInv, SaveInv, QueryInv, AgainInv, TailInv, Serving

\* What a step leaves alone.
LEMMA SameTypes ==
    ASSUME StateTypes, UNCHANGED <<Recurrent, known>>, kv' \in Seq(Tokens), rec' \in Seq(Tokens)
    PROVE  StateTypes'
  BY DEF StateTypes, known

LEMMA SameRests ==
    ASSUME Rests, UNCHANGED <<Recurrent, kv, rec, known>>
    PROVE  Rests'
  BY DEF Rests, Begins, Saved, SavedOf, QueryFirst, known

LEMMA SameSaved ==
    ASSUME UNCHANGED <<known, turn>>
    PROVE  /\ Saved(cached.toks) => Saved(cached.toks)'
           /\ QueryKept => QueryKept'
           /\ KeptRows => KeptRows'
           /\ SavedOf(Toks, queryCkpt) => SavedOf(Toks, queryCkpt)'
  BY DEF Saved, SavedOf, QueryFirst, QueryKept, KeptRows, Toks, Past, known

LEMMA SameTurn ==
    ASSUME UNCHANGED turn
    PROVE  /\ Toks' = Toks /\ Past' = Past /\ End' = End /\ Prepared' = Prepared
           /\ TailFrom' = TailFrom /\ Reached' = Reached /\ (Retrieving <=> Retrieving')
           /\ IsTurn(turn) => IsTurn(turn)'
  BY DEF Toks, Past, End, Prepared, TailFrom, Reached, Retrieving

-----------------------------------------------------------------------------
(* The steps up to the rows that are kept.                                 *)

LEMMA InitTurn == Init => LegacyInv
<1>1. SUFFICES ASSUME Init PROVE TurnInv /\ faults \in Nat
  BY DEF LegacyInv
<1>2. <<>> \in Seq(Tokens) /\ Len(<<>>) = 0
  BY EmptySeq
<1>3. Take(<<>>, 0) = <<>>
  BY <1>2, TakeNone
<1>4. StateTypes
  BY <1>1, <1>2 DEF Init, StateTypes, NoCkpt, Ckpt
<1>5. Rests
  BY <1>1, <1>2, <1>3 DEF Init, Rests, Begins, Saved, SavedOf, QueryFirst, NoCkpt
<1>6. pc = "idle" /\ faults = 0
  BY <1>1 DEF Init
<1>7. QED
  BY <1>4, <1>5, <1>6, AtIdle

LEMMA AcceptTurn ==
    ASSUME TurnInv, NEW p \in Prompts, NEW fits \in BOOLEAN, NEW free \in BOOLEAN,
           Accept(p, fits, free)
    PROVE  TurnInv'
<1> DEFINE lcp == Common(cached.toks, p.toks)
           hit == Reusable(p, lcp)
           same == lastUser = p.user
           tip == (Recurrent => Len(rec) = lcp) /\ Len(kv) >= lcp
           warm == hit /\ same /\ p.q0 > 0 /\ lcp > p.q1 /\ tip /\ free
           past == IF hit THEN lcp ELSE 0
<1>1. /\ pc = "idle" /\ pc' = IF hit THEN "cut" ELSE "cold"
      /\ turn' = [NoTurn EXCEPT !.req = p, !.fits = fits, !.same = same, !.reused = hit,
                    !.past = past, !.warm = warm]
      /\ UNCHANGED <<Recurrent, kv, rec, known>>
  BY DEF Accept, Common, memory
<1>2. StateTypes /\ Rests
  BY <1>1 DEF TurnInv, RequestInv
<1>3. /\ p.toks \in Seq(Tokens) /\ cached.toks \in Seq(Tokens)
      /\ kv \in Seq(Tokens) /\ rec \in Seq(Tokens)
  BY <1>2, PromptFacts DEF StateTypes
<1>4. /\ lcp \in Nat /\ lcp <= Len(cached.toks) /\ lcp <= Len(p.toks)
      /\ Take(cached.toks, lcp) = Take(p.toks, lcp)
  BY <1>3, CommonFacts
<1>5. /\ hit \in BOOLEAN /\ same \in BOOLEAN /\ warm \in BOOLEAN
      /\ (hit => lcp <= Len(kv)) /\ (warm /\ Recurrent => Len(rec) = lcp)
  <2>1. (hit => lcp <= Len(kv)) /\ (warm /\ Recurrent => Len(rec) = lcp)
    <3> HIDE DEF lcp
    <3>1. Len(kv) >= lcp <=> lcp <= Len(kv)
      BY <1>3, <1>4, LenProperties
    <3>2. QED
      BY <3>1 DEF Reusable
  <2>2. hit \in BOOLEAN /\ same \in BOOLEAN /\ warm \in BOOLEAN
    BY Zenon DEF Reusable
  <2>3. QED
    BY <2>1, <2>2
<1> HIDE DEF lcp, hit, same, tip, warm
<1>6. turn' = [req |-> p, past |-> past, reused |-> hit, same |-> same, warm |-> warm,
               fits |-> fits, ckpt |-> None, gen |-> <<>>]
  BY <1>1 DEF NoTurn
<1>7. /\ turn'.req = p /\ turn'.past = past /\ turn'.warm = warm /\ turn'.same = same
      /\ turn'.fits = fits /\ turn'.ckpt = None /\ turn'.gen = <<>> /\ turn'.reused = hit
  BY <1>6
<1>8. past \in Nat /\ past <= Len(p.toks)
  BY <1>4, PromptFacts
<1>9. IsTurn(turn')
  <2>1. <<>> \in Seq(Tokens)
    BY EmptySeq
  <2> HIDE DEF past
  <2>2. QED
    BY <1>5, <1>6, <1>7, <1>8, <2>1 DEF IsTurn
<1>10. StateTypes' /\ Rests'
  BY <1>1, <1>2, <1>3, SameTypes, SameRests
<1>11. Begun'
  BY <1>7, <1>9, <1>10 DEF Begun, Serving
<1>12. CASE hit
  <2>1. past = lcp /\ pc' = "cut"
    BY <1>1, <1>12
  <2>2. Past' = lcp /\ Toks' = p.toks
    BY <1>7, <2>1 DEF Past, Toks
  <2>3. KeptRows'
    BY <1>1, <1>4, <2>2 DEF KeptRows, known
  <2>4. (Past <= Len(kv))' /\ (turn.warm /\ Recurrent => Len(rec) = Past)'
    BY <1>1, <1>5, <1>7, <1>12, <2>2
  <2>5. (pc = "cut" /\ Begun /\ KeptRows /\ Rests /\ Past <= Len(kv)
           /\ (turn.warm /\ Recurrent => Len(rec) = Past) => TurnInv)'
    BY AtCut, PTL
  <2>6. QED
    BY <1>10, <1>11, <2>1, <2>3, <2>4, <2>5
<1>13. CASE ~hit
  <2>1. (pc = "cold" /\ Begun => TurnInv)'
    BY AtCold, PTL
  <2>2. QED
    BY <1>1, <1>11, <1>13, <2>1
<1>14. QED
  BY <1>12, <1>13

\* What is kept is the beginning of the conversation and of the request.
LEMMA CutRows ==
    ASSUME StateTypes, IsTurn(turn), KeptRows, NEW S \in Seq(Tokens), Begins(cached.toks, S),
           NEW n \in Nat, n <= Past, n <= Len(S)
    PROVE  /\ Take(S, n) = Take(Toks, n) /\ Begins(cached.toks, Take(S, n))
           /\ Take(S, n) \in Seq(Tokens) /\ Len(Take(S, n)) = n
<1> DEFINE C == cached.toks
<1>1. C \in Seq(Tokens) /\ Len(C) \in Nat /\ Len(S) \in Nat
  BY LenProperties DEF StateTypes
<1>2. Take(C, n) = Take(Toks, n)
  BY KeptPart
<1>3. S = Take(C, Len(S)) /\ Len(S) <= Len(C)
  BY DEF Begins
<1> HIDE DEF C
<1>4. Take(Take(C, Len(S)), n) = Take(C, n)
  BY <1>1, TakeOfTake
<1>5. Take(S, n) = Take(C, n)
  BY <1>3, <1>4
<1>6. Take(S, n) \in Seq(Tokens) /\ Len(Take(S, n)) = n
  BY <1>1, TakeFacts
<1>7. QED
  BY <1>1, <1>2, <1>3, <1>5, <1>6 DEF Begins, C

LEMMA CutMemoryTurn ==
    ASSUME TurnInv, CutMemory
    PROVE  TurnInv'
<1>1. /\ pc = "cut" /\ pc' = (IF turn.warm THEN "tail" ELSE "sync")
      /\ kv' = Take(kv, Past) /\ UNCHANGED <<Recurrent, rec, known, turn>>
  BY DEF CutMemory, Past
<1>2. /\ StateTypes /\ IsTurn(turn) /\ turn.gen = <<>> /\ turn.ckpt = None /\ KeptRows
      /\ Rests /\ Past <= Len(kv) /\ (turn.warm /\ Recurrent => Len(rec) = Past)
  BY <1>1 DEF TurnInv, RequestTypes, RequestInv, KeptInv, CutInv
<1>3. kv \in Seq(Tokens) /\ rec \in Seq(Tokens) /\ Begins(cached.toks, kv)
  BY <1>2 DEF StateTypes, Rests
<1>4. Toks \in Seq(Tokens) /\ Past \in Nat /\ Past <= End /\ End \in Nat
  BY <1>2, TurnFacts
<1>5. /\ Take(kv, Past) = Take(Toks, Past) /\ Begins(cached.toks, Take(kv, Past))
      /\ Take(kv, Past) \in Seq(Tokens) /\ Len(Take(kv, Past)) = Past
  BY <1>2, <1>3, <1>4, CutRows
<1>6. StateTypes'
  BY <1>1, <1>2, <1>3, <1>5, SameTypes
<1>7. Serving' /\ turn'.gen = <<>> /\ turn'.ckpt = None /\ Begun'
  BY <1>1, <1>2, <1>6 DEF Serving, Begun
<1>8. /\ Past' = Past /\ Toks' = Toks /\ End' = End /\ TailFrom' = TailFrom
      /\ KeptRows' /\ Saved(cached.toks)'
  <2>1. Past' = Past /\ Toks' = Toks /\ End' = End /\ TailFrom' = TailFrom
    BY <1>1, SameTurn
  <2>2. Saved(cached.toks)
    BY <1>2 DEF Rests
  <2>3. KeptRows' /\ Saved(cached.toks)'
    <3>1. UNCHANGED <<known, turn>>
      BY <1>1
    <3>2. (Saved(cached.toks) => Saved(cached.toks)') /\ (KeptRows => KeptRows')
      BY <3>1, SameSaved
    <3>3. QED
      BY <1>2, <2>2, <3>2
  <2>4. QED
    BY <2>1, <2>3
<1>9. CASE turn.warm
  <2>1. TailFrom = Past
    BY <1>9 DEF TailFrom, Past
  <2>2. queryCkpt.rec # None => queryCkpt.row <= Past
    BY <1>2, <1>9 DEF Rests, StateTypes
  <2>3. SavedOf(Toks, queryCkpt)
    BY <1>2, <2>2, KeptState DEF StateTypes, Rests, Saved
  <2>4. Recurrent => rec = Take(Toks, Past)
    <3>1. SUFFICES ASSUME Recurrent PROVE rec = Take(Toks, Past)
      OBVIOUS
    <3>2. Begins(cached.toks, rec) /\ Len(rec) = Past
      BY <1>2, <1>9, <3>1 DEF Rests
    <3>3. rec = Take(cached.toks, Past)
      BY <3>2 DEF Begins
    <3>4. QED
      BY <1>2, <3>3 DEF KeptRows
  <2>5. Holds(TailFrom)'
    BY <1>1, <1>5, <1>8, <2>1, <2>4 DEF Holds
  <2>6. (pc = "tail" /\ Serving /\ turn.gen = <<>> /\ TailInv => TurnInv)'
    BY AtTail, PTL
  <2>7. SavedOf(Toks, queryCkpt)'
    BY <1>1, <2>3, SameSaved
  <2>8. TailInv'
    BY <1>4, <1>8, <2>1, <2>5, <2>7 DEF TailInv
  <2>9. QED
    BY <1>1, <1>7, <1>9, <2>6, <2>8
<1>10. CASE ~turn.warm
  <2>1. Rests'
    BY <1>1, <1>2, <1>5, <1>8 DEF Rests, known
  <2>2. Coming'
    BY <1>1, <1>7, <1>8, <1>10 DEF Coming
  <2>3. (Len(kv) = Past)'
    BY <1>1, <1>5, <1>8
  <2>4. (pc = "sync" /\ Coming /\ Rests /\ Len(kv) = Past => TurnInv)'
    BY AtSync, PTL
  <2>5. QED
    BY <1>1, <1>10, <2>1, <2>2, <2>3, <2>4
<1>11. QED
  BY <1>9, <1>10

LEMMA SyncStateTurn ==
    ASSUME TurnInv, SyncState
    PROVE  TurnInv'
<1>1. /\ pc = "sync" /\ pc' = Prepared /\ (Synced(Past) \/ Ckpts(Past) # {}) /\ SyncTo(Past)
      /\ UNCHANGED <<Recurrent, known, turn>>
  BY DEF SyncState, Past
<1>2. Coming /\ Rests /\ Len(kv) = Past
  BY <1>1 DEF TurnInv, RequestTypes, RequestInv, KeptInv, ColdInv, SyncInv, Coming, Begun,
              Serving
<1>3. /\ StateTypes /\ IsTurn(turn) /\ KeptRows /\ Saved(cached.toks) /\ ~turn.warm
      /\ turn.gen = <<>> /\ turn.ckpt = None
  BY <1>2 DEF Coming, Begun, Serving, Rests
<1>4. Toks \in Seq(Tokens) /\ Past \in Nat /\ Past <= End /\ End \in Nat
  BY <1>3, TurnFacts
<1>5. ASSUME NEW S \in Seq(Tokens), Begins(cached.toks, S), Len(S) = Past
      PROVE  S = Take(Toks, Past)
  BY <1>3, <1>5 DEF Begins, KeptRows
<1>6. kv \in Seq(Tokens) /\ rec \in Seq(Tokens) /\ Recurrent \in BOOLEAN
  BY <1>3 DEF StateTypes
<1>7. kv = Take(Toks, Past)
  BY <1>2, <1>5, <1>6 DEF Rests
<1>8. Recurrent /\ Synced(Past) => rec = Take(Toks, Past)
  BY <1>2, <1>5, <1>6 DEF Rests, Synced
<1>9. /\ kv' = kv /\ rec' \in Seq(Tokens) /\ (Recurrent => rec' = Take(Toks, Past))
  BY <1>1, <1>3, <1>4, <1>7, <1>8, SyncFacts
<1>10. QueryKept
  <2>1. SUFFICES ASSUME queryCkpt.rec # None PROVE queryCkpt.row <= Past
    BY DEF QueryKept
  <2>2. /\ Recurrent /\ queryCkpt.row \in Nat /\ genCkpt.row \in Nat
        /\ genCkpt.rec # None /\ queryCkpt.row <= genCkpt.row /\ queryCkpt.row <= Len(rec)
    BY <1>2, <1>3, <2>1 DEF Rests, Saved, QueryFirst, StateTypes, Ckpt
  <2>3. CASE Synced(Past)
    BY <2>2, <2>3 DEF Synced
  <2>4. CASE Ckpts(Past) # {}
    <3>1. genCkpt.row <= Past \/ queryCkpt.row <= Past
      BY <2>4 DEF Ckpts
    <3>2. QED
      BY <1>4, <2>2, <3>1
  <2>5. QED
    BY <1>1, <2>3, <2>4
<1>11. StateTypes'
  BY <1>1, <1>3, <1>6, <1>9, SameTypes
<1>12. /\ Past' = Past /\ Toks' = Toks /\ End' = End /\ TailFrom' = TailFrom
       /\ Prepared' = Prepared /\ IsTurn(turn)'
  BY <1>1, <1>3, SameTurn
<1>13. Serving' /\ turn'.gen = <<>> /\ turn'.ckpt = None /\ ~turn'.warm
  BY <1>1, <1>3, <1>11, <1>12 DEF Serving
<1>14. Saved(cached.toks)' /\ QueryKept' /\ KeptRows'
  <2>1. UNCHANGED <<known, turn>>
    BY <1>1
  <2>2. QED
    BY <1>3, <1>10, <2>1, SameSaved
<1>15. Holds(Past)'
  BY <1>1, <1>7, <1>9, <1>12 DEF Holds
<1>16. CASE Prepared \in {"reselect", "prefix"}
  <2>1. (pc \in {"reselect", "prefix"} /\ pc = Prepared /\ Ready /\ Holds(Past) => TurnInv)'
    BY AtReady, PTL
  <2>2. Ready'
    BY <1>13, <1>14 DEF Ready, Coming, Begun, Serving
  <2>3. pc' \in {"reselect", "prefix"} /\ pc' = Prepared'
    BY <1>1, <1>12, <1>16
  <2>4. QED
    BY <1>15, <2>1, <2>2, <2>3
<1>17. CASE Prepared \notin {"reselect", "prefix"}
  <2>1. pc' = "tail" /\ TailFrom = Past
    BY <1>1, <1>17 DEF Prepared, TailFrom, Past
  <2>2. SavedOf(Toks, queryCkpt)
    BY <1>3, <1>10, KeptState DEF QueryKept, Saved, StateTypes
  <2>3. SavedOf(Toks, queryCkpt)'
    BY <1>1, <2>2, SameSaved
  <2>4. TailInv'
    BY <1>4, <1>12, <1>15, <2>1, <2>3 DEF TailInv
  <2>5. (pc = "tail" /\ Serving /\ turn.gen = <<>> /\ TailInv => TurnInv)'
    BY AtTail, PTL
  <2>6. QED
    BY <1>13, <2>1, <2>4, <2>5
<1>18. QED
  BY <1>16, <1>17

LEMMA SyncImpossibleTurn ==
    ASSUME TurnInv, SyncImpossible
    PROVE  TurnInv'
<1>1. pc = "sync" /\ pc' = "cold" /\ UNCHANGED <<Recurrent, kv, rec, known, turn>>
  BY DEF SyncImpossible, memory
<1>2. StateTypes /\ IsTurn(turn) /\ turn.gen = <<>> /\ turn.ckpt = None
  BY <1>1 DEF TurnInv, RequestTypes
<1>3. StateTypes'
  BY <1>1, <1>2, SameTypes DEF StateTypes
<1>4. Begun'
  BY <1>1, <1>2, <1>3 DEF Begun, Serving
<1>5. (pc = "cold" /\ Begun => TurnInv)'
  BY AtCold, PTL
<1>6. QED
  BY <1>1, <1>4, <1>5

\* A cold turn keeps nothing.
LEMMA StartColdTurn ==
    ASSUME TurnInv, StartCold
    PROVE  TurnInv'
<1>1. /\ pc = "cold" /\ pc' = (IF Retrieving THEN "prefix" ELSE "tail")
      /\ kv' = <<>> /\ rec' = <<>> /\ cached' = [toks |-> <<>>, gen |-> 0]
      /\ genCkpt' = NoCkpt /\ queryCkpt' = NoCkpt /\ UNCHANGED Recurrent
      /\ turn' = [turn EXCEPT !.reused = FALSE, !.past = 0, !.warm = FALSE]
  BY DEF StartCold, ForgetAll
<1>2. StateTypes /\ IsTurn(turn) /\ turn.gen = <<>> /\ turn.ckpt = None
  BY <1>1 DEF TurnInv, RequestTypes
<1>3. <<>> \in Seq(Tokens) /\ Len(<<>>) = 0
  BY EmptySeq
<1>4. StateTypes'
  BY <1>1, <1>2, <1>3 DEF StateTypes, NoCkpt, Ckpt
<1>5. turn' = [req |-> turn.req, past |-> 0, reused |-> FALSE, same |-> turn.same,
               warm |-> FALSE, fits |-> turn.fits, ckpt |-> turn.ckpt, gen |-> turn.gen]
  BY <1>1, <1>2 DEF IsTurn
<1>6. /\ turn'.req = turn.req /\ turn'.past = 0 /\ turn'.reused = FALSE
      /\ turn'.same = turn.same /\ turn'.warm = FALSE /\ turn'.fits = turn.fits
      /\ turn'.ckpt = turn.ckpt /\ turn'.gen = turn.gen
  BY <1>5
<1>7. Toks \in Seq(Tokens) /\ End \in Nat /\ Toks' = Toks /\ Past' = 0 /\ End' = End
      /\ turn.req.q1 \in Nat
  BY <1>2, <1>6, TurnFacts DEF Toks, Past, End
<1>8. IsTurn(turn')
  <2>1. 0 <= Len(turn.req.toks)
    BY <1>7 DEF End
  <2>2. QED
    BY <1>2, <1>5, <1>6, <2>1 DEF IsTurn
<1>9. Begun'
  BY <1>2, <1>4, <1>6, <1>8 DEF Begun, Serving
<1>10. Take(Toks, 0) = <<>> /\ Take(<<>>, 0) = <<>>
  BY <1>3, <1>7, TakeNone
<1>11. /\ KeptRows' /\ Saved(cached.toks)' /\ QueryKept' /\ SavedOf(Toks, queryCkpt)'
       /\ Holds(Past)'
  BY <1>1, <1>3, <1>7, <1>10 DEF KeptRows, Saved, SavedOf, QueryFirst, QueryKept, NoCkpt, Holds
<1>12. Retrieving' <=> Retrieving
  BY <1>6 DEF Retrieving
<1>13. Prepared' = IF Retrieving THEN "prefix" ELSE "tail"
  <2>1. ~ Past' > turn'.req.q1
    BY <1>6, <1>7
  <2>2. QED
    BY <1>12, <2>1 DEF Prepared, Past
<1>14. CASE Retrieving
  <2>1. (pc \in {"reselect", "prefix"} /\ pc = Prepared /\ Ready /\ Holds(Past) => TurnInv)'
    BY AtReady, PTL
  <2>2. Ready'
    BY <1>6, <1>9, <1>11 DEF Ready, Coming
  <2>3. pc' = "prefix" /\ Prepared' = "prefix"
    BY <1>1, <1>13, <1>14
  <2>4. QED
    BY <1>11, <2>1, <2>2, <2>3
<1>15. CASE ~Retrieving
  <2>1. TailFrom' = Past'
    BY <1>13, <1>15 DEF TailFrom, Past
  <2>2. TailInv'
    BY <1>7, <1>11, <2>1 DEF TailInv
  <2>3. (pc = "tail" /\ Serving /\ turn.gen = <<>> /\ TailInv => TurnInv)'
    BY AtTail, PTL
  <2>4. QED
    BY <1>1, <1>9, <1>15, <2>2, <2>3 DEF Begun
<1>16. QED
  BY <1>14, <1>15

LEMMA ReselectTurn ==
    ASSUME TurnInv, Reselect
    PROVE  TurnInv'
<1>1. pc = "reselect" /\ pc' = "tail" /\ UNCHANGED <<Recurrent, kv, rec, known, turn>>
  BY DEF Reselect, memory
<1>2. /\ StateTypes /\ IsTurn(turn) /\ turn.gen = <<>> /\ turn.ckpt = None /\ KeptRows
      /\ Saved(cached.toks) /\ QueryKept /\ Holds(Past) /\ Prepared = "reselect"
  BY <1>1 DEF TurnInv, RequestTypes, RequestInv, KeptInv, WayInv, ReadyInv
<1>3. TailFrom = Past /\ Past <= End
  BY <1>2, TurnFacts DEF TailFrom, Past
<1>4. SavedOf(Toks, queryCkpt)
  BY <1>2, KeptState DEF QueryKept, Saved, StateTypes
<1>5. SavedOf(Toks, queryCkpt)'
  BY <1>1, <1>4, SameSaved
<1>6. Past' = Past /\ Toks' = Toks /\ End' = End /\ TailFrom' = TailFrom /\ IsTurn(turn)'
  BY <1>1, <1>2, SameTurn
<1>7. Holds(Past)'
  BY <1>1, <1>2, <1>6 DEF Holds
<1>8. TailInv'
  BY <1>3, <1>5, <1>6, <1>7 DEF TailInv
<1>9. StateTypes'
  BY <1>1, <1>2, SameTypes DEF StateTypes
<1>10. (pc = "tail" /\ Serving /\ turn.gen = <<>> /\ TailInv => TurnInv)'
  BY AtTail, PTL
<1>11. QED
  BY <1>1, <1>2, <1>6, <1>8, <1>9, <1>10 DEF Serving

-----------------------------------------------------------------------------
(* The prefix, the query and the tail.                                     *)

\* Evaluating on from what the memories hold.
LEMMA DecodeFacts ==
    ASSUME StateTypes, IsTurn(turn), NEW a \in Nat, NEW b \in Nat, a <= b, b <= End,
           Holds(a), Decode(a, b, rec)
    PROVE  /\ kv' = Take(Toks, b) /\ kv' \in Seq(Tokens) /\ rec' \in Seq(Tokens)
           /\ Recurrent => rec' = Take(Toks, b)
<1>1. Take(Toks, a) \o Rows(a, b) = Take(Toks, b) /\ Take(Toks, b) \in Seq(Tokens)
  <2>1. b <= b
    OBVIOUS
  <2>2. QED
    BY <2>1, RowsFacts
<1>2. kv' = Take(Toks, b)
  BY <1>1 DEF Decode, Holds
<1>3. CASE Recurrent
  <2>1. rec' = rec \o Rows(a, b) /\ rec = Take(Toks, a)
    BY <1>3 DEF Decode, Holds
  <2>2. QED
    BY <1>1, <1>2, <2>1
<1>4. CASE ~Recurrent
  <2>1. rec' = rec /\ rec \in Seq(Tokens)
    BY <1>4 DEF Decode, StateTypes
  <2>2. QED
    BY <1>1, <1>2, <1>4, <2>1
<1>5. QED
  BY <1>3, <1>4

LEMMA ReachedFacts ==
    ASSUME IsTurn(turn)
    PROVE  /\ Reached \in Nat /\ Reached <= End /\ Past <= Reached /\ turn.req.q0 <= Reached
           /\ Past <= turn.req.q0 => Reached = turn.req.q0
           /\ turn.req.q0 <= Past => Reached = Past
  BY TurnFacts DEF Reached

LEMMA EvaluatePrefixTurn ==
    ASSUME TurnInv, EvaluatePrefix
    PROVE  TurnInv'
<1> DEFINE q0 == turn.req.q0
<1>1. /\ pc = "prefix" /\ pc' = (IF Saving THEN "save" ELSE "query")
      /\ IF Past < q0 THEN Decode(Past, q0, rec) ELSE UNCHANGED <<kv, rec>>
      /\ UNCHANGED <<Recurrent, known, turn>>
  BY DEF EvaluatePrefix, memory, Past
<1>2. /\ StateTypes /\ IsTurn(turn) /\ turn.gen = <<>> /\ turn.ckpt = None /\ KeptRows
      /\ Saved(cached.toks) /\ QueryKept /\ Holds(Past) /\ Prepared = "prefix" /\ ~turn.warm
  BY <1>1 DEF TurnInv, RequestTypes, RequestInv, KeptInv, ColdInv, WayInv, ReadyInv
<1>3. Past \in Nat /\ q0 \in Nat /\ q0 <= End /\ End \in Nat
  BY <1>2, TurnFacts
<1>4. /\ Reached \in Nat /\ (Past <= q0 => Reached = q0) /\ (q0 <= Past => Reached = Past)
  BY <1>2, ReachedFacts
<1> HIDE DEF q0
<1>5. kv' \in Seq(Tokens) /\ rec' \in Seq(Tokens) /\ Holds(Reached)'
  <2>1. CASE Past < q0
    <3>1. Past <= q0 /\ Reached = q0 /\ Decode(Past, q0, rec)
      BY <1>1, <1>3, <1>4, <2>1
    <3>2. /\ kv' = Take(Toks, q0) /\ kv' \in Seq(Tokens) /\ rec' \in Seq(Tokens)
          /\ Recurrent => rec' = Take(Toks, q0)
      BY <1>2, <1>3, <3>1, DecodeFacts
    <3>3. Reached' = q0 /\ Toks' = Toks
      BY <1>1, <3>1, SameTurn
    <3>4. QED
      BY <1>1, <3>2, <3>3 DEF Holds
  <2>2. CASE ~ Past < q0
    <3>1. Reached = Past /\ UNCHANGED <<kv, rec>>
      BY <1>1, <1>3, <1>4, <2>2
    <3>2. Reached' = Past /\ Toks' = Toks
      BY <1>1, <3>1, SameTurn
    <3>3. QED
      BY <1>1, <1>2, <3>1, <3>2 DEF Holds, StateTypes
  <2>3. QED
    BY <2>1, <2>2
<1>6. StateTypes' /\ IsTurn(turn)' /\ Prepared' = Prepared
  BY <1>1, <1>2, <1>5, SameTypes, SameTurn
<1>7. Saved(cached.toks)' /\ QueryKept' /\ KeptRows'
  <2>1. UNCHANGED <<known, turn>>
    BY <1>1
  <2>2. QED
    BY <1>2, <2>1, SameSaved
<1>8. Ready'
  BY <1>1, <1>2, <1>6, <1>7 DEF Ready, Coming, Begun, Serving
<1>9. Saving' <=> Saving
  BY <1>1 DEF Saving
<1>10. CASE Saving
  <2>1. (pc = "save" /\ Prepared = "prefix" /\ Ready /\ Holds(Reached) /\ Saving => TurnInv)'
    BY AtSave, PTL
  <2>2. QED
    BY <1>1, <1>2, <1>5, <1>6, <1>8, <1>9, <1>10, <2>1
<1>11. CASE ~Saving
  <2>1. QueryInv'
    BY <1>5, <1>7, <1>9, <1>11 DEF QueryInv
  <2>2. (pc = "query" /\ Prepared = "prefix" /\ Serving /\ turn.gen = <<>> /\ KeptRows
           /\ ~turn.warm /\ QueryInv => TurnInv)'
    BY AtQuery, PTL
  <2>3. QED
    BY <1>1, <1>2, <1>6, <1>7, <1>8, <1>11, <2>1, <2>2 DEF Ready, Coming, Begun
<1>12. QED
  BY <1>10, <1>11

\* The state where the query begins is saved.
LEMMA SaveStateTurn ==
    ASSUME TurnInv, SaveState
    PROVE  TurnInv'
<1> DEFINE q0 == turn.req.q0
<1>1. /\ pc = "save" /\ pc' = "query"
      /\ Past > q0 => (Synced(q0) \/ Ckpts(q0) # {})
      /\ IF Past > q0 THEN SyncTo(q0) ELSE UNCHANGED <<kv, rec>>
      /\ turn' = [turn EXCEPT !.ckpt = rec']
      /\ queryCkpt' = [row |-> q0, rec |-> rec']
      /\ UNCHANGED <<Recurrent, cached, genCkpt, lastUser>>
  BY DEF SaveState, memory, Past
<1>2. /\ StateTypes /\ IsTurn(turn) /\ turn.gen = <<>> /\ turn.ckpt = None /\ KeptRows
      /\ Saved(cached.toks) /\ QueryKept /\ Holds(Reached) /\ Saving
      /\ Prepared = "prefix" /\ ~turn.warm
  BY <1>1 DEF TurnInv, RequestTypes, RequestInv, KeptInv, ColdInv, WayInv, SaveInv
<1>3. Past \in Nat /\ Past <= End /\ q0 \in Nat /\ q0 <= End /\ End \in Nat /\ Toks \in Seq(Tokens)
  BY <1>2, TurnFacts
<1>4. /\ Reached \in Nat /\ Reached <= End /\ q0 <= Reached
      /\ (Past <= q0 => Reached = q0) /\ (q0 <= Past => Reached = Past)
  BY <1>2, ReachedFacts
<1>5. Recurrent /\ kv = Take(Toks, Reached) /\ rec = Take(Toks, Reached)
  BY <1>2 DEF Saving, Holds
<1> HIDE DEF q0
<1>6. kv' = kv /\ rec' = Take(Toks, q0) /\ rec' \in Seq(Tokens)
  <2>1. CASE Past > q0
    <3>1. Reached = Past /\ q0 <= Past
      BY <1>3, <1>4, <2>1
    <3>2. Len(rec) = Past
      BY <1>3, <1>5, <3>1, TakeFacts DEF End, Toks
    <3>3. ~ Synced(q0)
      BY <1>3, <1>5, <2>1, <3>2 DEF Synced
    <3>4. kv = Take(Toks, Past)
      BY <1>5, <3>1
    <3>5. SyncTo(q0) /\ (Synced(q0) \/ Ckpts(q0) # {})
      BY <1>1, <2>1
    <3>6. QED
      BY <1>2, <1>3, <1>5, <3>1, <3>3, <3>4, <3>5, SyncFacts
  <2>2. CASE ~ Past > q0
    <3>1. Reached = q0 /\ UNCHANGED <<kv, rec>>
      BY <1>1, <1>3, <1>4, <2>2
    <3>2. QED
      BY <1>2, <1>5, <3>1 DEF StateTypes
  <2>3. QED
    BY <2>1, <2>2
<1>7. StateTypes'
  <2>1. queryCkpt' \in Ckpt
    BY <1>1, <1>3, <1>6 DEF Ckpt
  <2>2. QED
    BY <1>1, <1>2, <1>5, <1>6, <2>1 DEF StateTypes
<1>8. turn' = [req |-> turn.req, past |-> turn.past, reused |-> turn.reused,
               same |-> turn.same, warm |-> turn.warm, fits |-> turn.fits,
               ckpt |-> rec', gen |-> turn.gen]
  BY <1>1, <1>2 DEF IsTurn
<1>9. /\ turn'.req = turn.req /\ turn'.past = turn.past /\ turn'.reused = turn.reused
      /\ turn'.same = turn.same /\ turn'.warm = turn.warm /\ turn'.fits = turn.fits
      /\ turn'.ckpt = rec' /\ turn'.gen = turn.gen
  BY <1>8
<1>10. IsTurn(turn')
  BY <1>2, <1>6, <1>8, <1>9 DEF IsTurn
<1>11. /\ Toks' = Toks /\ Past' = Past /\ End' = End /\ Reached' = Reached
       /\ Prepared' = Prepared /\ (Saving' <=> Saving) /\ turn'.req.q0 = q0
  BY <1>1, <1>9 DEF Toks, Past, End, Reached, Prepared, Retrieving, Saving, q0
<1>12. KeptRows'
  BY <1>1, <1>2, <1>11 DEF KeptRows
<1>13. SavedOf(Toks, queryCkpt)'
  BY <1>1, <1>3, <1>6, <1>11 DEF SavedOf, End, Toks
<1>14. QueryInv'
  BY <1>2, <1>5, <1>6, <1>9, <1>11, <1>13 DEF QueryInv
<1>15. (pc = "query" /\ Prepared = "prefix" /\ Serving /\ turn.gen = <<>> /\ KeptRows
          /\ ~turn.warm /\ QueryInv => TurnInv)'
  BY AtQuery, PTL
<1>16. QED
  BY <1>1, <1>2, <1>7, <1>9, <1>10, <1>11, <1>12, <1>14, <1>15 DEF Serving

\* A request given up before it evaluated a row leaves rows of the conversation.
LEMMA GivenUp ==
    ASSUME StateTypes, IsTurn(turn), KeptRows, Saved(cached.toks), QueryKept, Holds(Past)
    PROVE  Rests
<1>1. Past \in Nat /\ Past <= Len(cached.toks) /\ Toks \in Seq(Tokens) /\ Past <= End
  BY TurnFacts DEF KeptRows
<1>2. Take(Toks, Past) = Take(cached.toks, Past)
  BY DEF KeptRows
<1>3. Len(Take(Toks, Past)) = Past
  BY <1>1, TakeFacts DEF End, Toks
<1>4. Begins(cached.toks, Take(Toks, Past))
  BY <1>1, <1>2, <1>3 DEF Begins
<1>5. queryCkpt.rec # None => Recurrent
  BY DEF StateTypes
<1>6. QED
  BY <1>3, <1>4, <1>5 DEF Rests, Holds, QueryKept

LEMMA GiveUpTurn ==
    ASSUME StateTypes, IsTurn(turn), KeptRows, Saved(cached.toks), QueryKept, Holds(Past),
           UNCHANGED <<Recurrent, kv, rec, known>>, pc' = "idle"
    PROVE  TurnInv'
<1>1. Rests'
  BY GivenUp, SameRests
<1>2. StateTypes'
  BY SameTypes DEF StateTypes
<1>3. (pc = "idle" /\ StateTypes /\ Rests => TurnInv)'
  BY AtIdle, PTL
<1>4. QED
  BY <1>1, <1>2, <1>3

LEMMA SaveFailsTurn ==
    ASSUME TurnInv, SaveFails
    PROVE  TurnInv' \/ Failing
<1>1. SUFFICES ASSUME ~Failing PROVE TurnInv'
  OBVIOUS
<1>2. /\ pc = "save" /\ Past > turn.req.q0 /\ pc' = "idle"
      /\ UNCHANGED <<Recurrent, kv, rec, known>>
  BY <1>1 DEF SaveFails, memory, Past
<1>3. /\ StateTypes /\ IsTurn(turn) /\ KeptRows /\ Saved(cached.toks) /\ QueryKept
      /\ Holds(Reached)
  BY <1>2 DEF TurnInv, RequestTypes, RequestInv, KeptInv, SaveInv
<1>4. Reached = Past
  BY <1>2, <1>3, TurnFacts, ReachedFacts
<1>5. Holds(Past)
  BY <1>3, <1>4
<1>6. QED
  BY <1>2, <1>3, <1>5, GiveUpTurn

\* Without a saved state both memories reach to the same row.
LEMMA HeldFacts ==
    ASSUME StateTypes, IsTurn(turn), Holds(Reached)
    PROVE  Held = Reached
<1>1. Reached \in Nat /\ Reached <= Len(Toks) /\ Toks \in Seq(Tokens)
  BY TurnFacts, ReachedFacts
<1>2. Len(Take(Toks, Reached)) = Reached
  BY <1>1, TakeFacts
<1>3. Min({Reached, Reached}) = Reached
  BY <1>1, MinOfTwo
<1>4. QED
  BY <1>2, <1>3 DEF Held, Holds

\* The query is refused only when the kept rows reach into it, and then nothing
\* was evaluated yet.
LEMMA QueryRefusedTurn ==
    ASSUME TurnInv, QueryRefused
    PROVE  TurnInv'
<1>1. /\ pc = "query" /\ Held > turn.req.q0 /\ pc' = "idle"
      /\ UNCHANGED <<Recurrent, kv, rec, known>>
  BY DEF QueryRefused, memory
<1>2. StateTypes /\ IsTurn(turn) /\ KeptRows /\ QueryInv
  BY <1>1 DEF TurnInv, RequestTypes, RequestInv, KeptInv
<1>3. /\ Toks \in Seq(Tokens) /\ turn.req.q0 \in Nat /\ turn.req.q0 <= Len(Toks)
      /\ Past \in Nat
  BY <1>2, TurnFacts
<1>4. CASE Saving
  <2>1. rec = Take(Toks, turn.req.q0) /\ Recurrent
    BY <1>1, <1>2, <1>4 DEF QueryInv, Saving
  <2>2. Len(rec) = turn.req.q0 /\ Len(kv) \in Nat
    BY <1>2, <1>3, <2>1, TakeFacts, LenProperties DEF StateTypes
  <2>3. Held = Min({Len(kv), turn.req.q0})
    BY <2>1, <2>2 DEF Held
  <2> DEFINE n == Len(kv)
             h == Held
             b == turn.req.q0
  <2>4. n \in Nat /\ b \in Nat /\ h = Min({n, b}) /\ h > b
    BY <1>1, <1>3, <2>2, <2>3
  <2> HIDE DEF n, h, b
  <2>5. h = IF n <= b THEN n ELSE b
    BY <2>4, MinOfTwo
  <2>6. FALSE
    BY <2>4, <2>5
  <2>7. QED
    BY <2>6
<1>5. CASE ~Saving
  <2>1. Saved(cached.toks) /\ QueryKept /\ Holds(Reached)
    BY <1>1, <1>2, <1>5 DEF QueryInv
  <2>2. Reached > turn.req.q0
    BY <1>1, <1>2, <2>1, HeldFacts
  <2>3. Reached = Past
    BY <1>3, <2>2 DEF Reached
  <2>4. QED
    BY <1>1, <1>2, <2>1, <2>3, GiveUpTurn
<1>6. QED
  BY <1>4, <1>5

\* A way through the query ends at its last row.
LEMMA TailStart ==
    ASSUME IsTurn(turn), ~turn.warm, Prepared = "prefix", Past <= turn.req.q1
    PROVE  TailFrom = turn.req.q1
<1>1. turn.req.q1 \in Nat /\ Past \in Nat
  BY TurnFacts
<1>2. Max({Past, turn.req.q1}) = turn.req.q1
  BY <1>1, MaxOfTwo
<1>3. QED
  BY <1>2 DEF TailFrom, Past

LEMMA EvaluateQueryTurn ==
    ASSUME TurnInv, EvaluateQuery
    PROVE  TurnInv'
<1> DEFINE q0 == turn.req.q0
           q1 == turn.req.q1
<1>1. /\ pc = "query" /\ Held <= q0
      /\ kv' = Take(kv, q0) \o Rows(q0, q1) \o SubSeq(kv, q1 + 1, Len(kv))
      /\ rec' = IF Recurrent THEN rec \o Rows(q0, q1) ELSE rec
      /\ (pc' = "again" /\ turn.fits) \/ pc' = "tail"
      /\ UNCHANGED <<Recurrent, known, turn>>
  BY DEF EvaluateQuery
<1>2. /\ StateTypes /\ IsTurn(turn) /\ turn.gen = <<>> /\ KeptRows /\ QueryInv
      /\ Prepared = "prefix" /\ ~turn.warm
  BY <1>1 DEF TurnInv, RequestTypes, RequestInv, KeptInv, ColdInv, WayInv
<1>3. /\ Toks \in Seq(Tokens) /\ q0 \in Nat /\ q1 \in Nat /\ q0 < q1 /\ q1 <= End
      /\ End \in Nat /\ Past \in Nat
  BY <1>2, TurnFacts
<1>4. /\ Reached \in Nat /\ Reached <= End /\ q0 <= Reached /\ Past <= Reached
      /\ (Past <= q0 => Reached = q0) /\ (q0 <= Past => Reached = Past)
  BY <1>2, ReachedFacts
<1> HIDE DEF q0, q1
<1>5. /\ Past <= q1 /\ Reached <= q1 /\ kv = Take(Toks, Reached)
      /\ Recurrent => rec = Take(Toks, q0)
      /\ SavedOf(Toks, queryCkpt)
      /\ Saving => turn.ckpt = rec
  <2>1. CASE Saving
    <3>1. Past <= q1
      BY <2>1 DEF Saving, Past, q1
    <3>2. QED
      BY <1>1, <1>2, <1>3, <1>4, <2>1, <3>1 DEF QueryInv, q0
  <2>2. CASE ~Saving
    <3>1. Saved(cached.toks) /\ QueryKept /\ Holds(Reached)
      BY <1>1, <1>2, <2>2 DEF QueryInv
    <3>2. Reached <= q0
      BY <1>1, <1>2, <3>1, HeldFacts
    <3>3. Reached = q0 /\ Past <= q1 /\ Reached <= q1
      BY <1>3, <1>4, <3>2
    <3>4. SavedOf(Toks, queryCkpt)
      BY <1>2, <3>1, KeptState DEF QueryKept, Saved, StateTypes
    <3>5. QED
      BY <2>2, <3>1, <3>3, <3>4 DEF Holds
  <2>3. QED
    BY <2>1, <2>2
<1>6. kv' = Take(Toks, q1)
  <2>1. (IF q1 <= Reached THEN Reached ELSE q1) = q1
    BY <1>3, <1>4, <1>5
  <2>2. q0 <= q1
    BY <1>3
  <2>3. Take(kv, q0) \o Rows(q0, q1) \o SubSeq(kv, q1 + 1, Len(kv))
          = Take(Toks, IF q1 <= Reached THEN Reached ELSE q1)
    <3>1. kv = Take(Toks, Reached)
      BY <1>5
    <3> DEFINE n == Reached
    <3>2. n \in Nat /\ n <= End /\ q0 <= n /\ kv = Take(Toks, n)
      BY <1>4, <3>1
    <3>3. q0 \in Nat /\ q1 \in Nat /\ q1 <= End /\ IsTurn(turn)
      BY <1>2, <1>3
    <3> HIDE DEF n
    <3>4. Take(kv, q0) \o Rows(q0, q1) \o SubSeq(kv, q1 + 1, Len(kv))
            = Take(Toks, IF q1 <= n THEN n ELSE q1)
      BY <2>2, <3>2, <3>3, WrittenAgain
    <3>5. QED
      BY <3>4 DEF n
  <2>4. QED
    BY <1>1, <2>1, <2>3
<1>7. Take(Toks, q0) \o Rows(q0, q1) = Take(Toks, q1) /\ Take(Toks, q1) \in Seq(Tokens)
  <2>1. q0 <= q1 /\ q1 <= q1
    BY <1>3
  <2>2. QED
    BY <1>2, <1>3, <2>1, RowsFacts
<1>8. rec' \in Seq(Tokens) /\ (Recurrent => rec' = Take(Toks, q1))
  <2>1. CASE Recurrent
    BY <1>1, <1>5, <1>7, <2>1
  <2>2. CASE ~Recurrent
    BY <1>1, <1>2, <2>2 DEF StateTypes
  <2>3. QED
    BY <2>1, <2>2
<1>9. StateTypes'
  BY <1>1, <1>2, <1>6, <1>7, <1>8, SameTypes
<1>10. /\ Toks' = Toks /\ Past' = Past /\ End' = End /\ Prepared' = Prepared
       /\ TailFrom' = TailFrom /\ IsTurn(turn)'
  BY <1>1, <1>2, SameTurn
<1>11. q1' = q1 /\ Holds(q1)'
  <2>1. q1' = q1
    BY <1>1 DEF q1
  <2>2. QED
    BY <1>1, <1>6, <1>8, <1>10, <2>1 DEF Holds
<1>12. SavedOf(Toks, queryCkpt)'
  BY <1>1, <1>5, SameSaved
<1>13. CASE pc' = "again" /\ turn.fits
  <2>1. Recurrent => turn.ckpt = Take(Toks, q0)
    <3>1. Recurrent => Saving
      BY <1>5, <1>13 DEF Saving, Past, q1
    <3>2. QED
      BY <1>5, <3>1
  <2>2. AgainInv'
    BY <1>1, <1>5, <1>10, <1>11, <1>12, <2>1 DEF AgainInv, q0, q1
  <2>3. (pc = "again" /\ Prepared = "prefix" /\ Serving /\ turn.gen = <<>> /\ ~turn.warm
           /\ AgainInv => TurnInv)'
    BY AtAgain, PTL
  <2>4. QED
    BY <1>1, <1>2, <1>9, <1>10, <1>13, <2>2, <2>3 DEF Serving
<1>14. CASE pc' = "tail"
  <2>1. TailFrom = q1
    BY <1>2, <1>5, TailStart DEF q1
  <2>2. TailInv'
    BY <1>3, <1>10, <1>11, <1>12, <2>1 DEF TailInv
  <2>3. (pc = "tail" /\ Serving /\ turn.gen = <<>> /\ TailInv => TurnInv)'
    BY AtTail, PTL
  <2>4. QED
    BY <1>1, <1>2, <1>9, <1>10, <1>14, <2>2, <2>3 DEF Serving
<1>15. QED
  BY <1>1, <1>13, <1>14

\* The recurrent state is the saved one again before the query is replayed.
LEMMA ReplayQueryTurn ==
    ASSUME TurnInv, ReplayQuery
    PROVE  TurnInv'
<1> DEFINE q0 == turn.req.q0
           q1 == turn.req.q1
           from == IF turn.ckpt # None THEN turn.ckpt ELSE rec
<1>1. /\ pc = "again" /\ pc' = "tail" /\ UNCHANGED <<Recurrent, known, turn>>
      /\ kv' = Take(kv, q0) \o Rows(q0, q1) \o SubSeq(kv, q1 + 1, Len(kv))
      /\ rec' = IF Recurrent THEN from \o Rows(q0, q1) ELSE rec
  BY DEF ReplayQuery, Rewrite
<1>2. /\ StateTypes /\ IsTurn(turn) /\ turn.gen = <<>> /\ Prepared = "prefix" /\ ~turn.warm
      /\ SavedOf(Toks, queryCkpt) /\ Holds(q1) /\ Past <= q1
      /\ Recurrent => turn.ckpt = Take(Toks, q0)
  BY <1>1 DEF TurnInv, RequestTypes, RequestInv, ColdInv, WayInv, AgainInv
<1>3. q0 \in Nat /\ q1 \in Nat /\ q0 <= q1 /\ q1 <= End /\ End \in Nat /\ q1 <= q1
  BY <1>2, TurnFacts
<1>4. TailFrom = q1
  BY <1>2, TailStart
<1> HIDE DEF q0, q1
<1>5. /\ Take(Toks, q0) \o Rows(q0, q1) = Take(Toks, q1)
      /\ Take(Toks, q0) \in Seq(Tokens) /\ Take(Toks, q1) \in Seq(Tokens)
  BY <1>2, <1>3, RowsFacts
<1>6. kv' = Take(Toks, q1)
  <2>1. kv = Take(Toks, q1)
    BY <1>2 DEF Holds
  <2>2. Take(kv, q0) \o Rows(q0, q1) \o SubSeq(kv, q1 + 1, Len(kv))
          = Take(Toks, IF q1 <= q1 THEN q1 ELSE q1)
    BY <1>2, <1>3, <2>1, WrittenAgain
  <2>3. QED
    BY <1>1, <2>2
<1>7. rec' \in Seq(Tokens) /\ (Recurrent => rec' = Take(Toks, q1))
  <2>1. CASE Recurrent
    <3>1. from = Take(Toks, q0)
      BY <1>2, <1>5, <2>1, NoneApart
    <3> HIDE DEF from
    <3>2. QED
      BY <1>1, <1>5, <2>1, <3>1
  <2>2. CASE ~Recurrent
    BY <1>1, <1>2, <2>2 DEF StateTypes
  <2>3. QED
    BY <2>1, <2>2
<1>8. StateTypes'
  BY <1>1, <1>2, <1>5, <1>6, <1>7, SameTypes
<1>9. Toks' = Toks /\ End' = End /\ TailFrom' = TailFrom /\ IsTurn(turn)'
  BY <1>1, <1>2, SameTurn
<1>10. q1' = q1 /\ Holds(q1)'
  <2>1. q1' = q1
    BY <1>1 DEF q1
  <2>2. QED
    BY <1>1, <1>6, <1>7, <1>9, <2>1 DEF Holds
<1>11. SavedOf(Toks, queryCkpt)'
  BY <1>1, <1>2, SameSaved
<1>12. TailInv'
  BY <1>3, <1>4, <1>9, <1>10, <1>11 DEF TailInv
<1>13. (pc = "tail" /\ Serving /\ turn.gen = <<>> /\ TailInv => TurnInv)'
  BY AtTail, PTL
<1>14. QED
  BY <1>1, <1>2, <1>8, <1>9, <1>12, <1>13 DEF Serving

LEMMA EvaluateTailTurn ==
    ASSUME TurnInv, EvaluateTail
    PROVE  TurnInv'
<1>1. /\ pc = "tail" /\ pc' = "generate" /\ Decode(TailFrom, End, rec)
      /\ genCkpt' = IF Recurrent THEN [row |-> End, rec |-> rec'] ELSE genCkpt
      /\ UNCHANGED <<Recurrent, cached, queryCkpt, turn>>
  BY DEF EvaluateTail
<1>2. /\ StateTypes /\ IsTurn(turn) /\ turn.gen = <<>> /\ SavedOf(Toks, queryCkpt)
      /\ Holds(TailFrom) /\ TailFrom <= End
  BY <1>1 DEF TurnInv, RequestTypes, RequestInv, TailInv
<1>3. /\ Toks \in Seq(Tokens) /\ End \in Nat /\ End = Len(Toks) /\ Past \in Nat
      /\ turn.req.q1 \in Nat
  BY <1>2, TurnFacts
<1>4. TailFrom \in Nat
  <2>1. Max({Past, turn.req.q1}) \in Nat
    BY <1>3, MaxOfTwo
  <2>2. QED
    BY <1>3, <2>1 DEF TailFrom, Past
<1>5. /\ kv' = Take(Toks, End) /\ kv' \in Seq(Tokens) /\ rec' \in Seq(Tokens)
      /\ Recurrent => rec' = Take(Toks, End)
  <2>1. End <= End
    BY <1>3
  <2>2. QED
    BY <1>1, <1>2, <1>3, <1>4, <2>1, DecodeFacts
<1>6. Take(Toks, End) = Toks /\ Toks \o <<>> = Toks
  BY <1>3, TakeAll, ConcatEmptySeq
<1>7. StateTypes'
  <2>1. genCkpt' \in Ckpt
    BY <1>1, <1>2, <1>3, <1>5 DEF StateTypes, Ckpt
  <2>2. ~Recurrent => genCkpt' = genCkpt
    BY <1>1
  <2>3. QED
    BY <1>1, <1>2, <1>5, <2>1, <2>2 DEF StateTypes
<1>8. Toks' = Toks /\ End' = End /\ IsTurn(turn)'
  BY <1>1, <1>2, SameTurn
<1>9. HoldsRequest'
  <2>1. turn'.req.toks = Toks /\ turn'.gen = <<>>
    BY <1>1, <1>2 DEF Toks
  <2>2. QED
    BY <1>1, <1>5, <1>6, <2>1 DEF HoldsRequest
<1>10. SavedOf(Toks, queryCkpt)'
  BY <1>1, <1>2, <1>8 DEF SavedOf
<1>11. GenerateInv'
  BY <1>1, <1>5, <1>6, <1>8, <1>9, <1>10 DEF GenerateInv
<1>12. (pc = "generate" /\ Serving /\ GenerateInv => TurnInv)'
  BY AtGenerate, PTL
<1>13. QED
  BY <1>1, <1>7, <1>8, <1>11, <1>12 DEF Serving

-----------------------------------------------------------------------------
(* The reply, and the whole.                                               *)

\* One more token of the reply.
LEMMA AppendBehind ==
    ASSUME NEW s \in Seq(Tokens), NEW r \in Seq(Tokens), NEW t \in Tokens
    PROVE  Append(s \o r, t) = s \o Append(r, t)
<1> DEFINE a == s \o r
           u == <<t>>
<1>1. a \in Seq(Tokens)
  BY ConcatProperties
<1>2. u \in Seq(Tokens)
  OBVIOUS
<1>3. Append(r, t) = r \o u
  BY OneMore
<1>4. Append(a, t) = a \o u
  <2> HIDE DEF a
  <2>1. QED
    BY <1>1, OneMore
<1>5. (s \o r) \o u = s \o (r \o u)
  <2> HIDE DEF u
  <2>1. QED
    BY <1>2, ConcatAssociative
<1>6. QED
  BY <1>3, <1>4, <1>5, Zenon

LEMMA GenerateTurn ==
    ASSUME TurnInv, NEW t \in Words, Generate(t)
    PROVE  TurnInv'
<1>1. /\ pc = "generate" /\ pc' = pc
      /\ turn' = [turn EXCEPT !.gen = Append(turn.gen, t)]
      /\ kv' = Append(kv, t) /\ rec' = (IF Recurrent THEN Append(rec, t) ELSE rec)
      /\ UNCHANGED <<Recurrent, known>>
  BY DEF Generate
<1>2. /\ StateTypes /\ IsTurn(turn) /\ HoldsRequest /\ SavedOf(Toks, queryCkpt)
      /\ Recurrent => genCkpt = [row |-> End, rec |-> Toks]
  BY <1>1 DEF TurnInv, RequestTypes, RequestInv, GenerateInv
<1>3. t \in Tokens
  BY DEF Tokens
<1>4. /\ Toks \in Seq(Tokens) /\ turn.gen \in Seq(Tokens)
      /\ kv \in Seq(Tokens) /\ rec \in Seq(Tokens)
  BY <1>2, TurnFacts DEF IsTurn, StateTypes
<1> DEFINE g == Append(turn.gen, t)
<1>5. g \in Seq(Tokens) /\ Append(Toks \o turn.gen, t) = Toks \o g
  <2>1. g \in Seq(Tokens)
    BY <1>3, <1>4, AppendProperties
  <2>2. Append(Toks \o turn.gen, t) = Toks \o Append(turn.gen, t)
    BY <1>3, <1>4, AppendBehind, Zenon
  <2>3. QED
    BY <2>1, <2>2
<1> HIDE DEF g
<1>6. turn' = [req |-> turn.req, past |-> turn.past, reused |-> turn.reused,
               same |-> turn.same, warm |-> turn.warm, fits |-> turn.fits,
               ckpt |-> turn.ckpt, gen |-> g]
  BY <1>1, <1>2 DEF IsTurn, g
<1>7. /\ turn'.req = turn.req /\ turn'.past = turn.past /\ turn'.reused = turn.reused
      /\ turn'.same = turn.same /\ turn'.warm = turn.warm /\ turn'.fits = turn.fits
      /\ turn'.ckpt = turn.ckpt /\ turn'.gen = g
  BY <1>6
<1>8. IsTurn(turn')
  BY <1>2, <1>5, <1>6, <1>7 DEF IsTurn
<1>9. Toks' = Toks /\ End' = End
  BY <1>7 DEF Toks, End
<1>10. kv' = Toks \o g /\ (Recurrent => rec' = Toks \o g)
  <2>1. kv = Toks \o turn.gen /\ (Recurrent => rec = Toks \o turn.gen)
    BY <1>2 DEF HoldsRequest, Toks
  <2>2. QED
    BY <1>1, <1>5, <2>1, Zenon
<1>11. kv' \in Seq(Tokens) /\ rec' \in Seq(Tokens)
  BY <1>1, <1>3, <1>4, AppendProperties
<1>12. StateTypes'
  BY <1>1, <1>2, <1>11, SameTypes
<1>13. HoldsRequest'
  BY <1>1, <1>7, <1>10 DEF HoldsRequest, Toks
<1>14. SavedOf(Toks, queryCkpt)'
  BY <1>1, <1>2, <1>9 DEF SavedOf, known
<1>15. GenerateInv'
  BY <1>1, <1>2, <1>9, <1>13, <1>14 DEF GenerateInv, known
<1>16. (pc = "generate" /\ Serving /\ GenerateInv => TurnInv)'
  BY AtGenerate, PTL
<1>17. QED
  BY <1>1, <1>8, <1>12, <1>15, <1>16 DEF Serving

\* The conversation that is remembered is what both memories hold, and both
\* saved states are states of it.
LEMMA CommitTurn ==
    ASSUME TurnInv, Commit
    PROVE  TurnInv'
<1> DEFINE C == Toks \o turn.gen
<1>1. /\ pc = "generate" /\ pc' = "idle" /\ cached'.toks = C
      /\ UNCHANGED <<Recurrent, kv, rec, genCkpt, queryCkpt>>
  BY DEF Commit, memory, Toks
<1>2. /\ StateTypes /\ IsTurn(turn) /\ HoldsRequest /\ SavedOf(Toks, queryCkpt)
      /\ Recurrent => genCkpt = [row |-> End, rec |-> Toks]
  BY <1>1 DEF TurnInv, RequestTypes, RequestInv, GenerateInv
<1>3. /\ Toks \in Seq(Tokens) /\ turn.gen \in Seq(Tokens) /\ End = Len(Toks) /\ End \in Nat
  BY <1>2, TurnFacts DEF IsTurn
<1>4. kv = C /\ (Recurrent => rec = C)
  BY <1>2 DEF HoldsRequest, Toks
<1>5. C \in Seq(Tokens) /\ Len(C) \in Nat /\ End <= Len(C)
  BY <1>3, ConcatProperties, LenProperties
<1>6. \A n \in Nat : n <= End => Take(C, n) = Take(Toks, n)
  BY <1>3, TakeOfConcat
<1>7. Take(Toks, End) = Toks
  BY <1>3, TakeAll
<1> HIDE DEF C
<1>8. Take(C, Len(C)) = C
  BY <1>5, TakeAll
<1>9. Begins(C, C)
  BY <1>5, <1>8 DEF Begins
<1>10. StateTypes'
  BY <1>1, <1>2, <1>5 DEF StateTypes
<1>11. queryCkpt.rec # None => Recurrent /\ queryCkpt.row \in Nat /\ queryCkpt.row <= End
  BY <1>2, <1>3 DEF SavedOf, StateTypes, Ckpt
<1>12. SavedOf(C, queryCkpt)
  BY <1>2, <1>3, <1>5, <1>6, <1>11 DEF SavedOf
<1>13. genCkpt.rec # None => genCkpt.row = End /\ genCkpt.rec = Toks
  BY <1>2 DEF StateTypes
<1>14. SavedOf(C, genCkpt)
  BY <1>3, <1>5, <1>6, <1>7, <1>13 DEF SavedOf
<1>15. QueryFirst
  BY <1>2, <1>3, <1>11, NoneApart DEF QueryFirst
<1>16. queryCkpt.rec # None => queryCkpt.row <= Len(rec)
  BY <1>3, <1>4, <1>5, <1>11
<1>17. Rests'
  BY <1>1, <1>4, <1>9, <1>12, <1>14, <1>15, <1>16 DEF Rests, Saved, SavedOf, QueryFirst
<1>18. (pc = "idle" /\ StateTypes /\ Rests => TurnInv)'
  BY AtIdle, PTL
<1>19. QED
  BY <1>1, <1>10, <1>17, <1>18

LEMMA StutterTurn ==
    ASSUME TurnInv, UNCHANGED vars
    PROVE  TurnInv'
<1>1. UNCHANGED <<Recurrent, kv, rec, cached, genCkpt, queryCkpt, lastUser, turn, pc>>
  BY DEF vars
<1>2. UNCHANGED known
  BY <1>1 DEF known
<1>3. StateTypes'
  BY <1>1, <1>2, SameTypes DEF TurnInv, StateTypes
<1>4. RequestTypes'
  BY <1>1 DEF TurnInv, RequestTypes
<1>5. /\ Toks' = Toks /\ Past' = Past /\ End' = End /\ Prepared' = Prepared
      /\ TailFrom' = TailFrom /\ Reached' = Reached
  BY <1>1, SameTurn
<1>6. (Saving <=> Saving') /\ (HoldsRequest <=> HoldsRequest')
  BY <1>1 DEF Saving, HoldsRequest
<1>7. (Rests => Rests') /\ (KeptRows => KeptRows') /\ (QueryKept => QueryKept')
      /\ (Saved(cached.toks) => Saved(cached.toks)')
      /\ (SavedOf(Toks, queryCkpt) => SavedOf(Toks, queryCkpt)')
  BY <1>1, <1>2, SameRests, SameSaved
<1>8. \A n : Holds(n) <=> Holds(n)'
  BY <1>1, <1>5 DEF Holds
<1>9. RequestInv
  BY DEF TurnInv
<1>10. (pc = "idle" => Rests)' /\ KeptInv' /\ CutInv' /\ SyncInv'
  BY <1>1, <1>5, <1>7, <1>9 DEF RequestInv, KeptInv, CutInv, SyncInv
<1>11. ColdInv' /\ WayInv'
  BY <1>1, <1>5, <1>9 DEF RequestInv, ColdInv, WayInv
<1>12. ReadyInv' /\ SaveInv'
  BY <1>1, <1>5, <1>6, <1>7, <1>8, <1>9 DEF RequestInv, ReadyInv, SaveInv
<1>13. QueryInv'
  BY <1>1, <1>5, <1>6, <1>7, <1>8, <1>9 DEF RequestInv, QueryInv
<1>14. AgainInv' /\ TailInv' /\ GenerateInv'
  BY <1>1, <1>5, <1>6, <1>7, <1>8, <1>9 DEF RequestInv, AgainInv, TailInv, GenerateInv
<1>15. QED
  BY <1>3, <1>4, <1>10, <1>11, <1>12, <1>13, <1>14 DEF TurnInv, RequestInv

\* Every step that cuts a request short counts it; the others keep TurnInv.
LEMMA NextTurn ==
    ASSUME TurnInv, Next
    PROVE  TurnInv' \/ Failing
<1>1. CASE \E p \in Prompts, fits, free \in BOOLEAN : Accept(p, fits, free)
  BY <1>1, AcceptTurn
<1>2. CASE CutMemory
  BY <1>2, CutMemoryTurn
<1>3. CASE SyncState
  BY <1>3, SyncStateTurn
<1>4. CASE SyncImpossible
  BY <1>4, SyncImpossibleTurn
<1>5. CASE StartCold
  BY <1>5, StartColdTurn
<1>6. CASE Reselect
  BY <1>6, ReselectTurn
<1>7. CASE EvaluatePrefix
  BY <1>7, EvaluatePrefixTurn
<1>8. CASE SaveState
  BY <1>8, SaveStateTurn
<1>9. CASE SaveFails
  BY <1>9, SaveFailsTurn
<1>10. CASE EvaluateQuery
  BY <1>10, EvaluateQueryTurn
<1>11. CASE QueryRefused
  BY <1>11, QueryRefusedTurn
<1>12. CASE ReplayQuery
  BY <1>12, ReplayQueryTurn
<1>13. CASE EvaluateTail
  BY <1>13, EvaluateTailTurn
<1>14. CASE \E t \in Words : Generate(t)
  BY <1>14, GenerateTurn
<1>15. CASE Commit
  BY <1>15, CommitTurn
<1>16. CASE SyncStops \/ PrefixStops \/ QueryStops \/ ReplayStops \/ TailStops \/ GenerateStops
  BY <1>16 DEF SyncStops, PrefixStops, QueryStops, ReplayStops, TailStops, GenerateStops, StopsIn
<1>17. QED
  BY <1>1, <1>2, <1>3, <1>4, <1>5, <1>6, <1>7, <1>8, <1>9, <1>10, <1>11, <1>12, <1>13, <1>14,
     <1>15, <1>16 DEF Next, Serve

\* No step takes back the count of the requests that were cut short.
LEMMA FaultsCounted ==
    ASSUME Next
    PROVE  faults' = faults \/ faults' = faults + 1
  BY DEF Next, Serve, Accept, CutMemory, SyncState, SyncImpossible, SyncStops, StartCold,
         Reselect, EvaluatePrefix, PrefixStops, SaveState, SaveFails, EvaluateQuery,
         QueryRefused, QueryStops, ReplayQuery, ReplayStops, EvaluateTail, TailStops, Generate,
         GenerateStops, Commit, Failing, StopsIn

\* As long as no request was cut short, both memories and both saved states are
\* at each point of a request what LegacyInv says.
THEOREM LegacyInvariant == Spec => []LegacyInv
<1>1. Init => LegacyInv
  BY InitTurn
<1>2. LegacyInv /\ [Next]_vars => LegacyInv'
  <2>1. SUFFICES ASSUME LegacyInv, [Next]_vars PROVE LegacyInv'
    OBVIOUS
  <2>2. faults \in Nat /\ (faults = 0 => TurnInv)
    BY <2>1 DEF LegacyInv
  <2>3. CASE Next
    <3>1. faults' \in Nat /\ (faults' = 0 => faults = 0)
      BY <2>2, <2>3, FaultsCounted
    <3>2. Failing => faults' # 0
      BY <2>2 DEF Failing
    <3>3. faults' = 0 => TurnInv'
      BY <2>2, <2>3, <3>1, <3>2, NextTurn
    <3>4. QED
      BY <3>1, <3>3 DEF LegacyInv
  <2>4. CASE UNCHANGED vars
    <3>1. faults' = faults
      BY <2>4 DEF vars
    <3>2. QED
      BY <2>2, <2>4, <3>1, StutterTurn DEF LegacyInv
  <2>5. QED
    BY <2>1, <2>3, <2>4
<1>3. QED
  BY <1>1, <1>2, PTL DEF Spec

\* A reply is generated from exactly the rows of its request (run_prefill_retrieval),
\* however much of the earlier turns was kept, as long as none was cut short.
THEOREM RepliesFromPrompt == Spec => []ReplyFromPrompt
<1>1. LegacyInv => ReplyFromPrompt
  BY DEF LegacyInv, TurnInv, RequestInv, GenerateInv, ReplyFromPrompt
<1>2. QED
  BY <1>1, LegacyInvariant, PTL

\* Between requests gdn_ckpt and gdn_ckpt_query are states of the cached
\* conversation.
THEOREM SavedStatesKept == Spec => []SavedStatesOfConversation
<1>1. LegacyInv => SavedStatesOfConversation
  BY DEF LegacyInv, TurnInv, RequestInv, Rests, Saved, SavedOf, SavedStatesOfConversation
<1>2. QED
  BY <1>1, LegacyInvariant, PTL
=============================================================================

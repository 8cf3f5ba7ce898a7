--------------------------- MODULE NvmeSpansProofs ---------------------------
(* What a batch of merged transfers moves, for every batch, record size,    *)
(* buffer and overlay.                                                      *)
EXTENDS NvmeSpans, SequenceTheorems, TLAPS

SpansType ==
    /\ spans \in Seq(Span)
    /\ i \in Nat /\ j \in Nat /\ merged \in Nat /\ calls \in Nat
    /\ 1 <= i /\ i <= j /\ j <= Len(spans) + 1
    /\ Copying => ~Merging

\* The bytes merged so far are those of the spans from i to j - 1: they end
\* where span j - 1 ends, in the buffer and in the file.
MergedSpans ==
    Merging =>
      /\ spans[i].at + merged = spans[j - 1].at + spans[j - 1].bytes
      /\ spans[i].slot * SlotBytes + merged
           = spans[j - 1].slot * SlotBytes + spans[j - 1].bytes
      /\ FileOf(spans[j - 1]) = FileOf(spans[i])
      /\ Transferred(spans[i], merged) = AskedBy(i .. j - 1)

\* A packed batch is on its first call, or has made it.
OneCall == Packed => \/ i = 1 /\ calls = 0
                     \/ i = Len(spans) + 1 /\ calls = 1

SpansInv == SpansType /\ MergedSpans /\ EachSpanItsRecord /\ OneCall

-----------------------------------------------------------------------------
\* Two transfers that follow each other in the buffer and in one file are one.
LEMMA TransfersJoin ==
    ASSUME NEW s \in Span, NEW t \in Span, NEW m \in Nat, NEW n \in Nat,
           t.at = s.at + m, t.slot * SlotBytes = s.slot * SlotBytes + m,
           FileOf(t) = FileOf(s)
    PROVE  Transferred(s, m + n) = Transferred(s, m) \cup Transferred(t, n)
<1> DEFINE pair(d) == <<s.at + d, ByteOf(FileOf(s), s.slot * SlotBytes + d)>>
<1>1. s.at \in Nat /\ s.slot * SlotBytes \in Nat
  BY SpansAssumption DEF Span, Slots
<1>2. Transferred(s, m + n) = {pair(d) : d \in 0 .. m + n - 1}
  BY DEF Transferred
<1>3. Transferred(s, m) = {pair(d) : d \in 0 .. m - 1}
  BY DEF Transferred
<1>4. Transferred(t, n) = {pair(m + d) : d \in 0 .. n - 1}
  <2>1. \A d \in 0 .. n - 1 :
          <<t.at + d, ByteOf(FileOf(t), t.slot * SlotBytes + d)>> = pair(m + d)
    <3>1. \A d \in 0 .. n - 1 : /\ t.at + d = s.at + (m + d)
                                /\ t.slot * SlotBytes + d = s.slot * SlotBytes + (m + d)
      BY <1>1
    <3>2. QED
      BY <3>1
  <2>2. QED
    BY <2>1 DEF Transferred
<1> HIDE DEF pair
<1>5. \A d \in 0 .. m + n - 1 : d \in 0 .. m - 1 \/ d - m \in 0 .. n - 1
  OBVIOUS
<1>6. \A d \in 0 .. m + n - 1 : m + (d - m) = d
  OBVIOUS
<1>7. \A d \in 0 .. n - 1 : m + d \in 0 .. m + n - 1
  OBVIOUS
<1>8. \A d \in 0 .. m - 1 : d \in 0 .. m + n - 1
  OBVIOUS
<1>9. QED
  BY <1>2, <1>3, <1>4, <1>5, <1>6, <1>7, <1>8

\* The next record starts where a whole record ends.
LEMMA NextRecord ==
    ASSUME NEW s \in Nat
    PROVE  (s + 1) * SlotBytes = s * SlotBytes + SlotBytes
BY SpansAssumption

LEMMA SpanFacts ==
    ASSUME SpansType, NEW k \in 1 .. Len(spans)
    PROVE  /\ spans[k] \in Span /\ spans[k].at \in Nat /\ spans[k].slot \in Nat
           /\ spans[k].bytes \in Nat /\ spans[k].slot * SlotBytes \in Nat
<1>1. spans[k] \in Span
  BY DEF SpansType
<1>2. QED
  BY <1>1, SpansAssumption DEF Span, Slots

LEMMA AskedTogether ==
    ASSUME NEW A, NEW B
    PROVE  AskedBy(A \cup B) = AskedBy(A) \cup AskedBy(B)
<1>1. \A S, x : x \in AskedBy(S) <=> \E k \in S : x \in Asked(k)
  BY DEF AskedBy
<1>2. \A x : x \in AskedBy(A \cup B) <=> x \in AskedBy(A) \/ x \in AskedBy(B)
  BY <1>1
<1>3. QED
  BY <1>2

LEMMA AskedOnce == \A k : AskedBy({k}) = Asked(k)
BY DEF AskedBy

-----------------------------------------------------------------------------
LEMMA InitSpans == Init => SpansInv
<1> SUFFICES ASSUME Init PROVE SpansInv
  OBVIOUS
<1>1. PICK n \in 0 .. MaxSpans : spans \in [1 .. n -> Span]
  BY DEF Init
<1>2. spans \in Seq(Span)
  <2>1. n \in Nat
    BY SpansAssumption
  <2>2. QED
    BY <1>1, <2>1, SeqDef
<1>3. Len(spans) \in Nat
  BY <1>2, LenProperties
<1>4. SpansType /\ MergedSpans /\ OneCall
  BY <1>2, <1>3 DEF Init, SpansType, MergedSpans, Merging, OneCall
<1>5. EachSpanItsRecord
  BY DEF Init, EachSpanItsRecord, AskedBy
<1>6. QED
  BY <1>4, <1>5 DEF SpansInv

LEMMA NextSpansType == SpansType /\ [Next]_vars => SpansType'
<1> SUFFICES ASSUME SpansType, [Next]_vars PROVE SpansType'
  OBVIOUS
<1>1. Len(spans) \in Nat
  BY LenProperties DEF SpansType
<1>2. CASE Begin
  <2>1. merged' \in Nat
    BY <1>1, <1>2, SpanFacts DEF Begin, Running, SpansType
  <2>2. QED
    BY <1>1, <1>2, <2>1 DEF Begin, Running, batch, SpansType, Merging, Copying
<1>3. CASE Merge
  <2>1. j \in 1 .. Len(spans)
    BY <1>1, <1>3 DEF Merge, Joins, SpansType
  <2>2. merged' \in Nat
    BY <1>3, <2>1, SpanFacts DEF Merge, SpansType
  <2>3. QED
    BY <1>1, <1>3, <2>1, <2>2 DEF Merge, batch, SpansType, Merging, Copying
<1>4. CASE Transfer
  BY <1>1, <1>4 DEF Transfer, Running, batch, SpansType, Merging, Copying
<1>5. CASE WriteOne
  BY <1>1, <1>5 DEF WriteOne, Running, batch, SpansType, Merging, Copying
<1>6. CASE Throw \/ Finish \/ UNCHANGED vars
  BY <1>6 DEF Throw, Finish, vars, batch, SpansType, Merging, Copying
<1>7. QED
  BY <1>2, <1>3, <1>4, <1>5, <1>6 DEF Next

\* Which file a record is in, and so what a span asks for, does not change
\* during a batch: only writes add records to the overlay.
LEMMA FilesFixed ==
    ASSUME [Next]_vars
    PROVE  /\ spans' = spans /\ (Copying' <=> Copying)
           /\ \A s : FileOf(s)' = FileOf(s)
           /\ \A s, n : Transferred(s, n)' = Transferred(s, n)
           /\ \A k : Asked(k)' = Asked(k)
           /\ \A ks : AskedBy(ks)' = AskedBy(ks)
<1>1. UNCHANGED batch
  BY DEF Next, Begin, Merge, Transfer, WriteOne, Throw, Finish, vars
<1>2. write \/ overlaid' = overlaid
  BY DEF Next, Begin, Merge, Transfer, WriteOne, Throw, Finish, vars, Copying
<1>3. \A s : FileOf(s)' = FileOf(s)
  BY <1>1, <1>2 DEF FileOf, batch
<1>4. \A s, n : Transferred(s, n)' = Transferred(s, n)
  BY <1>3 DEF Transferred
<1>5. QED
  BY <1>1, <1>3, <1>4 DEF batch, Copying, Asked, AskedBy

\* A span that joins a call continues it in the buffer and in the file.
LEMMA NextMerged == SpansInv /\ [Next]_vars => MergedSpans'
<1> SUFFICES ASSUME SpansInv, [Next]_vars PROVE MergedSpans'
  OBVIOUS
<1>f. /\ spans' = spans /\ \A s : FileOf(s)' = FileOf(s)
      /\ \A s, n : Transferred(s, n)' = Transferred(s, n)
      /\ \A k : Asked(k)' = Asked(k)
      /\ \A ks : AskedBy(ks)' = AskedBy(ks)
  BY FilesFixed
<1>1. Len(spans) \in Nat /\ SpansType /\ MergedSpans
  BY LenProperties DEF SpansType, SpansInv
<1>2. CASE Begin
  <2>1. i' = i /\ j' = i + 1 /\ merged' = spans[i].bytes /\ i \in 1 .. Len(spans)
    BY <1>1, <1>2 DEF Begin, Running, SpansType
  <2>2. j' - 1 = i /\ i' .. j' - 1 = {i}
    BY <1>1, <2>1 DEF SpansType
  <2>3. Transferred(spans[i], merged') = Asked(i)
    BY <2>1 DEF Asked
  <2>4. AskedBy({i}) = Asked(i)
    BY AskedOnce
  <2>5. QED
    BY <1>f, <2>1, <2>2, <2>3, <2>4 DEF MergedSpans
<1>3. CASE Merge
  <2>1. /\ i' = i /\ j' = j + 1 /\ merged' = merged + spans[j].bytes
        /\ i < j /\ i \in 1 .. Len(spans) /\ j \in 1 .. Len(spans)
        /\ j - 1 \in 1 .. Len(spans) /\ Extends
    BY <1>1, <1>3 DEF Merge, Joins, Merging, SpansType
  <2>2. /\ spans[i].at + merged = spans[j - 1].at + spans[j - 1].bytes
        /\ spans[i].slot * SlotBytes + merged
             = spans[j - 1].slot * SlotBytes + spans[j - 1].bytes
        /\ FileOf(spans[j - 1]) = FileOf(spans[i])
        /\ Transferred(spans[i], merged) = AskedBy(i .. j - 1)
    BY <1>1, <2>1 DEF MergedSpans, Merging
  <2>3. /\ spans[j].slot = spans[j - 1].slot + 1 /\ spans[j - 1].bytes = SlotBytes
        /\ spans[j].at = spans[i].at + merged
        /\ FileOf(spans[j]) = FileOf(spans[i])
    BY <2>1 DEF Extends
  <2>4. /\ spans[i] \in Span /\ spans[j] \in Span /\ merged \in Nat
        /\ spans[i].at \in Nat /\ spans[j].bytes \in Nat /\ spans[j].at \in Nat
        /\ spans[i].slot * SlotBytes \in Nat /\ spans[j].slot * SlotBytes \in Nat
        /\ spans[j - 1].slot \in Nat
    BY <1>1, <2>1, SpanFacts DEF SpansType
  <2>5. spans[j].slot * SlotBytes = spans[i].slot * SlotBytes + merged
    <3>1. spans[j].slot * SlotBytes = spans[j - 1].slot * SlotBytes + SlotBytes
      BY <2>3, <2>4, NextRecord
    <3>2. QED
      BY <2>2, <2>3, <3>1
  <2>6. Transferred(spans[i], merged + spans[j].bytes)
          = Transferred(spans[i], merged) \cup Asked(j)
    <3>1. Asked(j) = Transferred(spans[j], spans[j].bytes)
      BY DEF Asked
    <3>2. QED
      BY <2>3, <2>4, <2>5, <3>1, TransfersJoin
  <2>7. AskedBy(i .. j)
          = AskedBy(i .. j - 1) \cup Asked(j)
    <3>1. i .. j = (i .. j - 1) \cup {j}
      BY <1>1, <2>1 DEF SpansType
    <3>2. AskedBy(i .. j)
            = AskedBy(i .. j - 1) \cup AskedBy({j})
      BY <3>1, AskedTogether
    <3>3. QED
      BY <3>2, AskedOnce
  <2>8. j' - 1 = j
    BY <1>1, <2>1 DEF SpansType
  <2>9. Transferred(spans[i], merged') = AskedBy(i .. j)
    BY <2>1, <2>2, <2>6, <2>7
  <2>10. /\ spans[i].at + merged' = spans[j].at + spans[j].bytes
         /\ spans[i].slot * SlotBytes + merged'
              = spans[j].slot * SlotBytes + spans[j].bytes
    <3>1. \A a, b, m, n \in Nat : b = a + m => a + (m + n) = b + n
      OBVIOUS
    <3>2. spans[i].at + (merged + spans[j].bytes) = spans[j].at + spans[j].bytes
      BY <2>3, <2>4, <3>1
    <3>3. spans[i].slot * SlotBytes + (merged + spans[j].bytes)
            = spans[j].slot * SlotBytes + spans[j].bytes
      BY <2>4, <2>5, <3>1
    <3>4. QED
      BY <2>1, <3>2, <3>3
  <2>11. QED
    BY <1>f, <2>1, <2>3, <2>8, <2>9, <2>10 DEF MergedSpans
<1>4. CASE Transfer \/ WriteOne
  <2>1. j' = i'
    BY <1>1, <1>4 DEF Transfer, WriteOne
  <2>2. QED
    BY <1>1, <1>4, <2>1 DEF Transfer, WriteOne, MergedSpans, Merging, SpansType
<1>5. CASE Throw \/ Finish \/ UNCHANGED vars
  <2>1. UNCHANGED <<i, j, merged>>
    BY <1>5 DEF Throw, Finish, vars
  <2>2. QED
    BY <1>1, <1>f, <2>1 DEF MergedSpans, Merging
<1>6. QED
  BY <1>2, <1>3, <1>4, <1>5 DEF Next

LEMMA NextMoved == SpansInv /\ [Next]_vars => EachSpanItsRecord'
<1> SUFFICES ASSUME SpansInv, [Next]_vars PROVE EachSpanItsRecord'
  OBVIOUS
<1>f. /\ spans' = spans /\ \A s : FileOf(s)' = FileOf(s)
      /\ \A s, n : Transferred(s, n)' = Transferred(s, n)
      /\ \A k : Asked(k)' = Asked(k)
      /\ \A ks : AskedBy(ks)' = AskedBy(ks)
  BY FilesFixed
<1>1. Len(spans) \in Nat /\ SpansType /\ MergedSpans /\ i \in Nat /\ j \in Nat
  BY LenProperties DEF SpansType, SpansInv
<1>2. moved = AskedBy(1 .. i - 1)
  BY DEF SpansInv, EachSpanItsRecord
<1>3. ASSUME UNCHANGED <<i, moved>> PROVE EachSpanItsRecord'
  BY <1>2, <1>3, <1>f DEF EachSpanItsRecord
<1>4. CASE Transfer
  <2>1. /\ i' = j /\ i < j /\ 1 <= i
        /\ moved' = moved \cup AskedBy(i .. j - 1)
    BY <1>1, <1>4 DEF Transfer, MergedSpans, Merging, SpansType
  <2>2. 1 .. j - 1 = (1 .. i - 1) \cup (i .. j - 1)
    BY <1>1, <2>1
  <2>3. AskedBy(1 .. j - 1)
          = AskedBy(1 .. i - 1) \cup AskedBy(i .. j - 1)
    BY <2>2, AskedTogether
  <2>4. QED
    <3>1. moved' = AskedBy(1 .. j - 1)
      BY <1>2, <2>1, <2>3
    <3>2. QED
      BY <1>f, <2>1, <3>1 DEF EachSpanItsRecord
<1>5. CASE WriteOne
  <2>1. i' = i + 1 /\ 1 <= i /\ moved' = moved \cup Asked(i)
    BY <1>1, <1>5 DEF WriteOne, Asked, SpansType
  <2>2. 1 .. i' - 1 = (1 .. i - 1) \cup {i}
    BY <1>1, <2>1
  <2>3. AskedBy(1 .. i' - 1)
          = AskedBy(1 .. i - 1) \cup Asked(i)
    <3>1. AskedBy(1 .. i' - 1)
            = AskedBy(1 .. i - 1) \cup AskedBy({i})
      BY <2>2, AskedTogether
    <3>2. QED
      BY <3>1, AskedOnce
  <2>4. QED
    <3>1. moved' = AskedBy(1 .. i' - 1)
      BY <1>2, <2>1, <2>3
    <3>2. QED
      BY <1>f, <3>1 DEF EachSpanItsRecord
<1>6. CASE Begin \/ Merge \/ Throw \/ Finish \/ UNCHANGED vars
  BY <1>3, <1>6 DEF Begin, Merge, Throw, Finish, vars
<1>7. QED
  BY <1>4, <1>5, <1>6 DEF Next

\* In a packed batch every span joins the call of the first.
LEMMA NextOneCall == SpansInv /\ [Next]_vars => OneCall'
<1> SUFFICES ASSUME SpansInv, [Next]_vars, Packed'
             PROVE  \/ i' = 1 /\ calls' = 0
                    \/ i' = Len(spans') + 1 /\ calls' = 1
  BY DEF OneCall
<1>1. /\ Len(spans) \in Nat /\ SpansType /\ MergedSpans /\ i \in Nat /\ j \in Nat
      /\ spans' = spans
  BY LenProperties, FilesFixed DEF SpansType, SpansInv
<1>2. Packed /\ ~Copying
  BY FilesFixed DEF Packed
<1>3. \/ i = 1 /\ calls = 0
      \/ i = Len(spans) + 1 /\ calls = 1
  BY <1>2 DEF SpansInv, OneCall
<1>4. CASE UNCHANGED <<i, calls>>
  BY <1>1, <1>3, <1>4
<1>5. CASE Transfer
  <2>1. /\ i = 1 /\ calls = 0 /\ i' = j /\ calls' = 1 /\ i < j
        /\ j <= Len(spans) + 1
    BY <1>1, <1>3, <1>5 DEF Transfer, Running, Merging, SpansType
  <2>2. ASSUME j <= Len(spans) PROVE FALSE
    <3>1. j \in DOMAIN spans /\ j - 1 \in DOMAIN spans /\ 1 \in DOMAIN spans
          /\ j \in 1 .. Len(spans) /\ j - 1 \in 1 .. Len(spans) /\ 1 \in 1 .. Len(spans)
      BY <1>1, <2>1, <2>2, LenProperties DEF SpansType
    <3>2. spans[1].at + merged = spans[j - 1].at + spans[j - 1].bytes
      BY <1>1, <2>1 DEF MergedSpans, Merging
    <3>3. /\ spans[j - 1].bytes = SlotBytes
          /\ spans[j].slot = spans[1].slot + j - 1
          /\ spans[j - 1].slot = spans[1].slot + (j - 1) - 1
          /\ spans[j].at = spans[1].at + (j - 1) * SlotBytes
          /\ spans[j - 1].at = spans[1].at + ((j - 1) - 1) * SlotBytes
          /\ FileOf(spans[j]) = FileOf(spans[1])
      BY <1>2, <3>1 DEF Packed
    <3>4. /\ spans[1].slot \in Nat /\ spans[1].at \in Nat /\ merged \in Nat
          /\ SlotBytes \in Nat
      BY <1>1, <3>1, SpanFacts, SpansAssumption DEF SpansType
    <3>5. spans[j].slot = spans[j - 1].slot + 1
      <4>1. \A a, b \in Nat : a + b - 1 = (a + (b - 1) - 1) + 1
        OBVIOUS
      <4>2. QED
        BY <1>1, <3>3, <3>4, <4>1
    <3>6. (j - 1) * SlotBytes = ((j - 1) - 1) * SlotBytes + SlotBytes
      <4>1. j - 2 \in Nat /\ (j - 2) + 1 = j - 1 /\ (j - 1) - 1 = j - 2
        BY <1>1, <2>1
      <4>2. ((j - 2) + 1) * SlotBytes = (j - 2) * SlotBytes + SlotBytes
        BY <4>1, NextRecord
      <4>3. QED
        BY <4>1, <4>2
    <3>7. ((j - 1) - 1) * SlotBytes \in Int
      BY <1>1, <3>4
    <3>8. spans[j].at = spans[1].at + merged
      BY <3>2, <3>3, <3>4, <3>6, <3>7
    <3>9. Extends
      BY <2>1, <3>3, <3>5, <3>8 DEF Extends
    <3>10. QED
      BY <1>5, <2>2, <3>9 DEF Transfer, Joins
  <2>3. QED
    BY <1>1, <2>1, <2>2
<1>6. CASE WriteOne
  BY <1>2, <1>6 DEF WriteOne
<1>7. CASE Begin \/ Merge \/ Throw \/ Finish \/ UNCHANGED vars
  BY <1>4, <1>7 DEF Begin, Merge, Throw, Finish, vars
<1>8. QED
  BY <1>5, <1>6, <1>7 DEF Next

\* The inductive invariant.
THEOREM SpansInvariant == Spec => []SpansInv
<1>1. SpansInv /\ [Next]_vars => SpansInv'
  BY NextSpansType, NextMerged, NextMoved, NextOneCall DEF SpansInv
<1>2. QED
  BY <1>1, InitSpans, PTL DEF Spec

\* Merging moves what the spans name: each span done is transferred between its
\* own address and its own record, in the file that record is in, and no other
\* byte is, whatever the order, the sizes and the overlay.
THEOREM SpansKeepTheirRecords == Spec => []EachSpanItsRecord
<1>1. SpansInv => EachSpanItsRecord
  BY DEF SpansInv
<1>2. QED
  BY <1>1, SpansInvariant, PTL

\* Merging loses nothing: a packed batch of full records in slot order, of any
\* length, is one system call.
THEOREM PackedBatchesAreOneCall == Spec => []PackedIsOneCall
<1>1. /\ Init => (status = "done" => i = Len(spans) + 1)
      /\ SpansType /\ (status = "done" => i = Len(spans) + 1) /\ [Next]_vars
           => (status = "done" => i = Len(spans) + 1)'
  <2>1. Init => (status = "done" => i = Len(spans) + 1)
    BY DEF Init
  <2>2. ASSUME SpansType, status = "done" => i = Len(spans) + 1, [Next]_vars,
               status' = "done"
        PROVE  i' = Len(spans)' + 1
    <3>1. Len(spans) \in Nat /\ spans' = spans
      BY <2>2, LenProperties, FilesFixed DEF SpansType
    <3>2. CASE Finish
      BY <2>2, <3>1, <3>2 DEF Finish, SpansType
    <3>3. CASE UNCHANGED vars
      BY <2>2, <3>3 DEF vars, batch
    <3>4. CASE Begin \/ Merge \/ Transfer \/ WriteOne \/ Throw
      BY <2>2, <3>4 DEF Begin, Merge, Transfer, WriteOne, Throw, Running
    <3>5. QED
      BY <2>2, <3>2, <3>3, <3>4 DEF Next
  <2>3. QED
    BY <2>1, <2>2
<1>2. SpansInv => SpansType
  BY DEF SpansInv
<1>3. SpansInv /\ (status = "done" => i = Len(spans) + 1) => PackedIsOneCall
  <2> SUFFICES ASSUME SpansInv, i = Len(spans) + 1, Packed PROVE calls = 1
    BY DEF PackedIsOneCall
  <2>1. Len(spans) \in Nat /\ Len(spans) > 0
    BY LenProperties DEF SpansInv, SpansType, Packed
  <2>2. QED
    BY <2>1 DEF SpansInv, OneCall
<1>4. QED
  BY <1>1, <1>2, <1>3, SpansInvariant, PTL DEF Spec
=============================================================================

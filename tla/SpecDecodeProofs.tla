-------------------------- MODULE SpecDecodeProofs --------------------------
(***************************************************************************)
(* Theorems about SpecDecode, for every number of planes, draft length,    *)
(* prompt and limit: whatever is drafted, and by whichever mechanism it is *)
(* undone, the memories follow the accepted history, the sampler follows   *)
(* the text, and the text is the target model's own.                       *)
(***************************************************************************)
EXTENDS SpecDecode, SequenceTheorems, WellFoundedInduction, TLAPS

Running == {"loop", "verify", "sample", "judge"}

\* What kvmem_spec_start fixed for the generation.
ConfigInv ==
    /\ mode \in AllModes /\ NRs \in Nat /\ prompt \in Nat \ {0} /\ eos \in Nat
    /\ pc \in Running \cup {"done", "abandoned", "failed"}

SeqsInv ==
    /\ hist \in Seq(Tokens) /\ draft \in Seq(Tokens) /\ attn \in Seq(Tokens)
    /\ dft \in Seq(Tokens) /\ recur \in Seq(Tokens) /\ record \in Seq(Tokens)
    /\ smpl \in Seq(Tokens) /\ saved \in Seq(Tokens) /\ ids \in Seq(Tokens)
    /\ text \in Seq(Tokens) /\ idLast \in Tokens /\ nPast \in Nat
    /\ ckpt \in [n : Nat, recur : Seq(Tokens)]

\* The emitted text is the target's own continuation of the prompt.
TextInv ==
    /\ Len(text) <= NPredict
    /\ \A i \in 1 .. Len(text) : text[i] = TokenAt(prompt - 1 + i) /\ text[i] # "e"

\* The history is the target's own too, idLast the next token of it, and
\* the two are as long as prompt and text say.
HistInv ==
    pc \in Running =>
      /\ \A i \in 1 .. Len(hist) : hist[i] = TokenAt(i - 1)
      /\ idLast = TokenAt(Len(hist))
      /\ Len(hist) = prompt - 1 + Len(text) + (IF idLast = "e" THEN 1 ELSE 0)

\* Where the memories stand before a verification, and behind it.
BeforeInv ==
    pc \in {"loop", "verify"} =>
      /\ nPast = Len(hist) /\ attn = hist /\ dft = hist /\ record = <<>>
      /\ Recurrent => recur = hist
      /\ idLast # "e" => smpl = text
BehindInv ==
    pc \in {"sample", "judge"} =>
      /\ nPast = Len(hist) + 1 /\ attn = hist \o Batch /\ dft = hist \o Batch
      /\ record = (IF mode = "replay" THEN Batch ELSE <<>>)
      /\ mode \in {"planes", "host"} => recur = hist \o Batch
      /\ mode = "replay" => recur = hist
      /\ pc = "sample" => smpl = text

\* A draft leaves room for the token behind it, and the checkpoint that may
\* have to undo it is of the present history.
DraftInv ==
    pc \in Running /\ (draft # <<>> \/ pc # "loop") =>
      /\ MayGoOn /\ Len(draft) + Len(text) + 1 <= NPredict
      /\ HostCkpt(draft) /\ draft # <<>> => ckpt = [n |-> Len(hist), recur |-> hist]

\* What a verification confirmed: the target's tokens, as far as the draft
\* agrees with them, and all the sampler has seen if it goes on.
JudgeInv ==
    pc = "judge" =>
      /\ Len(ids) \in 1 .. Len(draft) + 1 /\ saved = text
      /\ \A i \in 1 .. Len(ids) : ids[i] = TokenAt(Len(hist) + i)
      /\ \A i \in 1 .. Len(ids) - 1 : ids[i] = draft[i] /\ ids[i] # "e"
      /\ ids[Len(ids)] # "e" => smpl = text \o ids

DecodeInv ==
    /\ ConfigInv /\ SeqsInv /\ TextInv /\ HistInv /\ BeforeInv /\ BehindInv
    /\ DraftInv /\ JudgeInv

\* Rows before m are in the sums, rows m..n-1 in the accumulator.
MeansAt(m, n) ==
    /\ acc = OwnRows(m, n)
    /\ \A b \in DOMAIN sums : sums[b] = AcceptedRows(b, m)
MeansUpTo(n) == \E m \in 0 .. n : MeansAt(m, n)

\* Where the accepted rows are: those of the history between two
\* verifications, and behind one also the row that was decoded alone.
MeansInv ==
    /\ DOMAIN sums \subseteq Nat
    /\ pc \in {"loop", "verify"} => pending = <<>> /\ MeansUpTo(Len(hist))
    /\ pc \in {"sample", "judge"} /\ draft = <<>> =>
          pending = <<>> /\ MeansUpTo(Len(hist) + 1)
    /\ pc \in {"sample", "judge"} /\ draft # <<>> =>
          /\ pending = [i \in 1 .. Len(Batch) |-> <<Len(hist) + i - 1, Batch[i]>>]
          /\ MeansUpTo(Len(hist))
    /\ pc = "done" => nPast = Len(hist) /\ MeansAt(nPast, nPast)

-----------------------------------------------------------------------------
(* Sequences.                                                              *)

\* Every non-empty set of naturals has a least element (Min).
LEMMA MinOfNats ==
    ASSUME NEW S \in SUBSET Nat, S # {}
    PROVE  Min(S) \in S /\ \A x \in S : Min(S) <= x
<1>1. PICK m \in S : \A x \in S : <<x, m>> \notin OpToRel(<, Nat)
  BY NatLessThanWellFounded, WFMin, Zenon
<1>2. \A x \in S : ~ x < m
  BY <1>1, Zenon DEF OpToRel
<1>3. \A x \in S : m <= x
  BY <1>2
<1>4. QED
  BY <1>3 DEF Min

\* Keep(s, n) is the first n elements of s, or all of it.
LEMMA KeepFacts ==
    ASSUME NEW T, NEW s \in Seq(T), NEW n \in Nat
    PROVE  /\ Keep(s, n) \in Seq(T)
           /\ Len(Keep(s, n)) = IF n < Len(s) THEN n ELSE Len(s)
           /\ \A i \in 1 .. Len(Keep(s, n)) : Keep(s, n)[i] = s[i]
<1> DEFINE m == IF n < Len(s) THEN n ELSE Len(s)
<1>1. m \in Nat /\ m <= Len(s) /\ Len(s) \in Nat
  BY LenProperties
<1>2. \A i \in 1 .. m : s[i] \in T
  BY <1>1, ElementOfSeq
<1>3. /\ SubSeq(s, 1, m) \in Seq(T)
      /\ Len(SubSeq(s, 1, m)) = IF 1 <= m THEN m - 1 + 1 ELSE 0
      /\ \A i \in 1 .. m - 1 + 1 : SubSeq(s, 1, m)[i] = s[1 + i - 1]
  <2> HIDE DEF m
  <2>1. m \in Int /\ 1 \in Int
    BY <1>1
  <2>2. QED
    BY <2>1, <1>2, SubSeqProperties
<1>4. Keep(s, n) = SubSeq(s, 1, m)
  BY DEF Keep
<1> HIDE DEF m
<1>5. Len(SubSeq(s, 1, m)) = m
  BY <1>1, <1>3
<1>6. \A i \in 1 .. m : SubSeq(s, 1, m)[i] = s[i]
  BY <1>1, <1>3
<1>7. QED
  BY <1>3, <1>4, <1>5, <1>6 DEF m

\* Keeping all of a sequence, or more, keeps it.
LEMMA KeepAll ==
    ASSUME NEW T, NEW s \in Seq(T), NEW n \in Nat, n >= Len(s)
    PROVE  Keep(s, n) = s
<1>1. Len(s) \in Nat
  BY LenProperties
<1>2. Len(Keep(s, n)) = Len(s)
  BY <1>1, KeepFacts
<1>3. QED
  BY <1>2, KeepFacts, SeqEqual

\* What is appended behind n elements is what Keep(_, n) drops.
LEMMA KeepFirst ==
    ASSUME NEW T, NEW s \in Seq(T), NEW t \in Seq(T)
    PROVE  Keep(s \o t, Len(s)) = s
<1>1. /\ Len(s) \in Nat /\ Len(t) \in Nat
      /\ s \o t \in Seq(T) /\ Len(s \o t) = Len(s) + Len(t)
      /\ \A i \in 1 .. Len(s) : (s \o t)[i] = s[i]
  BY LenProperties, ConcatProperties
<1>2. /\ Keep(s \o t, Len(s)) \in Seq(T)
      /\ Len(Keep(s \o t, Len(s))) = IF Len(s) < Len(s \o t) THEN Len(s) ELSE Len(s \o t)
      /\ \A i \in 1 .. Len(Keep(s \o t, Len(s))) :
           Keep(s \o t, Len(s))[i] = (s \o t)[i]
  <2>1. s \o t \in Seq(T) /\ Len(s) \in Nat
    BY <1>1
  <2> HIDE <1>1
  <2>2. QED
    BY <2>1, KeepFacts
<1>3. Len(Keep(s \o t, Len(s))) = Len(s)
  BY <1>1, <1>2
<1>4. \A i \in 1 .. Len(s) : Keep(s \o t, Len(s))[i] = s[i]
  BY <1>1, <1>2, <1>3
<1>5. QED
  BY <1>2, <1>3, <1>4, SeqEqual

\* Keeping past the end of s keeps s and the first elements behind it.
LEMMA KeepBehind ==
    ASSUME NEW T, NEW s \in Seq(T), NEW t \in Seq(T), NEW n \in Nat
    PROVE  Keep(s \o t, Len(s) + n) = s \o Keep(t, n)
<1>1. /\ Len(s) \in Nat /\ Len(t) \in Nat
      /\ s \o t \in Seq(T) /\ Len(s \o t) = Len(s) + Len(t)
      /\ \A i \in 1 .. Len(s) + Len(t) :
           (s \o t)[i] = IF i <= Len(s) THEN s[i] ELSE t[i - Len(s)]
  BY LenProperties, ConcatProperties
<1>2. /\ Keep(t, n) \in Seq(T)
      /\ Len(Keep(t, n)) = IF n < Len(t) THEN n ELSE Len(t)
      /\ \A i \in 1 .. Len(Keep(t, n)) : Keep(t, n)[i] = t[i]
  BY KeepFacts
<1>3. /\ Keep(s \o t, Len(s) + n) \in Seq(T)
      /\ Len(Keep(s \o t, Len(s) + n)) = Len(s) + Len(Keep(t, n))
      /\ \A i \in 1 .. Len(s) + Len(Keep(t, n)) :
           Keep(s \o t, Len(s) + n)[i] = (s \o t)[i]
  <2>1. Len(s) + n \in Nat
    BY <1>1
  <2>2. (IF Len(s) + n < Len(s \o t) THEN Len(s) + n ELSE Len(s \o t))
          = Len(s) + Len(Keep(t, n))
    BY <1>1, <1>2
  <2>3. /\ Keep(s \o t, Len(s) + n) \in Seq(T)
        /\ Len(Keep(s \o t, Len(s) + n))
             = IF Len(s) + n < Len(s \o t) THEN Len(s) + n ELSE Len(s \o t)
        /\ \A i \in 1 .. Len(Keep(s \o t, Len(s) + n)) :
             Keep(s \o t, Len(s) + n)[i] = (s \o t)[i]
    <3>1. s \o t \in Seq(T)
      BY <1>1
    <3>2. QED
      BY <3>1, <2>1, KeepFacts
  <2>4. QED
    BY <2>2, <2>3
<1>4. /\ s \o Keep(t, n) \in Seq(T)
      /\ Len(s \o Keep(t, n)) = Len(s) + Len(Keep(t, n))
      /\ \A i \in 1 .. Len(s) + Len(Keep(t, n)) :
           (s \o Keep(t, n))[i] = IF i <= Len(s) THEN s[i] ELSE Keep(t, n)[i - Len(s)]
  BY <1>2, ConcatProperties
<1>5. \A i \in 1 .. Len(s) + Len(Keep(t, n)) :
         Keep(s \o t, Len(s) + n)[i] = (s \o Keep(t, n))[i]
  BY <1>1, <1>2, <1>3, <1>4
<1>6. QED
  BY <1>3, <1>4, <1>5, SeqEqual

\* The target's first n tokens.
LEMMA TruthFacts ==
    ASSUME NEW n \in Nat
    PROVE  /\ Truth(n) \in Seq(Tokens) /\ Len(Truth(n)) = n
           /\ \A i \in 1 .. n : Truth(n)[i] = TokenAt(i - 1)
<1>1. \A i \in 1 .. n : TokenAt(i - 1) \in Tokens
  BY DEF TokenAt, Tokens
<1>2. Truth(n) \in Seq(Tokens)
  BY <1>1 DEF Truth
<1>3. QED
  BY <1>2 DEF Truth

\* The least and the greatest of two integers.
LEMMA MinOfTwo ==
    ASSUME NEW a \in Int, NEW b \in Int
    PROVE  Min({a, b}) = IF a <= b THEN a ELSE b
<1>1. \A x \in {a, b} : (\A y \in {a, b} : x <= y) <=> x = (IF a <= b THEN a ELSE b)
  OBVIOUS
<1>2. (IF a <= b THEN a ELSE b) \in {a, b}
  OBVIOUS
<1>3. QED
  BY <1>1, <1>2 DEF Min

LEMMA MaxOfTwo ==
    ASSUME NEW a \in Int, NEW b \in Int
    PROVE  Max({a, b}) = IF a >= b THEN a ELSE b
<1>1. \A x \in {a, b} : (\A y \in {a, b} : x >= y) <=> x = (IF a >= b THEN a ELSE b)
  OBVIOUS
<1>2. (IF a >= b THEN a ELSE b) \in {a, b}
  OBVIOUS
<1>3. QED
  BY <1>1, <1>2 DEF Max

\* The room for a draft leaves one token to predict behind it.
LEMMA DraftRoomFacts ==
    ASSUME SeqsInv, MayGoOn
    PROVE  DraftRoom \in Nat /\ DraftRoom + Len(text) + 1 <= NPredict
<1> DEFINE left == Min({NCtx - nPast - 2, NPredict - Len(text) - 1})
           room == Max({0, left})
<1>1. Len(text) \in Nat /\ nPast \in Nat /\ NPredict \in Nat /\ NCtx \in Nat /\ NMax \in Nat
  BY SpecAssumption, LenProperties DEF SeqsInv
<1>2. Len(text) < NPredict
  BY DEF MayGoOn
<1>3. left \in Int /\ left <= NPredict - Len(text) - 1
  <2>1. NCtx - nPast - 2 \in Int /\ NPredict - Len(text) - 1 \in Int
    BY <1>1
  <2>2. QED
    BY <2>1, MinOfTwo
<1> HIDE DEF left
<1>4. room \in Nat /\ room <= NPredict - Len(text) - 1
  BY <1>1, <1>2, <1>3, MaxOfTwo
<1> HIDE DEF room
<1>5. DraftRoom = Min({NMax, room})
  BY DEF DraftRoom, room, left
<1>6. QED
  BY <1>1, <1>4, <1>5, MinOfTwo

\* The batch: the last token, and the draft behind it.
LEMMA BatchFacts ==
    ASSUME SeqsInv
    PROVE  /\ Batch \in Seq(Tokens) /\ Len(Batch) = Len(draft) + 1
           /\ Len(draft) \in Nat /\ Batch[1] = idLast
           /\ \A i \in 1 .. Len(draft) : Batch[i + 1] = draft[i]
<1>1. idLast \in Tokens /\ draft \in Seq(Tokens)
  BY DEF SeqsInv
<1>2. <<idLast>> \in Seq(Tokens) /\ Len(<<idLast>>) = 1 /\ <<idLast>>[1] = idLast
  BY <1>1
<1>3. Len(draft) \in Nat
  BY <1>1, LenProperties
<1>4. /\ <<idLast>> \o draft \in Seq(Tokens)
      /\ Len(<<idLast>> \o draft) = Len(<<idLast>>) + Len(draft)
      /\ \A i \in 1 .. Len(<<idLast>>) + Len(draft) : (<<idLast>> \o draft)[i] =
             IF i <= Len(<<idLast>>) THEN <<idLast>>[i] ELSE draft[i - Len(<<idLast>>)]
  BY <1>1, <1>2, ConcatProperties
<1>5. QED
  BY <1>2, <1>3, <1>4 DEF Batch

-----------------------------------------------------------------------------
(* The actions, one after the other.                                       *)

LEMMA InitDecode == Init => DecodeInv
<1> SUFFICES ASSUME Init PROVE DecodeInv
  OBVIOUS
<1>1. /\ mode \in AllModes /\ NRs \in Nat /\ prompt \in Nat \ {0} /\ prompt - 1 \in Nat
      /\ eos \in Nat /\ prompt <= eos
  <2>1. /\ mode \in Modes /\ prompt \in Prompts /\ eos \in prompt .. prompt + NPredict
        /\ IF mode = "planes" THEN NRs \in Planes ELSE NRs = 0
    BY DEF Init
  <2>2. mode \in AllModes /\ NRs \in Nat /\ prompt \in Nat \ {0} /\ NPredict \in Nat
    <3>1. /\ Modes \subseteq AllModes /\ Planes \subseteq Nat /\ Prompts \subseteq Nat \ {0}
          /\ NPredict \in Nat \ {0}
      BY SpecAssumption
    <3>2. NRs \in Nat
      <4>1. CASE mode = "planes"
        BY <2>1, <3>1, <4>1
      <4>2. CASE mode # "planes"
        BY <2>1, <4>2
      <4>3. QED
        BY <4>1, <4>2
    <3>3. QED
      BY <2>1, <3>1, <3>2
  <2>3. prompt - 1 \in Nat /\ eos \in Nat /\ prompt <= eos
    BY <2>1, <2>2
  <2>4. QED
    BY <2>2, <2>3
<1>2. /\ hist \in Seq(Tokens) /\ Len(hist) = prompt - 1
      /\ \A i \in 1 .. prompt - 1 : hist[i] = TokenAt(i - 1)
  <2>1. hist = Truth(prompt - 1)
    BY DEF Init
  <2>2. QED
    BY <1>1, <2>1, TruthFacts
<1>3. idLast = "t" /\ idLast = TokenAt(prompt - 1)
  BY <1>1 DEF Init, TokenAt
<1>4. <<>> \in Seq(Tokens) /\ Len(<<>>) = 0
  OBVIOUS
<1>5. ConfigInv
  BY <1>1 DEF Init, ConfigInv, Running
<1>6. SeqsInv
  BY <1>1, <1>2, <1>3, <1>4 DEF Init, SeqsInv, Tokens
<1>7. TextInv
  BY <1>4, SpecAssumption DEF Init, TextInv
<1>8. HistInv
  BY <1>1, <1>2, <1>3, <1>4 DEF Init, HistInv
<1>9. BeforeInv
  BY <1>2 DEF Init, BeforeInv
<1>10. BehindInv /\ DraftInv /\ JudgeInv
  BY DEF Init, BehindInv, DraftInv, JudgeInv
<1>11. QED
  BY <1>5, <1>6, <1>7, <1>8, <1>9, <1>10 DEF DecodeInv

\* Between a draft and its verification only the draft and its checkpoint
\* are new; the draft model's rows are cut to the history.
LEMMA ProposeDecode ==
    ASSUME DecodeInv, Propose PROVE DecodeInv'
<1> USE DEF DecodeInv
<1> DEFINE drafted(n, wrong) ==
             [i \in 1 .. n |-> IF i \in wrong THEN "x" ELSE TokenAt(nPast + i)]
<1>1. PICK n \in 0 .. DraftRoom : \E wrong \in SUBSET (1 .. n) :
         draft' = drafted(n, wrong) /\ ckpt' = DraftCkpt(drafted(n, wrong))
  BY DEF Propose
<1>0. PICK wrong \in SUBSET (1 .. n) :
         draft' = drafted(n, wrong) /\ ckpt' = DraftCkpt(drafted(n, wrong))
  BY <1>1
<1>2. n \in Nat /\ n + Len(text) + 1 <= NPredict
  <2>1. DraftRoom \in Nat /\ DraftRoom + Len(text) + 1 <= NPredict
    BY DraftRoomFacts DEF Propose
  <2>2. Len(text) \in Nat /\ NPredict \in Nat
    BY SpecAssumption, LenProperties DEF SeqsInv
  <2>3. QED
    BY <2>1, <2>2
<1>3. draft' \in Seq(Tokens) /\ Len(draft') = n
  <2>1. \A i \in 1 .. n : (IF i \in wrong THEN "x" ELSE TokenAt(nPast + i)) \in Tokens
    BY DEF TokenAt, Tokens
  <2>2. QED
    BY <1>0, <1>2, <2>1
<1>4. /\ ckpt' = [n |-> Len(hist), recur |-> IF HostCkpt(draft') /\ draft' # <<>>
                                             THEN recur ELSE <<>>]
  BY <1>0 DEF DraftCkpt
<1>5. /\ pc = "loop" /\ MayGoOn /\ pc' = "verify" /\ dft' = Keep(dft, Len(hist))
      /\ UNCHANGED <<mode, NRs, prompt, eos, hist, idLast, nPast, attn, recur, record,
                     smpl, saved, ids, text>>
  BY DEF Propose, sampler
<1>6. nPast = Len(hist) /\ attn = hist /\ dft = hist /\ record = <<>> /\ smpl = text
      /\ (Recurrent => recur = hist)
  BY <1>5 DEF BeforeInv, MayGoOn
<1>7. dft' = hist
  BY <1>5, <1>6, KeepAll, LenProperties DEF SeqsInv
<1>8. ConfigInv'
  BY <1>5 DEF ConfigInv, Running
<1>9. SeqsInv'
  <2>1. ckpt' \in [n : Nat, recur : Seq(Tokens)]
    <3>1. Len(hist) \in Nat /\ recur \in Seq(Tokens) /\ <<>> \in Seq(Tokens)
      BY LenProperties DEF SeqsInv
    <3>2. QED
      BY <3>1, <1>4
  <2>2. QED
    BY <1>3, <1>5, <1>7, <2>1 DEF SeqsInv
<1>10. TextInv'
  BY <1>5 DEF TextInv, TokenAt
<1>11. HistInv'
  BY <1>5 DEF HistInv, TokenAt, Running
<1>12. BeforeInv'
  BY <1>5, <1>6, <1>7 DEF BeforeInv, Recurrent
<1>13. BehindInv' /\ JudgeInv'
  BY <1>5 DEF BehindInv, JudgeInv
<1>14. DraftInv'
  <2>1. HostCkpt(draft') => Recurrent
    BY DEF HostCkpt, Recurrent
  <2>2. HostCkpt(draft)' => HostCkpt(draft')
    BY <1>5 DEF HostCkpt
  <2>3. HostCkpt(draft)' /\ draft' # <<>> => ckpt' = [n |-> Len(hist), recur |-> hist]
    BY <1>4, <1>6, <2>1, <2>2
  <2>4. MayGoOn'
    BY <1>5 DEF MayGoOn
  <2>5. QED
    BY <1>2, <1>3, <1>5, <2>3, <2>4 DEF DraftInv
<1>15. QED
  BY <1>8, <1>9, <1>10, <1>11, <1>12, <1>13, <1>14

LEMMA RetryDecode ==
    ASSUME DecodeInv, Retry PROVE DecodeInv'
<1> USE DEF DecodeInv
<1>1. /\ pc = "loop" /\ draft # <<>> /\ pc' = "verify" /\ MayGoOn
      /\ UNCHANGED <<mode, NRs, prompt, eos, hist, idLast, nPast, draft, ckpt, attn, dft,
                     recur, record, smpl, saved, ids, text>>
  BY DEF Retry, sampler, rows
<1>2. ConfigInv'
  BY <1>1 DEF ConfigInv, Running
<1>3. SeqsInv'
  BY <1>1 DEF SeqsInv
<1>4. TextInv' /\ HistInv'
  BY <1>1 DEF TextInv, HistInv, TokenAt, Running
<1>5. BeforeInv'
  BY <1>1 DEF BeforeInv, Recurrent
<1>6. BehindInv' /\ JudgeInv'
  BY <1>1 DEF BehindInv, JudgeInv
<1>7. DraftInv'
  BY <1>1 DEF DraftInv, MayGoOn, HostCkpt, Running
<1>8. QED
  BY <1>2, <1>3, <1>4, <1>5, <1>6, <1>7

\* A verification appends the batch to every memory that follows it.
LEMMA VerifyDecode ==
    ASSUME DecodeInv, Verify PROVE DecodeInv'
<1> USE DEF DecodeInv
<1>1. /\ pc = "verify" /\ pc' = "sample" /\ nPast' = nPast + 1
      /\ attn' = attn \o Batch /\ dft' = Keep(dft, nPast) \o Batch
      /\ recur' = (IF mode \in {"planes", "host"} THEN recur \o Batch ELSE recur)
      /\ record' = (IF mode = "replay" THEN Batch ELSE <<>>)
      /\ UNCHANGED <<mode, NRs, prompt, eos, hist, idLast, draft, ckpt, smpl, saved, ids, text>>
  BY DEF Verify, Decoded, sampler
<1>2. /\ nPast = Len(hist) /\ attn = hist /\ dft = hist /\ Len(hist) \in Nat
      /\ (Recurrent => recur = hist) /\ (idLast # "e" => smpl = text)
  BY <1>1, LenProperties DEF BeforeInv, SeqsInv
<1>3. MayGoOn
  BY <1>1 DEF DraftInv, Running
<1>4. Keep(dft, nPast) = hist
  BY <1>2, KeepAll DEF SeqsInv
<1>5. Batch \in Seq(Tokens) /\ Batch' = Batch
  BY <1>1, BatchFacts DEF Batch
<1>6. hist \o Batch \in Seq(Tokens) /\ recur \o Batch \in Seq(Tokens)
  BY <1>5, ConcatProperties DEF SeqsInv
<1>7. ConfigInv'
  BY <1>1 DEF ConfigInv, Running
<1>8. SeqsInv'
  <2>1. nPast' \in Nat
    BY <1>1, <1>2
  <2>2. recur' \in Seq(Tokens) /\ record' \in Seq(Tokens)
    BY <1>1, <1>5, <1>6 DEF SeqsInv
  <2>3. attn' \in Seq(Tokens) /\ dft' \in Seq(Tokens)
    BY <1>1, <1>2, <1>4, <1>6
  <2>4. QED
    BY <1>1, <2>1, <2>2, <2>3 DEF SeqsInv
<1>9. TextInv' /\ HistInv'
  BY <1>1 DEF TextInv, HistInv, TokenAt, Running
<1>10. BeforeInv' /\ JudgeInv'
  BY <1>1 DEF BeforeInv, JudgeInv
<1>11. BehindInv'
  <2>1. mode \in {"planes", "host"} => recur' = hist \o Batch
    BY <1>1, <1>2 DEF Recurrent
  <2>2. mode = "replay" => recur' = hist
    BY <1>1, <1>2 DEF Recurrent
  <2>3. attn' = hist \o Batch /\ dft' = hist \o Batch
    BY <1>1, <1>2, <1>4
  <2>4. smpl = text
    BY <1>2, <1>3 DEF MayGoOn
  <2>5. QED
    BY <1>1, <1>2, <1>5, <2>1, <2>2, <2>3, <2>4 DEF BehindInv
<1>12. DraftInv'
  BY <1>1 DEF DraftInv, MayGoOn, HostCkpt, Running
<1>13. QED
  BY <1>7, <1>8, <1>9, <1>10, <1>11, <1>12

\* Where the batch agrees with the target up to row i, row i is Good.
LEMMA GoodRow ==
    ASSUME DecodeInv, pc = "sample", NEW i \in 1 .. Len(Batch),
           \A j \in 1 .. i : Batch[j] = TokenAt(Len(hist) + j - 1)
    PROVE  Good(i) /\ Choice(i) = TokenAt(Len(hist) + i)
<1> USE DEF DecodeInv
<1> DEFINE k == Len(hist)
<1>1. /\ hist \in Seq(Tokens) /\ k \in Nat /\ Batch \in Seq(Tokens) /\ Len(Batch) \in Nat
      /\ i \in Nat /\ 1 <= i /\ i <= Len(Batch) /\ k + i \in Nat
  BY BatchFacts, LenProperties DEF SeqsInv
<1>2. First = k
  BY <1>1 DEF First, BehindInv
<1>3. Keep(hist \o Batch, k + i) = Truth(k + i)
  <2>1. Keep(hist \o Batch, k + i) = hist \o Keep(Batch, i)
    BY <1>1, KeepBehind
  <2>2. /\ Keep(Batch, i) \in Seq(Tokens) /\ Len(Keep(Batch, i)) = i
        /\ \A j \in 1 .. i : Keep(Batch, i)[j] = Batch[j]
    BY <1>1, KeepFacts
  <2>3. /\ hist \o Keep(Batch, i) \in Seq(Tokens)
        /\ Len(hist \o Keep(Batch, i)) = k + i
        /\ \A j \in 1 .. k + i : (hist \o Keep(Batch, i))[j]
                = IF j <= k THEN hist[j] ELSE Keep(Batch, i)[j - k]
    <3> DEFINE kept == Keep(Batch, i)
    <3>1. kept \in Seq(Tokens) /\ Len(kept) = i
      BY <2>2
    <3> HIDE DEF kept
    <3>2. /\ hist \o kept \in Seq(Tokens) /\ Len(hist \o kept) = Len(hist) + Len(kept)
          /\ \A j \in 1 .. Len(hist) + Len(kept) :
               (hist \o kept)[j] = IF j <= Len(hist) THEN hist[j] ELSE kept[j - Len(hist)]
      BY <1>1, <3>1, ConcatProperties
    <3>3. QED
      BY <3>1, <3>2 DEF kept
  <2>4. /\ Truth(k + i) \in Seq(Tokens) /\ Len(Truth(k + i)) = k + i
        /\ \A j \in 1 .. k + i : Truth(k + i)[j] = TokenAt(j - 1)
    BY <1>1, TruthFacts
  <2>5. ASSUME NEW j \in 1 .. k + i
        PROVE  (hist \o Keep(Batch, i))[j] = TokenAt(j - 1)
    <3>1. CASE j <= k
      BY <1>1, <2>3, <3>1 DEF HistInv, Running
    <3>2. CASE ~ j <= k
      <4>1. j - k \in 1 .. i /\ k + (j - k) - 1 = j - 1
        BY <1>1, <3>2
      <4>2. Batch[j - k] = TokenAt(k + (j - k) - 1)
        BY <4>1
      <4>3. QED
        BY <2>2, <2>3, <3>2, <4>1, <4>2
    <3>3. QED
      BY <3>1, <3>2
  <2>6. hist \o Keep(Batch, i) = Truth(k + i)
    <3> HIDE DEF k
    <3>1. QED
      BY <2>3, <2>4, <2>5, SeqEqual
  <2>7. QED
    BY <2>1, <2>6
<1>4. /\ attn = hist \o Batch
      /\ Recurrent => (IF mode = "replay" THEN recur \o record ELSE recur) = hist \o Batch
  BY DEF BehindInv, Recurrent, ConfigInv, AllModes
<1>5. Good(i)
  BY <1>2, <1>3, <1>4 DEF Good
<1>6. QED
  BY <1>2, <1>5 DEF Choice

\* The tokens the sampler draws: the target's own, as far as the draft
\* agrees with them and one further (common_sampler_sample_and_accept_n).
LEMMA SampledFacts ==
    ASSUME DecodeInv, pc = "sample"
    PROVE  /\ Sampled \in Seq(Tokens) /\ Len(Sampled) \in 1 .. Len(draft) + 1
           /\ \A i \in 1 .. Len(Sampled) : Sampled[i] = TokenAt(Len(hist) + i)
           /\ \A i \in 1 .. Len(Sampled) - 1 : Sampled[i] = draft[i]
<1> USE DEF DecodeInv
<1> DEFINE k == Len(hist)
           stops == {i \in 1 .. Len(Batch) : i = Len(Batch) \/ Choice(i) # draft[i]}
           last == Min(stops)
<1>1. /\ k \in Nat /\ Len(draft) \in Nat /\ Len(Batch) = Len(draft) + 1
      /\ Batch[1] = idLast /\ idLast = TokenAt(k)
      /\ \A i \in 1 .. Len(draft) : Batch[i + 1] = draft[i]
  BY BatchFacts, LenProperties DEF SeqsInv, HistInv, Running
<1>2. last \in stops /\ \A i \in stops : last <= i
  <2>1. stops \in SUBSET Nat /\ Len(Batch) \in stops
    BY <1>1
  <2> HIDE DEF stops
  <2>2. QED
    BY <2>1, MinOfNats
<1>3. last \in 1 .. Len(draft) + 1
  BY <1>1, <1>2
<1>4. \A i \in 1 .. last - 1 : i \in 1 .. Len(draft) /\ Choice(i) = draft[i]
  <2> HIDE DEF last
  <2>1. QED
    BY <1>1, <1>2, <1>3
<1>5. Sampled = [i \in 1 .. last |-> Choice(i)]
  BY DEF Sampled
<1> HIDE DEF last
<1>6. \A j \in 1 .. last : Batch[j] = TokenAt(k + j - 1)
  <2> DEFINE bad == {j \in 1 .. last : Batch[j] # TokenAt(k + j - 1)}
  <2>1. SUFFICES ASSUME bad # {} PROVE FALSE
    OBVIOUS
  <2>2. PICK j \in bad : \A i \in bad : j <= i
    <3>1. bad \in SUBSET Nat
      BY <1>3
    <3> HIDE DEF bad
    <3>2. QED
      BY <2>1, <3>1, MinOfNats
  <2>3. j \in 1 .. last /\ Batch[j] # TokenAt(k + j - 1)
    BY <2>2
  <2>4. \A i \in 1 .. j - 1 : Batch[i] = TokenAt(k + i - 1)
    BY <1>3, <2>2, <2>3
  <2>5. j # 1
    BY <1>1, <2>3
  <2>6. /\ j - 1 \in 1 .. last - 1 /\ j - 1 \in 1 .. Len(Batch)
        /\ (j - 1) + 1 = j /\ k + (j - 1) = k + j - 1
    BY <1>1, <1>3, <2>3, <2>5
  <2>7. Choice(j - 1) = TokenAt(k + (j - 1))
    BY <2>4, <2>6, GoodRow
  <2>8. Choice(j - 1) = draft[j - 1] /\ Batch[(j - 1) + 1] = draft[j - 1]
    BY <1>1, <1>4, <2>6
  <2>9. QED
    BY <2>3, <2>6, <2>7, <2>8
<1>7. \A i \in 1 .. last : Choice(i) = TokenAt(k + i)
  <2>1. ASSUME NEW i \in 1 .. last PROVE Choice(i) = TokenAt(k + i)
    <3>1. i \in 1 .. Len(Batch) /\ \A j \in 1 .. i : Batch[j] = TokenAt(k + j - 1)
      BY <1>1, <1>3, <1>6
    <3>2. QED
      BY <3>1, GoodRow
  <2>2. QED
    BY <2>1
<1>8. \A i \in 1 .. last : Choice(i) \in Tokens
  BY <1>7 DEF TokenAt, Tokens
<1>9. Sampled \in Seq(Tokens) /\ Len(Sampled) = last
  BY <1>3, <1>5, <1>8
<1>10. \A i \in 1 .. last : Sampled[i] = Choice(i)
  BY <1>5
<1>11. \A i \in 1 .. last - 1 : i \in 1 .. last
  BY <1>3
<1>12. QED
  BY <1>3, <1>4, <1>7, <1>9, <1>10, <1>11

\* ids is what was sampled, up to an end token.
LEMMA IdsFacts ==
    ASSUME DecodeInv, pc = "sample"
    PROVE  /\ Ids \in Seq(Tokens) /\ Len(Ids) \in 1 .. Len(Sampled)
           /\ \A i \in 1 .. Len(Ids) : Ids[i] = Sampled[i]
           /\ \A i \in 1 .. Len(Ids) - 1 : Sampled[i] # "e"
           /\ Ids[Len(Ids)] # "e" => Ids = Sampled
<1> DEFINE n == Min({Len(Sampled), NPredict - Len(text)})
           ends == {i \in 1 .. n : Sampled[i] = "e"}
           m == IF ends = {} THEN n ELSE Min(ends)
<1>1. /\ Sampled \in Seq(Tokens) /\ Len(Sampled) \in Nat /\ 1 <= Len(Sampled)
      /\ Len(Sampled) <= Len(draft) + 1 /\ Len(draft) \in Nat
  BY SampledFacts, LenProperties DEF DecodeInv, SeqsInv
<1>2. Len(text) \in Nat /\ NPredict \in Nat /\ Len(draft) + Len(text) + 1 <= NPredict
  BY SpecAssumption, LenProperties DEF DecodeInv, SeqsInv, DraftInv, Running
<1>3. n = Len(Sampled)
  <2>1. NPredict - Len(text) \in Int /\ Len(Sampled) <= NPredict - Len(text)
    BY <1>1, <1>2
  <2>2. QED
    BY <1>1, <2>1, MinOfTwo
<1> HIDE DEF n
<1>4. ends # {} => Min(ends) \in ends /\ \A i \in ends : Min(ends) <= i
  <2>1. ends \in SUBSET Nat
    BY <1>1, <1>3
  <2> HIDE DEF ends
  <2>2. QED
    BY <2>1, MinOfNats
<1>5. m \in 1 .. Len(Sampled) /\ \A i \in 1 .. m - 1 : Sampled[i] # "e"
  <2>1. CASE ends = {}
    BY <1>1, <1>3, <2>1
  <2>2. CASE ends # {}
    <3>1. m = Min(ends) /\ m \in 1 .. Len(Sampled) /\ m \in Nat
      BY <1>1, <1>3, <1>4, <2>2
    <3>2. ASSUME NEW i \in 1 .. m - 1, Sampled[i] = "e" PROVE FALSE
      <4>1. i \in ends
        BY <1>1, <1>3, <3>1, <3>2
      <4>2. m <= i
        BY <1>4, <2>2, <3>1, <4>1
      <4>3. QED
        BY <3>1, <4>2
    <3>3. QED
      BY <3>1, <3>2
  <2>3. QED
    BY <2>1, <2>2
<1>6. Sampled[m] # "e" => m = Len(Sampled)
  BY <1>3, <1>4
<1>7. Ids = Keep(Sampled, m)
  BY DEF Ids, n
<1> HIDE DEF m
<1>8. /\ Keep(Sampled, m) \in Seq(Tokens) /\ Len(Keep(Sampled, m)) = m
      /\ \A i \in 1 .. m : Keep(Sampled, m)[i] = Sampled[i]
  BY <1>1, <1>5, KeepFacts
<1>9. m = Len(Sampled) => Keep(Sampled, m) = Sampled
  BY <1>1, KeepAll
<1>10. QED
  BY <1>5, <1>6, <1>7, <1>8, <1>9

LEMMA SampleDecode ==
    ASSUME DecodeInv, Sample PROVE DecodeInv'
<1> USE DEF DecodeInv
<1>1. /\ pc = "sample" /\ pc' = "judge" /\ saved' = smpl /\ smpl' = smpl \o Sampled
      /\ ids' = Ids
      /\ UNCHANGED <<mode, NRs, prompt, eos, hist, idLast, nPast, draft, ckpt, attn, dft,
                     recur, record, text>>
  BY DEF Sample, rows
<1>2. /\ Ids \in Seq(Tokens) /\ Len(Ids) \in 1 .. Len(Sampled)
      /\ \A i \in 1 .. Len(Ids) : Ids[i] = Sampled[i]
      /\ \A i \in 1 .. Len(Ids) - 1 : Sampled[i] # "e"
      /\ Ids[Len(Ids)] # "e" => Ids = Sampled
  BY <1>1, IdsFacts
<1>3. /\ Sampled \in Seq(Tokens) /\ Len(Sampled) \in 1 .. Len(draft) + 1
      /\ \A i \in 1 .. Len(Sampled) : Sampled[i] = TokenAt(Len(hist) + i)
      /\ \A i \in 1 .. Len(Sampled) - 1 : Sampled[i] = draft[i]
  BY <1>1, SampledFacts
<1>4. smpl = text
  BY <1>1 DEF BehindInv
<1>5. ConfigInv'
  BY <1>1 DEF ConfigInv, Running
<1>6. SeqsInv'
  <2>1. smpl \o Sampled \in Seq(Tokens)
    BY <1>3, ConcatProperties DEF SeqsInv
  <2>2. QED
    BY <1>1, <1>2, <2>1 DEF SeqsInv
<1>7. TextInv' /\ HistInv'
  BY <1>1 DEF TextInv, HistInv, TokenAt, Running
<1>8. BeforeInv'
  BY <1>1 DEF BeforeInv
<1>9. BehindInv'
  BY <1>1 DEF BehindInv, Batch
<1>10. DraftInv'
  BY <1>1 DEF DraftInv, MayGoOn, HostCkpt, Running
<1>11. JudgeInv'
  <2>1. Len(draft) \in Nat /\ Len(Ids) \in Nat /\ Len(Sampled) \in Nat
    BY <1>2, <1>3, LenProperties DEF SeqsInv
  <2>2. Len(Ids) \in 1 .. Len(draft) + 1
    BY <1>2, <1>3, <2>1
  <2>3. \A i \in 1 .. Len(Ids) : Ids[i] = TokenAt(Len(hist) + i)
    BY <1>2, <1>3, <2>1
  <2>4. ASSUME NEW i \in 1 .. Len(Ids) - 1 PROVE Ids[i] = draft[i] /\ Ids[i] # "e"
    <3>1. i \in 1 .. Len(Ids) /\ i \in 1 .. Len(Sampled) - 1
      BY <1>2, <2>1
    <3>2. QED
      BY <1>2, <1>3, <3>1
  <2>5. Ids[Len(Ids)] # "e" => smpl' = text \o Ids
    BY <1>1, <1>2, <1>4
  <2>6. QED
    BY <1>1, <1>4, <2>2, <2>3, <2>4, <2>5 DEF JudgeInv, TokenAt
<1>12. QED
  BY <1>5, <1>6, <1>7, <1>8, <1>9, <1>10, <1>11

\* A restore puts every memory back to the history the draft was made for,
\* and the confirmed tokens become the draft.
LEMMA RestoreDecode ==
    ASSUME DecodeInv, Restore PROVE DecodeInv'
<1> USE DEF DecodeInv
<1>1. /\ pc = "judge" /\ pc' = "loop" /\ HostCkpt(draft) /\ Len(ids) - 1 < Len(draft)
      /\ draft' = ids /\ recur' = ckpt.recur /\ smpl' = saved
      /\ saved' = <<>> /\ ids' = <<>>
      /\ attn' = Keep(attn, ckpt.n) /\ dft' = Keep(dft, ckpt.n)
      /\ hist' = Keep(hist, ckpt.n) /\ nPast' = ckpt.n
      /\ UNCHANGED <<mode, NRs, prompt, eos, idLast, ckpt, record, text>>
  BY DEF Restore, Restores, RestoredRecur, RestoredSmpl
<1>2. /\ Len(ids) \in Nat /\ Len(draft) \in Nat /\ 1 <= Len(ids) /\ Len(ids) <= Len(draft)
      /\ Len(hist) \in Nat /\ Len(text) \in Nat
  BY <1>1, LenProperties DEF SeqsInv, JudgeInv
<1>3. draft # <<>> /\ ids # <<>>
  BY <1>2
<1>4. ckpt.n = Len(hist) /\ ckpt.recur = hist
  BY <1>1, <1>3 DEF DraftInv, Running
<1>5. mode \in {"host", "planes"} /\ Recurrent
  BY <1>1 DEF HostCkpt, Recurrent
<1>6. attn = hist \o Batch /\ dft = hist \o Batch /\ record = <<>> /\ saved = text
  BY <1>1, <1>5 DEF BehindInv, JudgeInv
<1>7. Batch \in Seq(Tokens) /\ hist \in Seq(Tokens)
  BY BatchFacts DEF SeqsInv
<1>8. attn' = hist /\ dft' = hist /\ hist' = hist
  <2>1. Keep(hist \o Batch, Len(hist)) = hist
    BY <1>7, KeepFirst
  <2>2. Keep(hist, Len(hist)) = hist
    BY <1>2, <1>7, KeepAll
  <2>3. QED
    BY <1>1, <1>4, <1>6, <2>1, <2>2
<1>9. ConfigInv'
  BY <1>1 DEF ConfigInv, Running
<1>10. SeqsInv'
  <2>1. <<>> \in Seq(Tokens) /\ nPast' \in Nat
    BY <1>1, <1>2, <1>4
  <2>2. recur' \in Seq(Tokens) /\ smpl' \in Seq(Tokens)
    BY <1>1, <1>4, <1>7 DEF SeqsInv
  <2>3. QED
    BY <1>1, <1>7, <1>8, <2>1, <2>2 DEF SeqsInv
<1>11. TextInv'
  BY <1>1 DEF TextInv, TokenAt
<1>12. HistInv'
  BY <1>1, <1>8 DEF HistInv, TokenAt, Running
<1>13. BeforeInv'
  BY <1>1, <1>4, <1>6, <1>8 DEF BeforeInv
<1>14. BehindInv' /\ JudgeInv'
  BY <1>1 DEF BehindInv, JudgeInv
<1>15. DraftInv'
  <2>1. MayGoOn /\ Len(draft) + Len(text) + 1 <= NPredict
    BY <1>1, <1>3 DEF DraftInv, Running
  <2>2. MayGoOn'
    BY <1>1, <2>1 DEF MayGoOn
  <2>3. Len(ids) + Len(text) + 1 <= NPredict
    BY <1>2, <2>1, SpecAssumption
  <2>4. ckpt' = [n |-> Len(hist), recur |-> hist]
    BY <1>1, <1>3 DEF DraftInv, Running
  <2>5. QED
    BY <1>1, <1>8, <2>2, <2>3, <2>4 DEF DraftInv
<1>16. QED
  BY <1>9, <1>10, <1>11, <1>12, <1>13, <1>14, <1>15

\* The history an accepted verification leaves: what was confirmed of the
\* batch, whichever way the rest of it is removed.
LEMMA AcceptedRowsKept ==
    ASSUME DecodeInv, pc = "judge"
    PROVE  /\ NewPast = Len(hist) + Len(ids) /\ NewPast \in Nat
           /\ Len(ids) \in Nat /\ Len(ids) \in 1 .. Len(Batch)
           /\ hist \o <<idLast>> \o Keep(ids, Len(ids) - 1) = hist \o Keep(Batch, Len(ids))
           /\ hist \o Keep(Batch, Len(ids)) \in Seq(Tokens)
           /\ Len(hist \o Keep(Batch, Len(ids))) = NewPast
           /\ Keep(hist \o Batch, NewPast) = hist \o Keep(Batch, Len(ids))
           /\ \A i \in 1 .. NewPast :
                (hist \o Keep(Batch, Len(ids)))[i] = TokenAt(i - 1)
<1> USE DEF DecodeInv
<1> DEFINE k == Len(hist)
           n == Len(ids)
           kept == Keep(Batch, n)
<1>1. /\ k \in Nat /\ n \in Nat /\ Len(draft) \in Nat /\ Len(Batch) = Len(draft) + 1
      /\ hist \in Seq(Tokens) /\ ids \in Seq(Tokens) /\ Batch \in Seq(Tokens)
      /\ Batch[1] = idLast /\ (\A i \in 1 .. Len(draft) : Batch[i + 1] = draft[i])
      /\ 1 <= n /\ n <= Len(draft) + 1 /\ idLast \in Tokens /\ nPast = k + 1
  BY BatchFacts, LenProperties DEF SeqsInv, JudgeInv, BehindInv
<1>2. NewPast = k + n
  BY <1>1 DEF NewPast, First
<1>3. kept \in Seq(Tokens) /\ Len(kept) = n /\ \A i \in 1 .. n : kept[i] = Batch[i]
  <2>1. /\ Keep(Batch, n) \in Seq(Tokens)
        /\ Len(Keep(Batch, n)) = IF n < Len(Batch) THEN n ELSE Len(Batch)
        /\ \A i \in 1 .. Len(Keep(Batch, n)) : Keep(Batch, n)[i] = Batch[i]
    BY <1>1, KeepFacts
  <2>2. QED
    BY <1>1, <2>1
<1>4. /\ hist \o kept \in Seq(Tokens) /\ Len(hist \o kept) = k + n
      /\ \A i \in 1 .. k + n : (hist \o kept)[i] = IF i <= k THEN hist[i] ELSE kept[i - k]
  <2> HIDE DEF kept
  <2>1. /\ hist \o kept \in Seq(Tokens) /\ Len(hist \o kept) = Len(hist) + Len(kept)
        /\ \A i \in 1 .. Len(hist) + Len(kept) :
             (hist \o kept)[i] = IF i <= Len(hist) THEN hist[i] ELSE kept[i - Len(hist)]
    BY <1>1, <1>3, ConcatProperties
  <2>2. QED
    BY <1>3, <2>1
<1>5. Keep(hist \o Batch, k + n) = hist \o kept
  BY <1>1, KeepBehind
<1>6. \A i \in 1 .. n - 1 : i \in 1 .. Len(draft) /\ kept[i + 1] = ids[i]
  <2>1. ASSUME NEW i \in 1 .. n - 1 PROVE i \in 1 .. Len(draft) /\ kept[i + 1] = ids[i]
    <3>1. i \in 1 .. Len(draft) /\ i + 1 \in 1 .. n
      BY <1>1
    <3>2. kept[i + 1] = Batch[i + 1] /\ Batch[i + 1] = draft[i] /\ ids[i] = draft[i]
      BY <1>1, <1>3, <3>1 DEF JudgeInv
    <3>3. QED
      BY <3>1, <3>2
  <2>2. QED
    BY <2>1
<1>7. kept = <<idLast>> \o Keep(ids, n - 1)
  <2> DEFINE tail == Keep(ids, n - 1)
             one == <<idLast>>
  <2>1. n - 1 \in Nat /\ (IF n - 1 < Len(ids) THEN n - 1 ELSE Len(ids)) = n - 1
    BY <1>1
  <2>2. tail \in Seq(Tokens) /\ Len(tail) = n - 1 /\ \A i \in 1 .. n - 1 : tail[i] = ids[i]
    BY <1>1, <2>1, KeepFacts
  <2>3. one \in Seq(Tokens) /\ Len(one) = 1 /\ one[1] = idLast
    BY <1>1
  <2> HIDE DEF tail, one
  <2>4. /\ one \o tail \in Seq(Tokens) /\ Len(one \o tail) = Len(one) + Len(tail)
        /\ \A i \in 1 .. Len(one) + Len(tail) :
             (one \o tail)[i] = IF i <= Len(one) THEN one[i] ELSE tail[i - Len(one)]
    BY <2>2, <2>3, ConcatProperties
  <2>5. Len(one \o tail) = n
    BY <1>1, <2>2, <2>3, <2>4
  <2>6. ASSUME NEW i \in 1 .. n PROVE kept[i] = (one \o tail)[i]
    <3>1. CASE i = 1
      BY <1>1, <1>3, <2>2, <2>3, <2>4, <3>1
    <3>2. CASE i # 1
      <4>1. i - 1 \in 1 .. n - 1 /\ (i - 1) + 1 = i /\ ~ i <= 1
        BY <1>1, <3>2
      <4>2. kept[(i - 1) + 1] = ids[i - 1] /\ tail[i - 1] = ids[i - 1]
        BY <1>6, <2>2, <4>1
      <4>3. (one \o tail)[i] = tail[i - 1]
        BY <1>1, <2>2, <2>3, <2>4, <4>1
      <4>4. QED
        BY <4>1, <4>2, <4>3
    <3>3. QED
      BY <3>1, <3>2
  <2> HIDE DEF kept
  <2>7. kept = one \o tail
    BY <1>3, <2>4, <2>5, <2>6, SeqEqual
  <2>8. QED
    BY <2>7 DEF one, tail
<1>8. hist \o <<idLast>> \o Keep(ids, n - 1) = hist \o kept
  <2>1. <<idLast>> \in Seq(Tokens)
    BY <1>1
  <2>2. Keep(ids, n - 1) \in Seq(Tokens)
    <3>1. n - 1 \in Nat
      BY <1>1
    <3>2. QED
      BY <1>1, <3>1, KeepFacts
  <2>3. (hist \o <<idLast>>) \o Keep(ids, n - 1) = hist \o (<<idLast>> \o Keep(ids, n - 1))
    <3>1. hist \in Seq(Tokens)
      BY <1>1
    <3>2. \A a, b, c \in Seq(Tokens) : (a \o b) \o c = a \o (b \o c)
      BY ConcatAssociative
    <3>3. QED
      BY <3>1, <3>2, <2>1, <2>2, Zenon
  <2>4. QED
    BY <1>7, <2>3
<1>9. ASSUME NEW i \in 1 .. k + n PROVE (hist \o kept)[i] = TokenAt(i - 1)
  <2> HIDE DEF kept
  <2>1. CASE i <= k
    BY <1>1, <1>4, <2>1 DEF HistInv, Running
  <2>2. CASE i = k + 1
    <3>1. i - k = 1 /\ ~ i <= k /\ i - 1 = k
      BY <1>1, <2>2
    <3>2. (hist \o kept)[i] = kept[1]
      BY <1>4, <3>1
    <3>3. kept[1] = idLast
      BY <1>1, <1>3
    <3>4. QED
      BY <3>1, <3>2, <3>3 DEF HistInv, Running
  <2>3. CASE i > k + 1
    <3>1. /\ i - k - 1 \in 1 .. n - 1 /\ (i - k - 1) + 1 = i - k /\ ~ i <= k
          /\ i - k - 1 \in 1 .. n /\ k + (i - k - 1) = i - 1
      BY <1>1, <2>3
    <3>2. (hist \o kept)[i] = ids[i - k - 1]
      BY <1>4, <1>6, <3>1
    <3>3. ids[i - k - 1] = TokenAt(k + (i - k - 1))
      BY <3>1 DEF JudgeInv
    <3>4. QED
      BY <3>1, <3>2, <3>3
  <2>4. i <= k \/ i = k + 1 \/ i > k + 1
    <3>1. i \in Nat /\ k \in Nat
      BY <1>1
    <3> HIDE DEF k
    <3>2. QED
      BY <3>1
  <2>5. QED
    BY <2>1, <2>2, <2>3, <2>4
<1>10. NewPast \in Nat /\ Len(ids) \in 1 .. Len(Batch)
  BY <1>1, <1>2
<1>11. QED
  BY <1>1, <1>2, <1>4, <1>5, <1>8, <1>9, <1>10

\* The text grows by what was confirmed, without the end token.
LEMMA EmittedTokens ==
    ASSUME DecodeInv, Accept
    PROVE  /\ \E n \in Nat :
                /\ Len(text') = Len(text) + n /\ Len(text) + n <= NPredict
                /\ n = Len(ids) - (IF idLast' = "e" THEN 1 ELSE 0)
           /\ text' \in Seq(Tokens)
           /\ \A i \in 1 .. Len(text) : text'[i] = text[i]
           /\ \A i \in 1 .. Len(text') : text'[i] = TokenAt(prompt - 1 + i) /\ text'[i] # "e"
           /\ idLast' # "e" => text' = text \o ids
<1> USE DEF DecodeInv
<1> DEFINE n == IF idLast' = "e" THEN Len(ids) - 1 ELSE Len(ids)
           new == Keep(ids, n)
<1>1. /\ pc = "judge" /\ idLast' = ids[Len(ids)]
      /\ text' = text \o (IF idLast' = "e" THEN Keep(ids, Len(ids) - 1) ELSE ids)
  BY DEF Accept
<1>2. /\ Len(text) \in Nat /\ Len(hist) \in Nat /\ Len(ids) \in Nat /\ Len(draft) \in Nat
      /\ 1 <= Len(ids) /\ Len(ids) <= Len(draft) + 1
      /\ ids \in Seq(Tokens) /\ text \in Seq(Tokens) /\ prompt \in Nat
  BY <1>1, LenProperties DEF SeqsInv, JudgeInv, ConfigInv
<1>3. /\ idLast # "e" /\ Len(draft) + Len(text) + 1 <= NPredict /\ NPredict \in Nat
  BY <1>1, SpecAssumption DEF DraftInv, MayGoOn, Running
<1>4. Len(hist) = prompt - 1 + Len(text)
  BY <1>1, <1>2, <1>3 DEF HistInv, Running
<1>5. n \in Nat /\ n <= Len(ids) /\ Len(text) + n <= NPredict
  BY <1>2, <1>3
<1>6. text' = text \o new
  <2>1. Keep(ids, Len(ids)) = ids
    BY <1>2, KeepAll
  <2>2. QED
    BY <1>1, <2>1
<1>7. new \in Seq(Tokens) /\ Len(new) = n /\ \A i \in 1 .. n : new[i] = ids[i]
  <2> HIDE DEF n
  <2>1. /\ Keep(ids, n) \in Seq(Tokens)
        /\ Len(Keep(ids, n)) = IF n < Len(ids) THEN n ELSE Len(ids)
        /\ \A i \in 1 .. Len(Keep(ids, n)) : Keep(ids, n)[i] = ids[i]
    BY <1>2, <1>5, KeepFacts
  <2>2. QED
    BY <1>2, <1>5, <2>1
<1> HIDE DEF new
<1>8. /\ text \o new \in Seq(Tokens) /\ Len(text \o new) = Len(text) + Len(new)
      /\ \A i \in 1 .. Len(text) + Len(new) :
           (text \o new)[i] = IF i <= Len(text) THEN text[i] ELSE new[i - Len(text)]
  BY <1>2, <1>7, ConcatProperties
<1>9. \A i \in 1 .. n : ids[i] = TokenAt(prompt - 1 + Len(text) + i) /\ ids[i] # "e"
  <2>1. ASSUME NEW i \in 1 .. n
        PROVE  ids[i] = TokenAt(prompt - 1 + Len(text) + i) /\ ids[i] # "e"
    <3>1. i \in 1 .. Len(ids)
      BY <1>2, <1>5
    <3>2. ids[i] = TokenAt(Len(hist) + i)
      BY <1>1, <3>1 DEF JudgeInv
    <3>3. ids[i] # "e"
      <4>1. CASE i \in 1 .. Len(ids) - 1
        BY <1>1, <4>1 DEF JudgeInv
      <4>2. CASE i = Len(ids)
        BY <1>1, <1>2, <1>5, <4>2
      <4>3. QED
        BY <1>2, <3>1, <4>1, <4>2
    <3>4. QED
      BY <1>4, <3>2, <3>3
  <2>2. QED
    BY <2>1
<1>10. ASSUME NEW i \in 1 .. Len(text)
       PROVE  text'[i] = text[i] /\ i \in 1 .. Len(text) + Len(new)
  <2>1. i \in 1 .. Len(text) + Len(new) /\ i <= Len(text)
    BY <1>2, <1>5, <1>7
  <2>2. QED
    BY <1>6, <1>8, <2>1
<1>11. ASSUME NEW i \in 1 .. Len(text) + n
       PROVE  text'[i] = TokenAt(prompt - 1 + i) /\ text'[i] # "e"
  <2>1. CASE i <= Len(text)
    <3>1. i \in 1 .. Len(text)
      BY <1>2, <1>5, <2>1
    <3>2. QED
      BY <1>10, <3>1 DEF TextInv
  <2>2. CASE ~ i <= Len(text)
    <3>1. i - Len(text) \in 1 .. n
      BY <1>2, <1>5, <2>2
    <3>2. text'[i] = ids[i - Len(text)]
      BY <1>5, <1>6, <1>7, <1>8, <2>2, <3>1
    <3>3. prompt - 1 + Len(text) + (i - Len(text)) = prompt - 1 + i
      BY <1>2, <1>5
    <3>4. QED
      BY <1>9, <3>1, <3>2, <3>3
  <2>3. QED
    BY <2>1, <2>2
<1>12. Len(text') = Len(text) + n /\ text' \in Seq(Tokens)
  BY <1>6, <1>7, <1>8
<1>13. n = Len(ids) - (IF idLast' = "e" THEN 1 ELSE 0)
  BY <1>2
<1>14. idLast' # "e" => text' = text \o ids
  BY <1>1
<1> HIDE DEF n
<1>15. QED
  BY <1>5, <1>10, <1>11, <1>12, <1>13, <1>14

\* An accepted verification: every memory is cut to the confirmed tokens,
\* whichever mechanism cuts the recurrent state.
LEMMA AcceptDecode ==
    ASSUME DecodeInv, Accept PROVE DecodeInv'
<1> USE DEF DecodeInv
<1> DEFINE new == hist \o Keep(Batch, Len(ids))
<1>1. /\ pc = "judge" /\ pc' = "loop" /\ ~Restores
      /\ saved' = <<>> /\ ids' = <<>> /\ smpl' = smpl /\ record' = <<>>
      /\ recur' = RolledBack(Folded(Len(ids)), NewPast)
      /\ nPast' = NewPast /\ draft' = <<>>
      /\ hist' = hist \o <<idLast>> \o Keep(ids, Len(ids) - 1)
      /\ idLast' = ids[Len(ids)]
      /\ attn' = Keep(attn, NewPast) /\ dft' = Keep(dft, NewPast)
      /\ UNCHANGED <<mode, NRs, prompt, eos, ckpt>>
  BY DEF Accept, KeptRows
<1>2. /\ NewPast = Len(hist) + Len(ids) /\ NewPast \in Nat
      /\ Len(ids) \in Nat /\ Len(ids) \in 1 .. Len(Batch)
      /\ hist \o <<idLast>> \o Keep(ids, Len(ids) - 1) = new
      /\ new \in Seq(Tokens) /\ Len(new) = NewPast
      /\ Keep(hist \o Batch, NewPast) = new
      /\ \A i \in 1 .. NewPast : new[i] = TokenAt(i - 1)
  BY <1>1, AcceptedRowsKept
<1> HIDE DEF new
<1>3. /\ attn = hist \o Batch /\ dft = hist \o Batch
      /\ record = (IF mode = "replay" THEN Batch ELSE <<>>)
      /\ mode \in {"planes", "host"} => recur = hist \o Batch
      /\ mode = "replay" => recur = hist
  BY <1>1 DEF BehindInv
<1>4. /\ Batch \in Seq(Tokens) /\ Len(Batch) = Len(draft) + 1 /\ Len(draft) \in Nat
      /\ hist \in Seq(Tokens) /\ Len(hist) \in Nat /\ recur \in Seq(Tokens)
  BY BatchFacts, LenProperties DEF SeqsInv
<1>5. hist \o Batch \in Seq(Tokens) /\ Len(hist \o Batch) = Len(hist) + Len(draft) + 1
  <2>1. hist \o Batch \in Seq(Tokens) /\ Len(hist \o Batch) = Len(hist) + Len(Batch)
    BY <1>4, ConcatProperties
  <2>2. QED
    BY <1>4, <2>1
<1>6. recur' \in Seq(Tokens) /\ (Recurrent => recur' = new)
  <2>1. CASE mode = "replay"
    <3>1. Folded(Len(ids)) = hist \o Keep(Batch, Len(ids))
      BY <1>3, <2>1 DEF Folded
    <3>2. recur' = new
      BY <1>1, <2>1, <3>1 DEF RolledBack, new
    <3>3. QED
      BY <1>2, <3>2
  <2>2. CASE mode = "planes"
    <3>1. Folded(Len(ids)) = hist \o Batch
      BY <1>3, <2>2 DEF Folded
    <3>2. ~ Len(draft) > NRs \/ Len(ids) - 1 >= Len(draft)
      BY <1>1, <1>2, <1>4, <2>2 DEF Restores, HostCkpt
    <3>3. NRs \in Nat
      BY DEF ConfigInv
    <3>4. Len(hist \o Batch) > NewPast => Len(hist \o Batch) - NewPast <= NRs
      BY <1>2, <1>4, <1>5, <3>2, <3>3
    <3>5. CASE Len(hist \o Batch) > NewPast
      BY <1>1, <1>2, <2>2, <3>1, <3>4, <3>5 DEF RolledBack
    <3>6. CASE ~ Len(hist \o Batch) > NewPast
      <4>1. recur' = hist \o Batch
        BY <1>1, <2>2, <3>1, <3>6 DEF RolledBack
      <4>2. NewPast >= Len(hist \o Batch)
        BY <1>2, <1>4, <1>5, <3>6
      <4>3. Keep(hist \o Batch, NewPast) = hist \o Batch
        BY <1>2, <1>5, <4>2, KeepAll
      <4>4. QED
        BY <1>2, <4>1, <4>3
    <3>7. QED
      BY <1>2, <3>5, <3>6
  <2>3. CASE mode = "host"
    <3>1. recur' = hist \o Batch
      BY <1>1, <1>3, <2>3 DEF Folded, RolledBack
    <3>2. Len(ids) - 1 >= Len(draft)
      BY <1>1, <1>2, <1>4, <2>3 DEF Restores, HostCkpt
    <3>3. NewPast >= Len(hist \o Batch)
      BY <1>2, <1>4, <1>5, <3>2
    <3>4. Keep(hist \o Batch, NewPast) = hist \o Batch
      BY <1>2, <1>5, <3>3, KeepAll
    <3>5. QED
      BY <1>2, <3>1, <3>4
  <2>4. CASE mode = "dense"
    BY <1>1, <1>4, <2>4 DEF Folded, RolledBack, Recurrent
  <2>5. QED
    BY <2>1, <2>2, <2>3, <2>4 DEF ConfigInv, AllModes
<1>7. hist' = new /\ attn' = new /\ dft' = new
  BY <1>1, <1>2, <1>3
<1>8. /\ \E n \in Nat :
           /\ Len(text') = Len(text) + n /\ Len(text) + n <= NPredict
           /\ n = Len(ids) - (IF idLast' = "e" THEN 1 ELSE 0)
      /\ text' \in Seq(Tokens)
      /\ \A i \in 1 .. Len(text') : text'[i] = TokenAt(prompt - 1 + i) /\ text'[i] # "e"
      /\ idLast' # "e" => text' = text \o ids
  BY EmittedTokens
<1>9. ids[Len(ids)] \in Tokens /\ ids[Len(ids)] = TokenAt(Len(hist) + Len(ids))
  <2>1. Len(ids) \in 1 .. Len(ids) /\ ids \in Seq(Tokens)
    BY <1>2 DEF SeqsInv
  <2>2. QED
    BY <1>1, <2>1, ElementOfSeq DEF JudgeInv
<1>10. ConfigInv'
  BY <1>1 DEF ConfigInv, Running
<1>11. SeqsInv'
  <2>1. <<>> \in Seq(Tokens) /\ ckpt' \in [n : Nat, recur : Seq(Tokens)]
    BY <1>1 DEF SeqsInv
  <2>2. smpl' \in Seq(Tokens)
    BY <1>1 DEF SeqsInv
  <2>3. QED
    BY <1>1, <1>2, <1>6, <1>7, <1>8, <1>9, <2>1, <2>2 DEF SeqsInv
<1>12. TextInv'
  <2>1. Len(text') <= NPredict
    BY <1>8
  <2>2. QED
    BY <1>1, <1>8, <2>1 DEF TextInv, TokenAt
<1>13. HistInv'
  <2>1. \A i \in 1 .. Len(hist') : hist'[i] = TokenAt(i - 1)
    BY <1>2, <1>7
  <2>2. Len(hist') = Len(hist) + Len(ids)
    BY <1>2, <1>7
  <2>3. idLast' = TokenAt(Len(hist'))
    BY <1>1, <1>9, <2>2
  <2>4. Len(hist) = prompt - 1 + Len(text)
    <3>1. idLast # "e" /\ Len(text) \in Nat
      BY <1>1, LenProperties DEF DraftInv, MayGoOn, Running, SeqsInv
    <3>2. QED
      BY <1>1, <3>1 DEF HistInv, Running, ConfigInv
  <2>5. Len(hist') = prompt - 1 + Len(text') + (IF idLast' = "e" THEN 1 ELSE 0)
    <3>1. PICK n \in Nat : /\ Len(text') = Len(text) + n
                           /\ n = Len(ids) - (IF idLast' = "e" THEN 1 ELSE 0)
      BY <1>8
    <3>2. Len(text) \in Nat /\ prompt \in Nat
      BY LenProperties DEF SeqsInv, ConfigInv
    <3>3. QED
      BY <1>2, <2>2, <2>4, <3>1, <3>2
  <2>6. QED
    BY <1>1, <2>1, <2>3, <2>5 DEF HistInv, TokenAt
<1>14. BeforeInv'
  <2>1. idLast' # "e" => smpl' = text'
    BY <1>1, <1>8 DEF JudgeInv
  <2>2. nPast' = Len(hist')
    BY <1>1, <1>2, <1>7
  <2>3. QED
    BY <1>1, <1>6, <1>7, <2>1, <2>2 DEF BeforeInv, Recurrent
<1>15. BehindInv' /\ JudgeInv' /\ DraftInv'
  BY <1>1 DEF BehindInv, JudgeInv, DraftInv
<1>16. QED
  BY <1>10, <1>11, <1>12, <1>13, <1>14, <1>15

\* A generation that is over keeps its text; of the rest only what the
\* variables range over is known.
LEMMA OverDecode ==
    ASSUME DecodeInv, pc' \in {"done", "abandoned", "failed"},
           UNCHANGED <<mode, NRs, prompt, eos, hist, idLast, draft, ckpt, smpl, saved,
                       ids, text>>,
           attn' \in Seq(Tokens), dft' \in Seq(Tokens), recur' \in Seq(Tokens),
           record' \in Seq(Tokens), nPast' \in Nat
    PROVE  DecodeInv'
<1> USE DEF DecodeInv
<1>1. ConfigInv'
  BY DEF ConfigInv
<1>2. SeqsInv'
  BY DEF SeqsInv
<1>3. TextInv'
  BY DEF TextInv, TokenAt
<1>4. HistInv' /\ BeforeInv' /\ BehindInv' /\ DraftInv' /\ JudgeInv'
  BY DEF HistInv, BeforeInv, BehindInv, DraftInv, JudgeInv, Running
<1>5. QED
  BY <1>1, <1>2, <1>3, <1>4

LEMMA EndDecode ==
    ASSUME DecodeInv, ContextFull \/ DecodeFails \/ ProcessFails \/ FoldFails
                      \/ Abandon \/ Finish \/ Aborted
    PROVE  DecodeInv'
<1> USE DEF DecodeInv
<1>1. /\ hist \in Seq(Tokens) /\ attn \in Seq(Tokens) /\ dft \in Seq(Tokens)
      /\ recur \in Seq(Tokens) /\ record \in Seq(Tokens) /\ nPast \in Nat
      /\ nPast + 1 \in Nat /\ <<>> \in Seq(Tokens) /\ Batch \in Seq(Tokens)
  BY BatchFacts DEF SeqsInv
<1>2. attn \o Batch \in Seq(Tokens) /\ recur \o Batch \in Seq(Tokens)
  BY <1>1, ConcatProperties
<1>3. CASE ContextFull \/ DecodeFails \/ FoldFails
  BY <1>1, <1>3, OverDecode DEF ContextFull, DecodeFails, FoldFails, Fails, sampler
<1>4. CASE ProcessFails
  BY <1>1, <1>2, <1>4, OverDecode DEF ProcessFails, Fails, Decoded, sampler
<1>5. CASE Abandon
  <2>1. pc = "judge" /\ First = nPast - 1
    BY <1>5 DEF Abandon, First
  <2>2. First \in Nat
    <3>1. nPast = Len(hist) + 1 /\ Len(hist) \in Nat
      BY <1>1, <2>1, LenProperties DEF BehindInv
    <3>2. QED
      BY <2>1, <3>1
  <2>3. Keep(attn, First) \in Seq(Tokens) /\ Keep(dft, First) \in Seq(Tokens)
    BY <1>1, <2>2, KeepFacts
  <2>4. QED
    BY <1>1, <1>5, <2>2, <2>3, OverDecode DEF Abandon, sampler
<1>6. CASE Finish \/ Aborted
  BY <1>1, <1>6, OverDecode DEF Finish, Aborted, rows, sampler
<1>7. QED
  BY <1>3, <1>4, <1>5, <1>6

LEMMA StutterDecode ==
    ASSUME DecodeInv, UNCHANGED vars PROVE DecodeInv'
<1> USE DEF DecodeInv
<1>1. UNCHANGED <<mode, NRs, prompt, eos, hist, idLast, nPast, draft, ckpt, attn, dft,
                  recur, record, smpl, saved, ids, text, pc>>
  BY DEF vars, rows, sampler
<1>2. ConfigInv' /\ SeqsInv'
  BY <1>1 DEF ConfigInv, SeqsInv
<1>3. TextInv' /\ HistInv'
  BY <1>1 DEF TextInv, HistInv, TokenAt
<1>4. BeforeInv' /\ BehindInv'
  BY <1>1 DEF BeforeInv, BehindInv, Batch, Recurrent
<1>5. DraftInv' /\ JudgeInv'
  BY <1>1 DEF DraftInv, JudgeInv, MayGoOn, HostCkpt, TokenAt
<1>6. QED
  BY <1>2, <1>3, <1>4, <1>5

LEMMA NextDecode ==
    ASSUME DecodeInv, [Next]_vars PROVE DecodeInv'
<1>1. CASE Run
  BY <1>1, ProposeDecode, RetryDecode, VerifyDecode, EndDecode, SampleDecode,
     RestoreDecode, AcceptDecode DEF Run
<1>2. CASE Interrupted
  BY <1>2, EndDecode DEF Interrupted
<1>3. CASE UNCHANGED vars
  BY <1>3, StutterDecode
<1>4. QED
  BY <1>1, <1>2, <1>3 DEF Next

-----------------------------------------------------------------------------
(* The mean keys of accepted rows.                                         *)

Row == Nat \X Tokens

\* The rows lo..hi-1 are as many as the numbers say, or none.
LEMMA OwnRowsFacts ==
    ASSUME NEW lo \in Nat, NEW hi \in Nat
    PROVE  /\ OwnRows(lo, hi) \in Seq(Row)
           /\ Len(OwnRows(lo, hi)) = IF lo <= hi THEN hi - lo ELSE 0
           /\ \A i \in 1 .. hi - lo : OwnRows(lo, hi)[i] = <<lo + i - 1, TokenAt(lo + i - 1)>>
           /\ hi <= lo => OwnRows(lo, hi) = <<>>
<1> DEFINE n == IF lo <= hi THEN hi - lo ELSE 0
           f == [i \in 1 .. n |-> <<lo + i - 1, TokenAt(lo + i - 1)>>]
<1>1. n \in Nat /\ 1 .. hi - lo = 1 .. n
  OBVIOUS
<1>2. OwnRows(lo, hi) = f
  BY <1>1 DEF OwnRows
<1> HIDE DEF n
<1>3. \A i \in 1 .. n : <<lo + i - 1, TokenAt(lo + i - 1)>> \in Row
  BY <1>1 DEF TokenAt, Tokens, Row
<1>4. f \in Seq(Row) /\ Len(f) = n
  <2>1. f \in [1 .. n -> Row]
    BY <1>3
  <2> HIDE DEF f
  <2>2. QED
    BY <1>1, <2>1
<1>5. \A i \in 1 .. hi - lo : f[i] = <<lo + i - 1, TokenAt(lo + i - 1)>>
  BY <1>1
<1>6. hi <= lo => f = <<>>
  <2>1. hi <= lo => n = 0
    BY DEF n
  <2> HIDE DEF f
  <2>2. QED
    BY <1>4, <2>1, EmptySeq
<1> HIDE DEF f
<1>7. QED
  BY <1>1, <1>2, <1>4, <1>5, <1>6 DEF n

\* Rows m..n-1 and then n..k-1 are rows m..k-1.
LEMMA OwnRowsJoin ==
    ASSUME NEW m \in Nat, NEW n \in Nat, NEW k \in Nat, m <= n, n <= k
    PROVE  OwnRows(m, n) \o OwnRows(n, k) = OwnRows(m, k)
<1> DEFINE s == OwnRows(m, n)
           t == OwnRows(n, k)
           u == OwnRows(m, k)
<1>1. s \in Seq(Row) /\ Len(s) = n - m
      /\ \A i \in 1 .. n - m : s[i] = <<m + i - 1, TokenAt(m + i - 1)>>
  BY OwnRowsFacts
<1>2. t \in Seq(Row) /\ Len(t) = k - n
      /\ \A i \in 1 .. k - n : t[i] = <<n + i - 1, TokenAt(n + i - 1)>>
  BY OwnRowsFacts
<1>3. u \in Seq(Row) /\ Len(u) = k - m
      /\ \A i \in 1 .. k - m : u[i] = <<m + i - 1, TokenAt(m + i - 1)>>
  BY OwnRowsFacts
<1> HIDE DEF s, t, u
<1>4. /\ s \o t \in Seq(Row) /\ Len(s \o t) = Len(s) + Len(t)
      /\ \A i \in 1 .. Len(s) + Len(t) :
           (s \o t)[i] = IF i <= Len(s) THEN s[i] ELSE t[i - Len(s)]
  BY <1>1, <1>2, ConcatProperties
<1>5. Len(s \o t) = Len(u)
  BY <1>1, <1>2, <1>3, <1>4
<1>6. ASSUME NEW i \in 1 .. k - m PROVE (s \o t)[i] = u[i]
  <2> DEFINE st == s \o t
  <2>0. st[i] = IF i <= n - m THEN s[i] ELSE t[i - (n - m)]
    BY <1>1, <1>2, <1>4
  <2> HIDE DEF st
  <2>1. CASE i <= n - m
    <3>1. i \in 1 .. n - m /\ i \in 1 .. k - m
      BY <2>1
    <3>2. QED
      BY <1>1, <1>3, <2>0, <2>1, <3>1 DEF st
  <2>2. CASE ~(i <= n - m)
    <3>1. i - (n - m) \in 1 .. k - n /\ n + (i - (n - m)) - 1 = m + i - 1
      BY <2>2
    <3>2. t[i - (n - m)] = <<m + i - 1, TokenAt(m + i - 1)>>
      BY <1>2, <3>1
    <3>3. QED
      BY <1>3, <2>0, <2>2, <3>2 DEF st
  <2>3. QED
    BY <2>1, <2>2
<1>7. QED
  <2> DEFINE st == s \o t
  <2>1. st \in Seq(Row) /\ Len(st) = Len(u) /\ Len(u) = k - m /\ \A i \in 1 .. k - m : st[i] = u[i]
    BY <1>3, <1>4, <1>5, <1>6
  <2> HIDE DEF st
  <2>2. st = u
    BY <1>3, <2>1, SeqEqual
  <2>3. QED
    BY <2>2 DEF st, s, t, u

\* Multiplication and division of row numbers by the size of a block.
LEMMA TimesMonotone ==
    ASSUME NEW a \in Int, NEW b \in Int, NEW k \in Nat, a <= b
    PROVE  a * k <= b * k
  OBVIOUS

LEMMA DivMod ==
    ASSUME NEW i \in Nat, NEW k \in Nat \ {0}
    PROVE  /\ i \div k \in Nat /\ i % k \in Nat /\ i % k < k
           /\ i = (i \div k) * k + (i % k)
  OBVIOUS

\* A block holds the rows from its first row to the first row of the next.
LEMMA BlockRows ==
    ASSUME NEW b \in Nat
    PROVE  /\ b * BlockTokens \in Nat /\ (b + 1) * BlockTokens = b * BlockTokens + BlockTokens
           /\ (b + 1) * BlockTokens \in Nat
           /\ \A p \in Nat : /\ BlockOf(p) \in Nat
                             /\ BlockOf(p) = b <=> b * BlockTokens <= p /\ p < (b + 1) * BlockTokens
           /\ \A p \in Nat : BlockOf(p) = b => p % BlockTokens = p - b * BlockTokens
<1>1. BlockTokens \in Nat \ {0}
  BY SpecAssumption
<1>2. b * BlockTokens \in Nat /\ (b + 1) * BlockTokens = b * BlockTokens + BlockTokens
  BY <1>1
<1>3. ASSUME NEW p \in Nat
      PROVE  /\ BlockOf(p) \in Nat
             /\ BlockOf(p) = b <=> b * BlockTokens <= p /\ p < (b + 1) * BlockTokens
             /\ BlockOf(p) = b => p % BlockTokens = p - b * BlockTokens
  <2> DEFINE q == BlockOf(p)
  <2>1. /\ q \in Nat /\ p % BlockTokens \in Nat /\ p % BlockTokens < BlockTokens
        /\ p = q * BlockTokens + (p % BlockTokens)
    BY <1>1, DivMod DEF BlockOf
  <2> HIDE DEF q
  <2>2. q * BlockTokens \in Nat
    BY <1>1, <2>1
  <2>3. q = b => b * BlockTokens <= p /\ p < (b + 1) * BlockTokens /\ p % BlockTokens = p - b * BlockTokens
    <3> DEFINE x == b * BlockTokens
               y == p % BlockTokens
    <3>1. ASSUME q = b PROVE p = x + y
      BY <2>1, <3>1
    <3>2. x \in Nat /\ (b + 1) * BlockTokens = x + BlockTokens /\ y \in Nat /\ y < BlockTokens
      BY <1>2, <2>1
    <3> HIDE DEF x, y
    <3>3. q = b => x <= p /\ p < x + BlockTokens /\ y = p - x
      BY <1>1, <3>1, <3>2
    <3>4. QED
      BY <3>2, <3>3 DEF x, y
  <2>4. ASSUME q < b PROVE ~(b * BlockTokens <= p)
    <3>1. (q + 1) * BlockTokens <= b * BlockTokens
      BY <1>1, <2>1, <2>4, TimesMonotone
    <3>2. (q + 1) * BlockTokens = q * BlockTokens + BlockTokens
      BY <1>1, <2>1
    <3> DEFINE x == b * BlockTokens
               z == q * BlockTokens
               y == p % BlockTokens
    <3>3. x \in Nat /\ z \in Nat /\ z + BlockTokens <= x /\ p = z + y /\ y \in Nat /\ y < BlockTokens
      BY <1>2, <2>1, <2>2, <3>1, <3>2
    <3> HIDE DEF x, y, z
    <3>4. ~(x <= p)
      BY <1>1, <3>3
    <3>5. QED
      BY <3>4 DEF x
  <2>5. ASSUME b < q PROVE ~(p < (b + 1) * BlockTokens)
    <3>1. (b + 1) * BlockTokens <= q * BlockTokens
      BY <1>1, <2>1, <2>5, TimesMonotone
    <3> DEFINE x == (b + 1) * BlockTokens
               z == q * BlockTokens
               y == p % BlockTokens
    <3>3. x \in Nat /\ z \in Nat /\ x <= z /\ p = z + y /\ y \in Nat
      BY <1>1, <1>2, <2>1, <2>2, <3>1
    <3> HIDE DEF x, y, z
    <3>4. ~(p < x)
      BY <3>3
    <3>5. QED
      BY <3>4 DEF x
  <2>6. q < b \/ q = b \/ b < q
    BY <2>1
  <2>7. QED
    BY <2>1, <2>3, <2>4, <2>5, <2>6 DEF q
<1>4. QED
  BY <1>1, <1>2, <1>3

\* A bounded set of naturals has a greatest element (Max).
LEMMA MaxOfNats ==
    ASSUME NEW S \in SUBSET Nat, S # {}, NEW n \in Nat, \A x \in S : x <= n
    PROVE  Max(S) \in S /\ \A x \in S : Max(S) >= x
<1> DEFINE T == {n - x : x \in S}
<1>1. T \in SUBSET Nat /\ T # {}
  <2>1. \A x \in S : n - x \in Nat
    OBVIOUS
  <2>2. QED
    BY <2>1
<1>2. PICK t \in T : \A y \in T : t <= y
  <2> HIDE DEF T
  <2>1. QED
    BY <1>1, MinOfNats
<1>3. PICK m \in S : t = n - m
  OBVIOUS
<1>4. \A x \in S : m >= x
  BY <1>2, <1>3
<1>5. QED
  BY <1>4 DEF Max

\* The rows of a block among the rows m..k-1.
LEMMA RowsInOwn ==
    ASSUME NEW m \in Nat, NEW k \in Nat, m <= k, NEW b \in Nat, NEW lo \in Nat, NEW hi \in Nat,
           lo = (IF m <= b * BlockTokens THEN b * BlockTokens ELSE m),
           hi = (IF k <= (b + 1) * BlockTokens THEN k ELSE (b + 1) * BlockTokens)
    PROVE  RowsIn(OwnRows(m, k), b) = OwnRows(lo, hi)
<1> DEFINE s == OwnRows(m, k)
           in == {i \in 1 .. Len(s) : BlockOf(s[i][1]) = b}
           r == OwnRows(lo, hi)
<1>1. s \in Seq(Row) /\ Len(s) = k - m
      /\ \A i \in 1 .. k - m : s[i] = <<m + i - 1, TokenAt(m + i - 1)>>
  BY OwnRowsFacts
<1>2. /\ r \in Seq(Row) /\ Len(r) = (IF lo <= hi THEN hi - lo ELSE 0)
      /\ \A i \in 1 .. hi - lo : r[i] = <<lo + i - 1, TokenAt(lo + i - 1)>>
      /\ hi <= lo => r = <<>>
  BY OwnRowsFacts
<1>3. \A i \in 1 .. k - m : i \in in <=> b * BlockTokens <= m + i - 1 /\ m + i - 1 < (b + 1) * BlockTokens
  <2> HIDE DEF s
  <2>1. ASSUME NEW i \in 1 .. k - m
        PROVE  i \in in <=> b * BlockTokens <= m + i - 1 /\ m + i - 1 < (b + 1) * BlockTokens
    <3>1. m + i - 1 \in Nat /\ s[i][1] = m + i - 1
      BY <1>1
    <3>2. BlockOf(m + i - 1) = b <=> b * BlockTokens <= m + i - 1 /\ m + i - 1 < (b + 1) * BlockTokens
      BY <3>1, BlockRows
    <3>3. QED
      BY <1>1, <3>1, <3>2
  <2>2. QED
    BY <2>1
<1>4. in \subseteq 1 .. k - m
  BY <1>1
<1> DEFINE c == b * BlockTokens
           d == (b + 1) * BlockTokens
<1>5. c \in Nat /\ d \in Nat /\ lo = (IF m <= c THEN c ELSE m) /\ hi = (IF k <= d THEN k ELSE d)
  BY BlockRows
<1> HIDE DEF in, c, d
<1>6. in = {i \in 1 .. k - m : lo - m + 1 <= i /\ i <= hi - m}
  <2>1. \A i \in 1 .. k - m : i \in in <=> c <= m + i - 1 /\ m + i - 1 < d
    BY <1>3 DEF c, d
  <2>2. \A i \in 1 .. k - m : i \in in <=> lo - m + 1 <= i /\ i <= hi - m
    BY <1>5, <2>1
  <2>3. QED
    BY <1>4, <2>2
<1>7. CASE hi <= lo
  <2>1. in = {}
    BY <1>5, <1>6, <1>7
  <2>2. QED
    BY <1>2, <1>7, <2>1 DEF RowsIn, in
<1>8. CASE lo < hi
  <2>1. lo - m + 1 \in in /\ hi - m \in in /\ in \in SUBSET Nat
    BY <1>5, <1>6, <1>8
  <2>2. Min(in) \in in /\ (\A x \in in : Min(in) <= x)
      /\ Max(in) \in in /\ (\A x \in in : Max(in) >= x)
    <3>1. k - m \in Nat /\ \A x \in in : x <= k - m
      BY <1>4
    <3>2. QED
      BY <2>1, <3>1, MinOfNats, MaxOfNats
  <2>3. Min(in) = lo - m + 1 /\ Max(in) = hi - m
    <3>1. Min(in) \in Nat /\ Max(in) \in Nat
      BY <2>1, <2>2
    <3>2. Min(in) <= lo - m + 1 /\ Max(in) >= hi - m
      BY <2>1, <2>2
    <3>3. lo - m + 1 <= Min(in) /\ Max(in) <= hi - m
      <4>1. \A x \in in : lo - m + 1 <= x /\ x <= hi - m
        BY <1>6
      <4>2. QED
        BY <2>2, <4>1
    <3>4. QED
      BY <3>1, <3>2, <3>3
  <2>4. RowsIn(s, b) = SubSeq(s, lo - m + 1, hi - m)
    BY <2>1, <2>3 DEF RowsIn, in
  <2> DEFINE x == lo - m + 1
             y == hi - m
  <2>5. x \in Nat \ {0} /\ y \in Nat /\ y <= Len(s) /\ x <= y /\ y - x + 1 = hi - lo
    <3>1. m <= lo /\ hi <= k
      BY <1>5
    <3> DEFINE l == Len(s)
    <3>2. l = k - m
      BY <1>1
    <3> HIDE DEF l
    <3>3. x \in Nat \ {0} /\ y \in Nat /\ y <= l /\ x <= y /\ y - x + 1 = hi - lo
      BY <1>8, <3>1, <3>2
    <3>4. QED
      BY <3>3 DEF l
  <2>6. \A i \in x .. y : s[i] \in Row
    BY <1>1, <2>5, ElementOfSeq
  <2> HIDE DEF x, y, s, r
  <2>7. /\ SubSeq(s, x, y) \in Seq(Row) /\ Len(SubSeq(s, x, y)) = hi - lo
        /\ \A i \in 1 .. hi - lo : SubSeq(s, x, y)[i] = s[x + i - 1]
    <3>1. x \in Int /\ y \in Int
      BY <2>5
    <3>2. /\ SubSeq(s, x, y) \in Seq(Row)
          /\ Len(SubSeq(s, x, y)) = IF x <= y THEN y - x + 1 ELSE 0
          /\ \A i \in 1 .. y - x + 1 : SubSeq(s, x, y)[i] = s[x + i - 1]
      BY <2>6, <3>1, SubSeqProperties
    <3>3. QED
      BY <2>5, <3>2
  <2>8. ASSUME NEW i \in 1 .. hi - lo PROVE SubSeq(s, x, y)[i] = r[i]
    <3>1. x + i - 1 \in 1 .. k - m /\ m + (x + i - 1) - 1 = lo + i - 1
      BY <1>5, <1>8 DEF x
    <3>2. s[x + i - 1] = <<lo + i - 1, TokenAt(lo + i - 1)>>
      BY <1>1, <3>1
    <3>3. QED
      BY <1>2, <2>7, <3>2
  <2>9. Len(r) = hi - lo
    BY <1>2, <1>8
  <2> DEFINE t == SubSeq(s, x, y)
  <2>10. t \in Seq(Row) /\ Len(t) = Len(r) /\ \A i \in 1 .. Len(r) : t[i] = r[i]
    BY <2>7, <2>8, <2>9
  <2> HIDE DEF t
  <2>11. t = r
    BY <1>2, <2>10, SeqEqual
  <2>12. QED
    BY <2>4, <2>11 DEF t, x, y, s, r
<1>9. QED
  BY <1>7, <1>8

\* No rows, and the first of some rows.
LEMMA OwnRowsEnds ==
    ASSUME NEW lo \in Nat, NEW hi \in Nat
    PROVE  /\ hi <= lo => OwnRows(lo, hi) = <<>>
           /\ lo < hi => OwnRows(lo, hi)[1] = <<lo, TokenAt(lo)>> /\ Len(OwnRows(lo, hi)) = hi - lo
<1> DEFINE r == OwnRows(lo, hi)
<1>1. /\ Len(r) = IF lo <= hi THEN hi - lo ELSE 0
      /\ \A i \in 1 .. hi - lo : r[i] = <<lo + i - 1, TokenAt(lo + i - 1)>>
      /\ hi <= lo => r = <<>>
  BY OwnRowsFacts
<1> HIDE DEF r
<1>2. ASSUME lo < hi PROVE r[1] = <<lo, TokenAt(lo)>> /\ Len(r) = hi - lo
  <2>1. 1 \in 1 .. hi - lo /\ lo + 1 - 1 = lo
    BY <1>2
  <2>2. r[1] = <<lo + 1 - 1, TokenAt(lo + 1 - 1)>>
    BY <1>1, <2>1
  <2>3. QED
    BY <1>1, <1>2, <2>1, <2>2
<1>3. QED
  BY <1>1, <1>2 DEF r

\* The rows of a block do not depend on what is behind it, nor on where it is
\* cut before it begins.
LEMMA SameAccepted ==
    ASSUME NEW b \in Nat, NEW m \in Nat, NEW k \in Nat, m <= k,
           (b + 1) * BlockTokens <= m \/ k <= b * BlockTokens
    PROVE  AcceptedRows(b, m) = AcceptedRows(b, k)
<1> DEFINE c == b * BlockTokens
           d == (b + 1) * BlockTokens
<1>1. c \in Nat /\ d \in Nat
  BY BlockRows
<1>2. Min({m, d}) = (IF m <= d THEN m ELSE d) /\ Min({k, d}) = (IF k <= d THEN k ELSE d)
  BY <1>1, MinOfTwo
<1>3. AcceptedRows(b, m) = OwnRows(c, Min({m, d})) /\ AcceptedRows(b, k) = OwnRows(c, Min({k, d}))
  BY DEF AcceptedRows
<1>4. CASE (b + 1) * BlockTokens <= m
  <2>1. d <= m
    BY <1>4
  <2> HIDE DEF c, d
  <2>2. QED
    BY <1>1, <1>2, <1>3, <2>1
<1>5. CASE k <= b * BlockTokens
  <2>1. k <= c /\ c <= d
    BY <1>1, <1>5, BlockRows, SpecAssumption
  <2> HIDE DEF c, d
  <2>2. Min({m, d}) = m /\ Min({k, d}) = k
    BY <1>1, <1>2, <2>1
  <2>3. OwnRows(c, m) = <<>> /\ OwnRows(c, k) = <<>>
    <3>1. m <= c
      BY <1>1, <2>1
    <3>2. QED
      BY <1>1, <2>1, <3>1, OwnRowsEnds
  <2>4. QED
    BY <1>3, <2>2, <2>3
<1>6. QED
  BY <1>4, <1>5

\* Flushing the rows lo..hi-1 of a block that holds the rows before m, of which
\* lo is the first in the block, gives its rows before k.
LEMMA WrittenRows ==
    ASSUME NEW b \in Nat, NEW m \in Nat, NEW k \in Nat, NEW lo \in Nat, NEW hi \in Nat,
           lo = (IF m <= b * BlockTokens THEN b * BlockTokens ELSE m),
           hi = (IF k <= (b + 1) * BlockTokens THEN k ELSE (b + 1) * BlockTokens), lo < hi
    PROVE  Written(AcceptedRows(b, m), OwnRows(lo, hi)) = AcceptedRows(b, k)
<1> DEFINE c == b * BlockTokens
           d == (b + 1) * BlockTokens
           r == OwnRows(lo, hi)
<1>1. c \in Nat /\ d \in Nat /\ lo = (IF m <= c THEN c ELSE m) /\ hi = (IF k <= d THEN k ELSE d)
  BY BlockRows
<1>2. r[1] = <<lo, TokenAt(lo)>>
  BY OwnRowsEnds
<1>3. lo % BlockTokens = lo - c
  <2>1. c <= lo /\ lo < d
    <3> HIDE DEF c, d
    <3>1. QED
      BY <1>1
  <2>2. QED
    BY <2>1, BlockRows
<1>4. Min({m, d}) = (IF m <= d THEN m ELSE d) /\ Min({k, d}) = (IF k <= d THEN k ELSE d)
  BY <1>1, MinOfTwo
<1>5. AcceptedRows(b, m) = OwnRows(c, Min({m, d})) /\ AcceptedRows(b, k) = OwnRows(c, Min({k, d}))
  BY DEF AcceptedRows
<1>6. Written(AcceptedRows(b, m), r)
        = (IF lo % BlockTokens = 0 THEN <<>> ELSE AcceptedRows(b, m)) \o r
  <2>1. r[1][1] = lo
    BY <1>2
  <2> HIDE DEF r
  <2>2. QED
    BY <2>1 DEF Written
<1> HIDE DEF c, d
<1>7. CASE lo = c
  <2>1. lo % BlockTokens = 0
    BY <1>1, <1>3, <1>7
  <2>2. <<>> \o r = r
    BY OwnRowsFacts, EmptySeq, ConcatEmptySeq
  <2>3. hi = Min({k, d})
    BY <1>1, <1>4
  <2>4. QED
    BY <1>5, <1>6, <1>7, <2>1, <2>2, <2>3
<1>8. CASE lo # c
  <2>1. lo % BlockTokens # 0 /\ lo = m /\ c <= m /\ m <= d /\ m <= hi
    BY <1>1, <1>3, <1>8
  <2>2. Min({m, d}) = m /\ Min({k, d}) = hi
    BY <1>1, <1>4, <2>1
  <2>3. OwnRows(c, m) \o OwnRows(m, hi) = OwnRows(c, hi)
    BY <1>1, <2>1, OwnRowsJoin
  <2>4. QED
    BY <1>5, <1>6, <2>1, <2>2, <2>3
<1>9. QED
  BY <1>7, <1>8

\* The rows lo..hi-1 of a block complete it if they reach its end.
LEMMA CompleteRows ==
    ASSUME NEW b \in Nat, NEW lo \in Nat, NEW hi \in Nat, b * BlockTokens <= lo, lo < hi,
           hi <= (b + 1) * BlockTokens
    PROVE  Complete(OwnRows(lo, hi)) <=> hi = (b + 1) * BlockTokens
<1> DEFINE c == b * BlockTokens
           d == (b + 1) * BlockTokens
           r == OwnRows(lo, hi)
           l == Len(r)
           o == lo % BlockTokens
<1>1. c \in Nat /\ d = c + BlockTokens /\ d \in Nat /\ BlockTokens \in Nat
  BY BlockRows, SpecAssumption
<1>2. l = hi - lo /\ r[1][1] = lo
  <2>1. r[1] = <<lo, TokenAt(lo)>> /\ l = hi - lo
    BY OwnRowsEnds
  <2> HIDE DEF r, l
  <2>2. QED
    BY <2>1
<1>3. o = lo - c
  <2>1. c <= lo /\ lo < d
    <3>1. c <= lo /\ hi <= d
      OBVIOUS
    <3> HIDE DEF c, d
    <3>2. QED
      BY <1>1, <3>1
  <2>2. QED
    BY <2>1, BlockRows
<1>4. Complete(r) <=> o + l >= BlockTokens
  BY <1>2 DEF Complete
<1>5. c <= lo /\ hi <= d
  OBVIOUS
<1> HIDE DEF c, d, r, l, o
<1>6. Complete(r) <=> hi = d
  BY <1>1, <1>2, <1>3, <1>4, <1>5
<1>7. QED
  BY <1>6 DEF d, r

\* The rows of a sequence that did not change.
LEMMA SameRows ==
    ASSUME eos' = eos
    PROVE  /\ \A lo, hi : OwnRows(lo, hi)' = OwnRows(lo, hi)
           /\ \A b, n : AcceptedRows(b, n)' = AcceptedRows(b, n)
           /\ \A p : TokenAt(p)' = TokenAt(p)
  BY DEF OwnRows, AcceptedRows, TokenAt

\* Accumulating the rows n..k-1 behind those before n: every row before k is in
\* the sums or in the accumulator, and at the end in the sums.
LEMMA AccumulateFacts ==
    ASSUME DOMAIN sums \subseteq Nat, NEW m \in Nat, NEW n \in Nat, NEW k \in Nat, m <= n, n <= k,
           MeansAt(m, n), NEW end \in BOOLEAN, Accumulate(OwnRows(n, k), end)
    PROVE  /\ DOMAIN sums' = DOMAIN sums
           /\ \E e \in 0 .. k :
                /\ acc' = OwnRows(e, k)
                /\ \A b \in DOMAIN sums : sums'[b] = AcceptedRows(b, e)
                /\ end => e = k
<1> DEFINE seq == OwnRows(m, k)
           B == BlockOf(Last(seq)[1])
           last == RowsIn(seq, B)
           lo(b) == IF m <= b * BlockTokens THEN b * BlockTokens ELSE m
           hi(b) == IF k <= (b + 1) * BlockTokens THEN k ELSE (b + 1) * BlockTokens
<1>1. acc \o OwnRows(n, k) = seq
  BY OwnRowsJoin DEF MeansAt
<1>2. /\ sums' = [b \in DOMAIN sums |-> IF Flushes(seq, b, end)
                                        THEN Written(sums[b], RowsIn(seq, b)) ELSE sums[b]]
      /\ acc' = IF seq = <<>> \/ end \/ Complete(last) THEN <<>> ELSE last
  BY <1>1 DEF Accumulate
<1>3. DOMAIN sums' = DOMAIN sums
  BY <1>2
<1>4. ASSUME NEW b \in Nat
      PROVE  /\ lo(b) \in Nat /\ hi(b) \in Nat /\ RowsIn(seq, b) = OwnRows(lo(b), hi(b))
             /\ b * BlockTokens <= lo(b) /\ m <= lo(b) /\ hi(b) <= k /\ hi(b) <= (b + 1) * BlockTokens
             /\ b * BlockTokens < (b + 1) * BlockTokens
  <2>1. /\ b * BlockTokens \in Nat /\ (b + 1) * BlockTokens = b * BlockTokens + BlockTokens
        /\ (b + 1) * BlockTokens \in Nat /\ BlockTokens \in Nat \ {0}
    BY BlockRows, SpecAssumption
  <2> DEFINE c == b * BlockTokens
             d == (b + 1) * BlockTokens
             l == lo(b)
             h == hi(b)
  <2>2. c \in Nat /\ d \in Nat /\ c < d /\ l = (IF m <= c THEN c ELSE m) /\ h = (IF k <= d THEN k ELSE d)
    BY <2>1
  <2>3. m <= k
    OBVIOUS
  <2> HIDE DEF c, d, l, h
  <2>4. l \in Nat /\ h \in Nat /\ c <= l /\ m <= l /\ h <= k /\ h <= d
    BY <2>2, <2>3
  <2>5. RowsIn(seq, b) = OwnRows(l, h)
    BY <2>2, <2>3, <2>4, RowsInOwn DEF c, d
  <2>6. QED
    BY <2>2, <2>4, <2>5 DEF c, d, l, h
<1>5. ASSUME NEW b \in Nat, hi(b) <= lo(b) PROVE RowsIn(seq, b) = <<>>
  BY <1>4, <1>5, OwnRowsFacts
<1>6. ASSUME NEW b \in Nat, lo(b) < hi(b) PROVE RowsIn(seq, b) # <<>>
  <2> DEFINE l == lo(b)
             h == hi(b)
             r == OwnRows(l, h)
  <2>1. l \in Nat /\ h \in Nat /\ l < h /\ RowsIn(seq, b) = r
    BY <1>4, <1>6
  <2> HIDE DEF l, h
  <2>2. Len(r) = h - l /\ h - l # 0
    BY <2>1, OwnRowsFacts
  <2>3. r # <<>>
    BY <2>2, EmptySeq
  <2>4. QED
    BY <2>1, <2>3
<1> HIDE DEF lo, hi
<1>7. ASSUME NEW b \in DOMAIN sums
      PROVE  /\ b \in Nat
             /\ Flushes(seq, b, end) <=>
                  lo(b) < hi(b) /\ (end \/ Complete(OwnRows(lo(b), hi(b))) \/ b # B)
             /\ Flushes(seq, b, end) => sums'[b] = AcceptedRows(b, k)
             /\ ~Flushes(seq, b, end) => sums'[b] = AcceptedRows(b, m)
  <2>1. b \in Nat /\ sums[b] = AcceptedRows(b, m)
    BY DEF MeansAt
  <2>2. lo(b) \in Nat /\ hi(b) \in Nat /\ RowsIn(seq, b) = OwnRows(lo(b), hi(b))
    BY <2>1, <1>4
  <2>3. RowsIn(seq, b) # <<>> <=> lo(b) < hi(b)
    BY <2>1, <2>2, <1>5, <1>6
  <2>4. Flushes(seq, b, end) <=>
          lo(b) < hi(b) /\ (end \/ Complete(OwnRows(lo(b), hi(b))) \/ b # B)
    BY <2>2, <2>3 DEF Flushes
  <2>5. ASSUME Flushes(seq, b, end) PROVE sums'[b] = AcceptedRows(b, k)
    <3>1. sums'[b] = Written(AcceptedRows(b, m), OwnRows(lo(b), hi(b)))
      BY <1>2, <2>1, <2>2, <2>5
    <3>2. lo(b) < hi(b)
      BY <2>4, <2>5
    <3>3. QED
      BY <2>1, <2>2, <3>1, <3>2, WrittenRows DEF lo, hi
  <2>6. ASSUME ~Flushes(seq, b, end) PROVE sums'[b] = AcceptedRows(b, m)
    BY <1>2, <2>1, <2>6
  <2>7. QED
    BY <2>1, <2>4, <2>5, <2>6
\* A block without rows from m on has the same rows before m and before e.
<1>8. ASSUME NEW b \in Nat, NEW e \in Nat, m <= e, e <= k, hi(b) <= lo(b)
      PROVE  AcceptedRows(b, m) = AcceptedRows(b, e)
  <2>1. CASE m = e
    BY <2>1
  <2>2. CASE m # e
    <3> DEFINE c == b * BlockTokens
               d == (b + 1) * BlockTokens
    <3>1. c \in Nat /\ d \in Nat /\ c < d
      BY <1>4, BlockRows
    <3>2. (IF k <= d THEN k ELSE d) <= (IF m <= c THEN c ELSE m)
      BY <1>8 DEF lo, hi
    <3> HIDE DEF c, d
    <3>3. d <= m \/ e <= c
      BY <1>8, <2>2, <3>1, <3>2
    <3>4. QED
      BY <1>8, <3>3, SameAccepted DEF c, d
  <2>3. QED
    BY <2>1, <2>2
<1>9. CASE seq = <<>> \/ end \/ Complete(last)
  <2>1. acc' = OwnRows(k, k)
    BY <1>2, <1>9, OwnRowsFacts
  <2>2. ASSUME NEW b \in DOMAIN sums PROVE sums'[b] = AcceptedRows(b, k)
    <3>1. CASE Flushes(seq, b, end)
      BY <1>7, <3>1
    <3>2. CASE ~Flushes(seq, b, end)
      <4>1. CASE hi(b) <= lo(b)
        <5>1. AcceptedRows(b, m) = AcceptedRows(b, k)
          BY <1>7, <1>8, <4>1
        <5>2. QED
          BY <1>7, <3>2, <5>1
      <4>2. CASE ~(hi(b) <= lo(b))
        <5>1. b \in Nat /\ lo(b) < hi(b) /\ RowsIn(seq, b) = OwnRows(lo(b), hi(b))
          BY <1>4, <1>7, <4>2
        <5>2. ~end /\ ~Complete(OwnRows(lo(b), hi(b))) /\ b = B
          BY <1>7, <3>2, <5>1
        <5>3. seq = <<>>
          BY <1>9, <5>1, <5>2
        <5>4. m = k
          <6>1. Len(seq) = k - m /\ Len(<<>>) = 0
            BY OwnRowsFacts
          <6>2. QED
            BY <5>3, <6>1
        <5>5. QED
          BY <1>7, <3>2, <5>4
      <4>3. QED
        BY <4>1, <4>2
    <3>3. QED
      BY <3>1, <3>2
  <2>3. QED
    BY <1>3, <2>1, <2>2
<1>10. CASE ~(seq = <<>> \/ end \/ Complete(last))
  <2>1. m < k
    <3>1. m = k => seq = <<>>
      BY OwnRowsFacts
    <3>2. QED
      BY <1>10, <3>1
  <2>2. Last(seq)[1] = k - 1
    <3> DEFINE l == Len(seq)
    <3>1. l = k - m /\ \A i \in 1 .. k - m : seq[i] = <<m + i - 1, TokenAt(m + i - 1)>>
      <4>1. m <= k
        BY <2>1
      <4>2. QED
        BY <4>1, OwnRowsFacts
    <3> HIDE DEF seq
    <3>2. Last(seq) = seq[l]
      BY DEF Last
    <3> HIDE DEF l
    <3>3. l \in 1 .. k - m /\ m + l - 1 = k - 1
      BY <2>1, <3>1
    <3>4. QED
      BY <3>1, <3>2, <3>3
  <2>3. k - 1 \in Nat /\ B = BlockOf(k - 1)
    BY <2>1, <2>2
  <2> HIDE DEF B
  <2>4. B \in Nat /\ B * BlockTokens \in Nat /\ B * BlockTokens <= k - 1 /\ k - 1 < (B + 1) * BlockTokens
    <3>1. BlockOf(k - 1) \in Nat
      <4>1. 0 \in Nat
        OBVIOUS
      <4>2. QED
        BY <2>3, <4>1, BlockRows
    <3>2. QED
      BY <2>3, <3>1, BlockRows
  <2> DEFINE c == B * BlockTokens
             d == (B + 1) * BlockTokens
             e == lo(B)
  <2>5. e \in Nat /\ e = (IF m <= c THEN c ELSE m) /\ hi(B) = k /\ e < k /\ m <= e /\ c <= e
    <3>1. c \in Nat /\ d \in Nat /\ c <= k - 1 /\ k - 1 < d
      BY <2>4, BlockRows
    <3>2. e = (IF m <= c THEN c ELSE m) /\ hi(B) = (IF k <= d THEN k ELSE d)
      BY DEF lo, hi
    <3> HIDE DEF c, d, e
    <3>3. QED
      BY <2>1, <3>1, <3>2
  <2>6. last = OwnRows(e, k)
    BY <1>4, <2>4, <2>5
  <2>7. acc' = OwnRows(e, k)
    BY <1>2, <1>10, <2>6
  <2>8. ~end /\ ~Complete(OwnRows(e, k))
    BY <1>10, <2>6
  <2>9. ASSUME NEW b \in DOMAIN sums PROVE sums'[b] = AcceptedRows(b, e)
    <3>1. b \in Nat
      BY <1>7
    <3>2. CASE Flushes(seq, b, end)
      <4>1. lo(b) < hi(b) /\ b # B
        <5>1. lo(b) < hi(b) /\ (Complete(OwnRows(lo(b), hi(b))) \/ b # B)
          BY <1>7, <2>8, <3>2
        <5>2. QED
          BY <2>5, <2>8, <5>1
      <4>2. b < B
        <5>1. b * BlockTokens < k
          <6> DEFINE x == b * BlockTokens
                     l == lo(b)
                     h == hi(b)
          <6>1. x \in Nat /\ l \in Nat /\ h \in Nat /\ x <= l /\ l < h /\ h <= k
            BY <1>4, <3>1, <4>1, BlockRows
          <6> HIDE DEF x, l, h
          <6>2. x < k
            BY <6>1
          <6>3. QED
            BY <6>2 DEF x
        <5>2. ASSUME B < b PROVE FALSE
          <6>1. (B + 1) * BlockTokens <= b * BlockTokens
            BY <2>4, <3>1, <5>2, SpecAssumption, TimesMonotone
          <6> DEFINE x == b * BlockTokens
                     y == (B + 1) * BlockTokens
          <6>2. x \in Nat /\ y \in Nat /\ y <= x /\ x < k /\ k - 1 < y
            BY <2>4, <3>1, <5>1, <6>1, BlockRows
          <6> HIDE DEF x, y
          <6>3. QED
            BY <6>2
        <5>3. QED
          BY <2>4, <3>1, <4>1, <5>2
      <4>3. (b + 1) * BlockTokens <= e
        <5>1. (b + 1) * BlockTokens <= c
          BY <2>4, <3>1, <4>2, SpecAssumption, TimesMonotone
        <5> DEFINE y == (b + 1) * BlockTokens
        <5>2. y \in Nat /\ y <= c /\ c \in Nat
          BY <2>4, <3>1, <5>1, BlockRows
        <5> HIDE DEF y, c, e
        <5>3. y <= e
          BY <2>5, <5>2
        <5>4. QED
          BY <5>3 DEF y
      <4>4. e <= k
        <5> HIDE DEF e
        <5>1. QED
          BY <2>5
      <4>5. AcceptedRows(b, e) = AcceptedRows(b, k)
        <5> HIDE DEF e
        <5>1. QED
          BY <2>5, <3>1, <4>3, <4>4, SameAccepted
      <4>6. QED
        BY <1>7, <3>2, <4>5
    <3>3. CASE ~Flushes(seq, b, end)
      <4>1. CASE hi(b) <= lo(b)
        <5>1. e <= k
          <6> HIDE DEF e
          <6>1. QED
            BY <2>5
        <5>2. AcceptedRows(b, m) = AcceptedRows(b, e)
          <6> HIDE DEF e
          <6>1. QED
            BY <1>8, <2>5, <3>1, <4>1, <5>1
        <5>3. QED
          BY <1>7, <3>3, <5>2
      <4>2. CASE ~(hi(b) <= lo(b))
        <5>1. lo(b) < hi(b)
          BY <1>4, <3>1, <4>2
        <5>2. b = B
          BY <1>7, <3>3, <5>1
        <5>3. AcceptedRows(b, m) = AcceptedRows(b, e)
          <6>1. CASE e = m
            BY <6>1
          <6>2. CASE e # m
            <7>1. e <= B * BlockTokens
              <8> HIDE DEF e
              <8>1. QED
                BY <2>5, <6>2
            <7> HIDE DEF e
            <7>2. QED
              BY <2>4, <2>5, <5>2, <7>1, SameAccepted
          <6>3. QED
            BY <6>1, <6>2
        <5>4. QED
          BY <1>7, <3>3, <5>3
      <4>3. QED
        BY <4>1, <4>2
    <3>4. QED
      BY <3>2, <3>3
  <2>10. e \in 0 .. k
    <3> HIDE DEF e
    <3>1. QED
      BY <2>5
  <2>11. QED
    BY <1>3, <2>7, <2>8, <2>9, <2>10
<1>11. QED
  BY <1>9, <1>10

\* What was accumulated before is known as far as it says up to where.
LEMMA MeansAfter ==
    ASSUME DOMAIN sums \subseteq Nat, NEW n \in Nat, NEW k \in Nat, n <= k, MeansUpTo(n),
           NEW end \in BOOLEAN, Accumulate(OwnRows(n, k), end)
    PROVE  /\ DOMAIN sums' = DOMAIN sums
           /\ \E e \in 0 .. k :
                /\ acc' = OwnRows(e, k)
                /\ \A b \in DOMAIN sums : sums'[b] = AcceptedRows(b, e)
                /\ end => e = k
<1>1. PICK m \in 0 .. n : MeansAt(m, n)
  BY DEF MeansUpTo
<1>2. m \in Nat /\ m <= n
  OBVIOUS
<1>3. QED
  BY <1>1, <1>2, AccumulateFacts

\* The sums keep their blocks, whatever is accumulated.
LEMMA SameBlocks ==
    ASSUME NEW new, NEW end, Accumulate(new, end)
    PROVE  DOMAIN sums' = DOMAIN sums
  BY DEF Accumulate

\* The next state's means, in the words of this one's.
LEMMA MeansNext ==
    ASSUME eos' = eos, NEW k \in Nat, Len(hist') = k, DOMAIN sums' = DOMAIN sums,
           \E e \in 0 .. k :
             acc' = OwnRows(e, k) /\ \A b \in DOMAIN sums : sums'[b] = AcceptedRows(b, e)
    PROVE  MeansUpTo(Len(hist))'
<1>1. PICK e \in 0 .. k :
         acc' = OwnRows(e, k) /\ \A b \in DOMAIN sums : sums'[b] = AcceptedRows(b, e)
  OBVIOUS
<1>2. MeansAt(e, Len(hist))'
  <2>1. OwnRows(e, k) = OwnRows(e, Len(hist'))
    OBVIOUS
  <2>2. acc' = OwnRows(e, Len(hist))'
    BY <1>1, <2>1 DEF OwnRows, TokenAt
  <2>3. \A b : AcceptedRows(b, e)' = AcceptedRows(b, e)
    BY SameRows
  <2>4. QED
    BY <1>1, <2>2, <2>3 DEF MeansAt
<1>3. QED
  BY <1>2 DEF MeansUpTo

LEMMA MeansNextRow ==
    ASSUME eos' = eos, NEW k \in Nat, Len(hist') + 1 = k, DOMAIN sums' = DOMAIN sums,
           \E e \in 0 .. k :
             acc' = OwnRows(e, k) /\ \A b \in DOMAIN sums : sums'[b] = AcceptedRows(b, e)
    PROVE  MeansUpTo(Len(hist) + 1)'
<1>1. PICK e \in 0 .. k :
         acc' = OwnRows(e, k) /\ \A b \in DOMAIN sums : sums'[b] = AcceptedRows(b, e)
  OBVIOUS
<1>2. MeansAt(e, Len(hist) + 1)'
  <2>1. OwnRows(e, k) = OwnRows(e, Len(hist') + 1)
    OBVIOUS
  <2>2. acc' = OwnRows(e, Len(hist) + 1)'
    BY <1>1, <2>1 DEF OwnRows, TokenAt
  <2>3. \A b : AcceptedRows(b, e)' = AcceptedRows(b, e)
    BY SameRows
  <2>4. QED
    BY <1>1, <2>2, <2>3 DEF MeansAt
<1>3. QED
  BY <1>2 DEF MeansUpTo

LEMMA MeansNextDone ==
    ASSUME eos' = eos, NEW k \in Nat, nPast' = k, DOMAIN sums' = DOMAIN sums,
           acc' = OwnRows(k, k), \A b \in DOMAIN sums : sums'[b] = AcceptedRows(b, k)
    PROVE  MeansAt(nPast, nPast)'
  BY SameRows DEF MeansAt, OwnRows, AcceptedRows, TokenAt

\* Nothing accumulated, nothing accepted.
LEMMA SameMeans ==
    ASSUME UNCHANGED <<eos, hist, means>>
    PROVE  /\ DOMAIN sums' = DOMAIN sums /\ pending' = pending
           /\ MeansUpTo(Len(hist)) => MeansUpTo(Len(hist))'
           /\ MeansUpTo(Len(hist) + 1) => MeansUpTo(Len(hist) + 1)'
<1>1. eos' = eos /\ hist' = hist /\ pending' = pending /\ acc' = acc /\ sums' = sums
  BY DEF means
<1>2. MeansUpTo(Len(hist)) => MeansUpTo(Len(hist))'
  <2>1. ASSUME NEW m \in 0 .. Len(hist), MeansAt(m, Len(hist)) PROVE MeansUpTo(Len(hist))'
    <3>1. MeansAt(m, Len(hist))'
      <4>1. acc' = OwnRows(m, Len(hist))'
        BY <1>1, <2>1 DEF MeansAt, OwnRows, TokenAt
      <4>2. (\A b \in DOMAIN sums : sums[b] = AcceptedRows(b, m))'
        BY <1>1, <2>1, SameRows DEF MeansAt
      <4>3. QED
        BY <4>1, <4>2 DEF MeansAt
    <3>2. QED
      BY <1>1, <3>1 DEF MeansUpTo
  <2>2. QED
    BY <2>1 DEF MeansUpTo
<1>3. MeansUpTo(Len(hist) + 1) => MeansUpTo(Len(hist) + 1)'
  <2>1. ASSUME NEW m \in 0 .. Len(hist) + 1, MeansAt(m, Len(hist) + 1) PROVE MeansUpTo(Len(hist) + 1)'
    <3>1. MeansAt(m, Len(hist) + 1)'
      <4>1. acc' = OwnRows(m, Len(hist) + 1)'
        BY <1>1, <2>1 DEF MeansAt, OwnRows, TokenAt
      <4>2. (\A b \in DOMAIN sums : sums[b] = AcceptedRows(b, m))'
        BY <1>1, <2>1, SameRows DEF MeansAt
      <4>3. QED
        BY <4>1, <4>2 DEF MeansAt
    <3>2. QED
      BY <1>1, <3>1 DEF MeansUpTo
  <2>2. QED
    BY <2>1 DEF MeansUpTo
<1>4. QED
  BY <1>1, <1>2, <1>3

\* The prompt was counted when it was decoded.
LEMMA InitMeans == Init => MeansInv
<1> SUFFICES ASSUME Init PROVE MeansInv
  OBVIOUS
<1> DEFINE n == prompt - 1
<1>1. n \in Nat
  BY SpecAssumption DEF Init
<1>2. DOMAIN sums \subseteq Nat
  <2>1. DOMAIN sums = {BlockOf(p) : p \in Positions}
    BY DEF Init
  <2>2. Positions \subseteq Nat
    BY DEF Positions
  <2>3. 0 \in Nat
    OBVIOUS
  <2>4. \A p \in Nat : BlockOf(p) \in Nat
    BY <2>3, BlockRows
  <2>5. QED
    BY <2>1, <2>2, <2>4
<1>3. Len(hist) = n
  <2>1. hist = Truth(n)
    BY DEF Init
  <2>2. QED
    BY <1>1, <2>1, TruthFacts
<1>4. MeansAt(n, n)
  <2>1. acc = OwnRows(n, n)
    BY <1>1, OwnRowsFacts DEF Init
  <2>2. \A b \in DOMAIN sums : sums[b] = AcceptedRows(b, n)
    BY DEF Init
  <2>3. QED
    BY <2>1, <2>2 DEF MeansAt
<1>5. MeansUpTo(Len(hist))
  BY <1>1, <1>3, <1>4 DEF MeansUpTo
<1>6. QED
  BY <1>2, <1>5 DEF Init, MeansInv

\* Up to the decoding of a batch, and from it to the verdict, nothing is counted.
LEMMA ProposeMeans ==
    ASSUME MeansInv, Propose \/ Retry PROVE MeansInv'
<1>1. pc = "loop" /\ pc' = "verify" /\ UNCHANGED <<eos, hist, means>>
  BY DEF Propose, Retry
<1>2. QED
  BY <1>1, SameMeans DEF MeansInv

LEMMA SampleMeans ==
    ASSUME MeansInv, Sample PROVE MeansInv'
<1>1. pc = "sample" /\ pc' = "judge" /\ UNCHANGED <<eos, hist, means>>
      /\ UNCHANGED <<draft, idLast>>
  BY DEF Sample
<1>2. Batch' = Batch /\ hist' = hist
  BY <1>1 DEF Batch
<1>3. CASE draft = <<>>
  BY <1>1, <1>3, SameMeans DEF MeansInv
<1>4. CASE draft # <<>>
  <2>1. MeansUpTo(Len(hist))' /\ DOMAIN sums' \subseteq Nat
    BY <1>1, <1>4, SameMeans DEF MeansInv
  <2>2. pending' = [i \in 1 .. Len(Batch) |-> <<Len(hist) + i - 1, Batch[i]>>]
    BY <1>1, <1>4, SameMeans DEF MeansInv
  <2>3. QED
    BY <1>1, <1>2, <1>4, <2>1, <2>2 DEF MeansInv
<1>5. QED
  BY <1>3, <1>4

\* A row decoded alone is counted at once, the rows of a batch wait for the
\* verdict.
LEMMA VerifyMeans ==
    ASSUME DecodeInv, MeansInv, Verify PROVE MeansInv'
<1> DEFINE h == Len(hist)
<1>1. /\ pc = "verify" /\ pc' = "sample" /\ UNCHANGED <<eos, hist, draft, idLast>>
      /\ Accumulate(Ingested, FALSE)
      /\ pending' = IF Len(Batch) = 1 THEN <<>> ELSE Captured
  BY DEF Verify
<1>2. h \in Nat /\ nPast = h /\ idLast = TokenAt(h)
  BY <1>1, LenProperties DEF DecodeInv, SeqsInv, BeforeInv, HistInv, Running
<1>3. DOMAIN sums \subseteq Nat /\ MeansUpTo(h)
  BY <1>1 DEF MeansInv
<1>4. /\ Len(Batch) = Len(draft) + 1 /\ Len(draft) \in Nat /\ Batch[1] = idLast
      /\ draft \in Seq(Tokens)
  BY BatchFacts DEF DecodeInv, SeqsInv
<1>5. CASE draft = <<>>
  <2>1. Len(Batch) = 1
    BY <1>4, <1>5
  <2>2. Ingested = OwnRows(h, h + 1)
    <3>1. Ingested = [i \in 1 .. 1 |-> <<h + i - 1, Batch[i]>>]
      BY <1>2, <2>1 DEF Ingested, Captured
    <3>2. OwnRows(h, h + 1) = [i \in 1 .. 1 |-> <<h + i - 1, TokenAt(h + i - 1)>>]
      <4>1. h + 1 - h = 1
        BY <1>2
      <4>2. QED
        BY <4>1 DEF OwnRows
    <3>3. \A i \in 1 .. 1 : Batch[i] = TokenAt(h + i - 1)
      <4>1. h + 1 - 1 = h
        BY <1>2
      <4>2. Batch[1] = TokenAt(h + 1 - 1)
        BY <1>2, <1>4, <4>1
      <4>3. QED
        BY <4>2
    <3>4. QED
      BY <3>1, <3>2, <3>3
  <2>3. h + 1 \in Nat /\ h <= h + 1
    BY <1>2
  <2>4. Accumulate(OwnRows(h, h + 1), FALSE)
    BY <1>1, <2>2
  <2> HIDE DEF h
  <2>5. /\ DOMAIN sums' = DOMAIN sums
        /\ \E e \in 0 .. h + 1 : /\ acc' = OwnRows(e, h + 1)
                                 /\ \A b \in DOMAIN sums : sums'[b] = AcceptedRows(b, e)
    BY <1>2, <1>3, <2>3, <2>4, MeansAfter
  <2>6. MeansUpTo(Len(hist) + 1)'
    <3>1. Len(hist') + 1 = h + 1 /\ eos' = eos
      BY <1>1 DEF h
    <3>2. QED
      BY <2>3, <2>5, <3>1, MeansNextRow
  <2>7. QED
    BY <1>1, <1>3, <1>5, <2>1, <2>5, <2>6 DEF MeansInv
<1>6. CASE draft # <<>>
  <2>1. Len(Batch) # 1
    BY <1>4, <1>6, EmptySeq
  <2>2. Ingested = OwnRows(h, h)
    BY <1>2, <2>1, OwnRowsFacts DEF Ingested
  <2>3. pending' = [i \in 1 .. Len(Batch) |-> <<h + i - 1, Batch[i]>>]
    BY <1>1, <1>2, <2>1 DEF Captured
  <2>4. Accumulate(OwnRows(h, h), FALSE)
    BY <1>1, <2>2
  <2> HIDE DEF h
  <2>5. /\ DOMAIN sums' = DOMAIN sums
        /\ \E e \in 0 .. h : /\ acc' = OwnRows(e, h)
                             /\ \A b \in DOMAIN sums : sums'[b] = AcceptedRows(b, e)
    <3>1. h <= h
      BY <1>2
    <3>2. QED
      BY <1>2, <1>3, <2>4, <3>1, MeansAfter
  <2>6. MeansUpTo(Len(hist))'
    <3>1. Len(hist') = h /\ eos' = eos
      BY <1>1 DEF h
    <3>2. QED
      BY <1>2, <2>5, <3>1, MeansNext
  <2>7. Batch' = Batch /\ hist' = hist
    BY <1>1 DEF Batch
  <2>8. pending' = [i \in 1 .. Len(Batch') |-> <<Len(hist') + i - 1, Batch'[i]>>]
    BY <2>3, <2>7 DEF h
  <2>9. QED
    BY <1>1, <1>3, <1>6, <2>5, <2>6, <2>8 DEF MeansInv
<1>7. QED
  BY <1>5, <1>6

\* What a verdict keeps of the pending rows: the rows of the confirmed tokens.
LEMMA KeptPending ==
    ASSUME DecodeInv, MeansInv, pc = "judge", draft # <<>>
    PROVE  /\ Len(ids) \in Nat
           /\ Kept(pending, Len(ids)) = OwnRows(Len(hist), Len(hist) + Len(ids))
<1> DEFINE h == Len(hist)
           n == Len(ids)
           q == Len(Batch)
           kept == Keep(Batch, n)
           own == OwnRows(h, h + n)
<1>1. /\ h \in Nat /\ n \in Nat /\ q \in Nat /\ n \in 1 .. q
      /\ hist \in Seq(Tokens) /\ Batch \in Seq(Tokens)
      /\ NewPast = h + n
      /\ \A i \in 1 .. NewPast : (hist \o kept)[i] = TokenAt(i - 1)
  <2>1. hist \in Seq(Tokens) /\ Batch \in Seq(Tokens)
    BY BatchFacts DEF DecodeInv, SeqsInv
  <2>2. h \in Nat /\ q \in Nat
    BY <2>1, LenProperties
  <2>3. QED
    BY <2>1, <2>2, AcceptedRowsKept
<1>2. pending = [i \in 1 .. q |-> <<h + i - 1, Batch[i]>>]
  BY DEF MeansInv
<1>3. kept \in Seq(Tokens) /\ Len(kept) = n /\ \A i \in 1 .. n : kept[i] = Batch[i]
  <2>1. /\ kept \in Seq(Tokens) /\ Len(kept) = IF n < q THEN n ELSE q
        /\ \A i \in 1 .. Len(kept) : kept[i] = Batch[i]
    BY <1>1, KeepFacts
  <2> HIDE DEF kept, n, q
  <2>2. QED
    BY <1>1, <2>1
<1>4. \A i \in 1 .. h + n : (hist \o kept)[i] = IF i <= h THEN hist[i] ELSE kept[i - h]
  <2> HIDE DEF kept
  <2>1. \A i \in 1 .. Len(hist) + Len(kept) :
           (hist \o kept)[i] = IF i <= Len(hist) THEN hist[i] ELSE kept[i - Len(hist)]
    BY <1>1, <1>3, ConcatProperties
  <2>2. QED
    BY <1>3, <2>1
<1> HIDE DEF h, n, q, kept, own
<1>5. ASSUME NEW i \in 1 .. n PROVE Batch[i] = TokenAt(h + i - 1)
  <2> DEFINE j == h + i
  <2>1. j \in 1 .. h + n /\ ~ j <= h /\ j - h = i
    BY <1>1
  <2>2. (hist \o kept)[j] = kept[i]
    BY <1>4, <2>1
  <2>3. (hist \o kept)[j] = TokenAt(j - 1)
    BY <1>1, <2>1
  <2>4. j - 1 = h + i - 1
    BY <1>1
  <2> HIDE DEF j
  <2>5. QED
    BY <1>3, <2>2, <2>3, <2>4
<1>6. \A i \in 1 .. q : h + i - 1 \in Nat /\ Batch[i] \in Tokens
  <2>1. \A i \in 1 .. q : Batch[i] \in Tokens
    BY <1>1, ElementOfSeq DEF q
  <2>2. QED
    BY <1>1, <2>1
<1>7. pending \in Seq(Row) /\ Len(pending) = q
      /\ \A i \in 1 .. q : pending[i] = <<h + i - 1, Batch[i]>>
  <2>1. pending \in [1 .. q -> Row]
    BY <1>2, <1>6 DEF Row
  <2>2. pending \in Seq(Row) /\ Len(pending) = q
    BY <1>1, <2>1
  <2>3. QED
    BY <1>2, <2>2
<1>8. /\ Keep(pending, n) \in Seq(Row) /\ Len(Keep(pending, n)) = n
      /\ \A i \in 1 .. n : Keep(pending, n)[i] = pending[i]
  <2>1. /\ Keep(pending, n) \in Seq(Row)
        /\ Len(Keep(pending, n)) = IF n < Len(pending) THEN n ELSE Len(pending)
        /\ \A i \in 1 .. Len(Keep(pending, n)) : Keep(pending, n)[i] = pending[i]
    BY <1>1, <1>7, KeepFacts
  <2>2. QED
    BY <1>1, <1>7, <2>1
<1>9. own \in Seq(Row) /\ Len(own) = n
      /\ \A i \in 1 .. n : own[i] = <<h + i - 1, TokenAt(h + i - 1)>>
  <2> DEFINE e == h + n
  <2>1. e \in Nat /\ h <= e /\ e - h = n
    BY <1>1
  <2>2. own = OwnRows(h, e)
    BY DEF own
  <2> HIDE DEF e
  <2>3. QED
    BY <1>1, <2>1, <2>2, OwnRowsFacts
<1>10. \A i \in 1 .. n : Keep(pending, n)[i] = own[i]
  <2>1. ASSUME NEW i \in 1 .. n PROVE Keep(pending, n)[i] = own[i]
    <3>1. i \in 1 .. q
      BY <1>1
    <3>2. Keep(pending, n)[i] = <<h + i - 1, Batch[i]>>
      BY <1>7, <1>8, <3>1
    <3>3. QED
      BY <1>5, <1>9, <3>2
  <2>2. QED
    BY <2>1
<1>11. Keep(pending, n) = own
  <2>1. \A i \in 1 .. Len(Keep(pending, n)) : Keep(pending, n)[i] = own[i]
    BY <1>8, <1>10
  <2>2. QED
    BY <1>8, <1>9, <2>1, SeqEqual
<1>12. QED
  BY <1>1, <1>11 DEF own, h, n, Kept

\* An accepted verification counts the confirmed rows and no others.
LEMMA AcceptMeans ==
    ASSUME DecodeInv, MeansInv, Accept PROVE MeansInv'
<1> DEFINE h == Len(hist)
           k == Len(hist')
<1>1. /\ pc = "judge" /\ pc' = "loop" /\ eos' = eos /\ pending' = <<>>
      /\ Accumulate(Kept(pending, Len(ids)), FALSE)
      /\ hist' = hist \o <<idLast>> \o Keep(ids, Len(ids) - 1)
  BY DEF Accept
<1>2. h \in Nat /\ Len(ids) \in Nat /\ k = h + Len(ids)
  <2>1. h \in Nat
    BY LenProperties DEF DecodeInv, SeqsInv
  <2>2. QED
    BY <1>1, <2>1, AcceptedRowsKept
<1>3. DOMAIN sums \subseteq Nat
  BY DEF MeansInv
<1>4. \E n \in Nat : n <= k /\ MeansUpTo(n) /\ Accumulate(OwnRows(n, k), FALSE)
  <2>1. CASE draft = <<>>
    <3>1. Len(ids) = 1
      <4>1. Len(ids) \in 1 .. Len(draft) + 1 /\ Len(draft) = 0
        BY <1>1, <2>1 DEF DecodeInv, JudgeInv
      <4>2. QED
        BY <4>1
    <3>2. pending = <<>> /\ MeansUpTo(h + 1)
      BY <1>1, <2>1 DEF MeansInv
    <3>3. Kept(<<>>, 1) = <<>>
      <4>1. <<>> \in Seq(Tokens) /\ 1 >= Len(<<>>) /\ 1 \in Nat
        OBVIOUS
      <4>2. Keep(<<>>, 1) = <<>>
        BY <4>1, KeepAll
      <4>3. QED
        BY <4>2 DEF Kept
    <3>4. k = h + 1 /\ k \in Nat
      BY <1>2, <3>1
    <3>5. OwnRows(k, k) = <<>>
      <4> HIDE DEF k
      <4>1. k <= k
        BY <3>4
      <4>2. QED
        BY <3>4, <4>1, OwnRowsFacts
    <3>6. Accumulate(OwnRows(k, k), FALSE)
      BY <1>1, <3>1, <3>2, <3>3, <3>5
    <3>7. k <= k /\ MeansUpTo(k)
      BY <3>2, <3>4
    <3>8. QED
      BY <3>4, <3>6, <3>7
  <2>2. CASE draft # <<>>
    <3>1. MeansUpTo(h)
      BY <1>1, <2>2 DEF MeansInv
    <3>2. Accumulate(OwnRows(h, k), FALSE)
      BY <1>1, <1>2, <2>2, KeptPending
    <3>3. h <= k
      <4> HIDE DEF h, k
      <4>1. QED
        BY <1>2
    <3>4. QED
      BY <1>2, <3>1, <3>2, <3>3
  <2>3. QED
    BY <2>1, <2>2
<1> HIDE DEF h, k
<1>5. k \in Nat
  BY <1>2
<1>6. /\ DOMAIN sums' = DOMAIN sums
      /\ \E e \in 0 .. k : /\ acc' = OwnRows(e, k)
                           /\ \A b \in DOMAIN sums : sums'[b] = AcceptedRows(b, e)
  BY <1>3, <1>4, <1>5, MeansAfter
<1>7. MeansUpTo(Len(hist))'
  <2>1. Len(hist') = k
    BY DEF k
  <2>2. QED
    BY <1>1, <1>5, <1>6, <2>1, MeansNext
<1>8. QED
  BY <1>1, <1>3, <1>6, <1>7 DEF MeansInv

\* A restore forgets the pending rows, which were not counted.
LEMMA RestoreMeans ==
    ASSUME DecodeInv, MeansInv, Restore PROVE MeansInv'
<1>1. /\ pc = "judge" /\ pc' = "loop" /\ HostCkpt(draft) /\ Len(ids) - 1 < Len(draft)
      /\ hist' = Keep(hist, ckpt.n) /\ UNCHANGED <<eos, acc, sums>> /\ pending' = <<>>
  BY DEF Restore, Restores
<1>2. draft # <<>>
  <2>1. draft = <<>> => Len(draft) = 0
    OBVIOUS
  <2>2. Len(ids) \in 1 .. Len(draft) + 1
    BY <1>1 DEF DecodeInv, JudgeInv
  <2>3. draft = <<>> => FALSE
    BY <1>1, <2>1, <2>2
  <2>4. QED
    BY <2>3
<1>3. ckpt.n = Len(hist)
  BY <1>1, <1>2 DEF DecodeInv, DraftInv, Running
<1>4. hist' = hist
  <2>1. Len(hist) \in Nat /\ hist \in Seq(Tokens)
    BY LenProperties DEF DecodeInv, SeqsInv
  <2>2. Len(hist) >= Len(hist)
    BY <2>1
  <2>3. QED
    BY <1>1, <1>3, <2>1, <2>2, KeepAll
<1>5. MeansUpTo(Len(hist)) /\ DOMAIN sums \subseteq Nat
  BY <1>1, <1>2 DEF MeansInv
<1>6. MeansUpTo(Len(hist))'
  <2>1. PICK m \in 0 .. Len(hist) : MeansAt(m, Len(hist))
    BY <1>5 DEF MeansUpTo
  <2>2. Len(hist) \in Nat /\ Len(hist') = Len(hist)
    BY <1>4, LenProperties DEF DecodeInv, SeqsInv
  <2>3. /\ m \in 0 .. Len(hist) /\ acc' = OwnRows(m, Len(hist))
        /\ \A b \in DOMAIN sums : sums'[b] = AcceptedRows(b, m)
    BY <1>1, <2>1 DEF MeansAt
  <2>4. DOMAIN sums' = DOMAIN sums /\ eos' = eos
    BY <1>1
  <2> DEFINE h == Len(hist)
  <2>5. h \in Nat /\ Len(hist') = h /\ acc' = OwnRows(m, h) /\ m \in 0 .. h
    BY <2>2, <2>3
  <2> HIDE DEF h
  <2>6. QED
    BY <2>3, <2>4, <2>5, MeansNext
<1>7. QED
  BY <1>1, <1>5, <1>6 DEF MeansInv

\* At the end of the loop the accumulator is flushed too.
LEMMA DoneMeans ==
    ASSUME DecodeInv, MeansInv, Finish \/ Aborted PROVE MeansInv'
<1> DEFINE h == Len(hist)
<1>1. /\ pc = "loop" /\ pc' = "done" /\ Accumulate(<<>>, TRUE)
      /\ UNCHANGED <<eos, hist, nPast>>
  BY DEF Finish, Aborted
<1>2. h \in Nat /\ nPast = h /\ h <= h
  BY <1>1, LenProperties DEF DecodeInv, SeqsInv, BeforeInv
<1>3. DOMAIN sums \subseteq Nat /\ MeansUpTo(h)
  BY <1>1 DEF MeansInv
<1>4. nPast' = h /\ nPast' = Len(hist')
  BY <1>1, <1>2
<1> HIDE DEF h
<1>5. Accumulate(OwnRows(h, h), TRUE)
  BY <1>1, <1>2, OwnRowsFacts
<1>6. /\ DOMAIN sums' = DOMAIN sums
      /\ \E e \in 0 .. h : /\ acc' = OwnRows(e, h)
                           /\ \A b \in DOMAIN sums : sums'[b] = AcceptedRows(b, e)
                           /\ TRUE => e = h
  BY <1>2, <1>3, <1>5, MeansAfter
<1>7. acc' = OwnRows(h, h) /\ \A b \in DOMAIN sums : sums'[b] = AcceptedRows(b, h)
  BY <1>6
<1>8. MeansAt(nPast, nPast)'
  BY <1>1, <1>2, <1>4, <1>6, <1>7, MeansNextDone
<1>9. QED
  BY <1>1, <1>3, <1>4, <1>6, <1>8 DEF MeansInv

\* A generation that failed or was left says nothing of its means.
LEMMA FailedMeans ==
    ASSUME MeansInv, ContextFull \/ DecodeFails \/ ProcessFails \/ FoldFails \/ Abandon
    PROVE  MeansInv'
<1>1. pc' \in {"failed", "abandoned"} /\ \E new : Accumulate(new, TRUE)
  BY DEF ContextFull, DecodeFails, ProcessFails, FoldFails, Abandon, Fails
<1>2. DOMAIN sums' = DOMAIN sums
  BY <1>1, SameBlocks
<1>3. QED
  BY <1>1, <1>2 DEF MeansInv

LEMMA StutterMeans ==
    ASSUME MeansInv, UNCHANGED vars PROVE MeansInv'
<1>1. UNCHANGED <<eos, hist, means>> /\ UNCHANGED <<pc, draft, idLast, nPast>>
  BY DEF vars
<1>2. Batch' = Batch /\ hist' = hist /\ UNCHANGED <<pending, acc, sums>>
  BY <1>1 DEF Batch, means
<1>3. /\ MeansUpTo(Len(hist)) => MeansUpTo(Len(hist))'
      /\ MeansUpTo(Len(hist) + 1) => MeansUpTo(Len(hist) + 1)'
  BY <1>1, SameMeans
<1>4. MeansAt(nPast, nPast) => MeansAt(nPast, nPast)'
  BY <1>1, <1>2 DEF MeansAt, OwnRows, AcceptedRows, TokenAt
<1>5. QED
  BY <1>1, <1>2, <1>3, <1>4 DEF MeansInv

LEMMA NextMeans ==
    ASSUME DecodeInv, MeansInv, [Next]_vars PROVE MeansInv'
<1>1. CASE Run
  BY <1>1, ProposeMeans, SampleMeans, VerifyMeans, RestoreMeans, AcceptMeans, DoneMeans,
     FailedMeans DEF Run
<1>2. CASE Interrupted
  BY <1>2, FailedMeans, DoneMeans DEF Interrupted
<1>3. CASE UNCHANGED vars
  BY <1>3, StutterMeans
<1>4. QED
  BY <1>1, <1>2, <1>3 DEF Next

-----------------------------------------------------------------------------
(* The theorems.                                                           *)

\* DecodeInv holds in every state of every generation.
THEOREM DecodeInvariant == Spec => []DecodeInv
<1>1. Init => DecodeInv
  BY InitDecode
<1>2. DecodeInv /\ [Next]_vars => DecodeInv'
  BY NextDecode
<1>3. QED
  BY <1>1, <1>2, PTL DEF Spec

\* Between two verifications the target's rows, the draft model's rows, the
\* recurrent state and the cursor are at exactly the accepted history, in
\* every mode and for any number of planes and any drafts.
THEOREM StateFollowsHistory == Spec => []StateIsHistory
<1>1. DecodeInv => StateIsHistory
  BY DEF DecodeInv, BeforeInv, StateIsHistory
<1>2. QED
  BY <1>1, DecodeInvariant, PTL

\* The sampler has accepted the emitted text and nothing else, also through
\* rejected drafts and restores.
THEOREM SamplerSeesText == Spec => []SamplerFollowsText
<1>1. DecodeInv => SamplerFollowsText
  BY DEF DecodeInv, BeforeInv, SamplerFollowsText
<1>2. QED
  BY <1>1, DecodeInvariant, PTL

\* MeansInv holds in every state of every generation.
THEOREM MeansInvariant == Spec => []MeansInv
<1>1. Init => MeansInv
  BY InitMeans
<1>2. DecodeInv /\ MeansInv /\ [Next]_vars => MeansInv'
  BY NextMeans
<1>3. QED
  BY <1>1, <1>2, DecodeInvariant, PTL DEF Spec

\* When a generation ends, or the client leaves between two verifications, the
\* mean-K sums hold each accepted row once, in its block, and no rejected one.
THEOREM AcceptedMeans == Spec => []MeansAreAccepted
<1>1. MeansInv => MeansAreAccepted
  BY DEF MeansInv, MeansAt, MeansAreAccepted
<1>2. QED
  BY <1>1, MeansInvariant, PTL

\* The tokens the target chooses behind the prompt, what the substitution
\* for GreedyDecoding's choice stands for.
OwnTokens == [i \in 1 .. NPredict |-> TokenAt(prompt - 1 + i)]

LEMMA OwnTokensFacts ==
    /\ OwnTokens \in Seq(Tokens) /\ Len(OwnTokens) = NPredict /\ NPredict \in Nat
    /\ \A i \in 1 .. NPredict : OwnTokens[i] = TokenAt(prompt - 1 + i)
<1>1. NPredict \in Nat
  BY SpecAssumption
<1>2. \A i \in 1 .. NPredict : TokenAt(prompt - 1 + i) \in Tokens
  BY DEF TokenAt, Tokens
<1>3. QED
  BY <1>1, <1>2 DEF OwnTokens

LEMMA InitGreedy == Init => Greedy!Init
<1> SUFFICES ASSUME Init PROVE Greedy!Init
  OBVIOUS
<1>1. text = <<>> /\ ~Over
  BY DEF Init, Over
<1>2. QED
  BY <1>1, OwnTokensFacts DEF Greedy!Init, OwnTokens

\* An accepted verification emits its run of tokens, or none if it
\* confirmed the end token alone.
LEMMA AcceptGreedy ==
    ASSUME DecodeInv, Accept
    PROVE  [Greedy!Next]_(Greedy!vars)
<1>1. /\ \E n \in Nat : Len(text') = Len(text) + n /\ Len(text) + n <= NPredict
      /\ text' \in Seq(Tokens)
      /\ \A i \in 1 .. Len(text) : text'[i] = text[i]
      /\ \A i \in 1 .. Len(text') : text'[i] = TokenAt(prompt - 1 + i) /\ text'[i] # "e"
  BY EmittedTokens
<1>2. PICK n \in Nat : Len(text') = Len(text) + n /\ Len(text) + n <= NPredict
  BY <1>1
<1>3. /\ Len(text) \in Nat /\ text \in Seq(Tokens) /\ NPredict \in Nat
  BY SpecAssumption, LenProperties DEF DecodeInv, SeqsInv
<1>4. ~Over /\ ~Over' /\ UNCHANGED <<prompt, eos>>
  BY DEF Accept, Over
<1>5. OwnTokens' = OwnTokens
  BY <1>4 DEF OwnTokens, TokenAt
<1>6. /\ OwnTokens \in Seq(Tokens) /\ Len(OwnTokens) = NPredict
      /\ \A i \in 1 .. NPredict : OwnTokens[i] = TokenAt(prompt - 1 + i)
  BY OwnTokensFacts
<1>7. CASE n = 0
  <2>1. text' = text
    BY <1>1, <1>2, <1>3, <1>7, SeqEqual
  <2>2. QED
    BY <1>4, <1>5, <2>1 DEF Greedy!vars, OwnTokens, Over
<1>8. CASE n # 0
  <2> DEFINE m == Len(text) + n
  <2>1. m \in Nat /\ m <= NPredict /\ n \in 1 .. NPredict /\ m >= 1
    BY <1>2, <1>3, <1>8
  <2>2. \A i \in 1 .. m : i \in 1 .. NPredict /\ OwnTokens[i] = text'[i] /\ OwnTokens[i] # "e"
    BY <1>1, <1>2, <1>6, <2>1
  <2>3. /\ SubSeq(OwnTokens, 1, m) \in Seq(Tokens) /\ Len(SubSeq(OwnTokens, 1, m)) = m
        /\ \A i \in 1 .. m : SubSeq(OwnTokens, 1, m)[i] = OwnTokens[i]
    <3> HIDE DEF m
    <3>1. \A i \in 1 .. m : OwnTokens[i] \in Tokens
      BY <1>6, <2>2 DEF TokenAt, Tokens
    <3>2. /\ SubSeq(OwnTokens, 1, m) \in Seq(Tokens)
          /\ Len(SubSeq(OwnTokens, 1, m)) = IF 1 <= m THEN m - 1 + 1 ELSE 0
          /\ \A i \in 1 .. m - 1 + 1 : SubSeq(OwnTokens, 1, m)[i] = OwnTokens[1 + i - 1]
      BY <2>1, <3>1, SubSeqProperties
    <3>3. m - 1 + 1 = m /\ \A i \in 1 .. m : 1 + i - 1 = i
      BY <2>1
    <3>4. QED
      BY <2>1, <3>2, <3>3
  <2>4. text' = SubSeq(OwnTokens, 1, m)
    <3>1. Len(text') = m
      BY <1>2
    <3> HIDE DEF m
    <3>2. QED
      BY <1>1, <2>2, <2>3, <3>1, SeqEqual
  <2>5. \A i \in Len(text) + 1 .. Len(text) + n : i \in 1 .. m
    BY <1>3, <2>1
  <2>6. Greedy!Emit(n)
    BY <1>2, <1>4, <1>5, <2>2, <2>4, <2>5 DEF Greedy!Emit, OwnTokens, Over
  <2>7. QED
    BY <2>1, <2>6 DEF Greedy!Next
<1>9. QED
  BY <1>7, <1>8

\* Every other step leaves the text alone, and returns if it ends the loop.
LEMMA StepGreedy ==
    ASSUME DecodeInv, [Next]_vars
    PROVE  [Greedy!Next]_(Greedy!vars)
<1>1. CASE Accept
  BY <1>1, AcceptGreedy
<1>2. ASSUME UNCHANGED <<prompt, eos, text>>, Over' = Over
      PROVE  [Greedy!Next]_(Greedy!vars)
  BY <1>2 DEF Greedy!vars, TokenAt
<1>3. ASSUME UNCHANGED <<prompt, eos, text>>, ~Over, Over'
      PROVE  [Greedy!Next]_(Greedy!vars)
  BY <1>3 DEF Greedy!Next, Greedy!Return, TokenAt
<1>4. CASE Propose \/ Retry \/ Verify \/ Sample \/ Restore
  <2>1. UNCHANGED <<prompt, eos, text>> /\ ~Over /\ ~Over'
    BY <1>4 DEF Propose, Retry, Verify, Sample, Restore, Over
  <2>2. QED
    BY <1>2, <2>1 DEF Over
<1>5. CASE ContextFull \/ DecodeFails \/ ProcessFails \/ FoldFails
           \/ Abandon \/ Finish \/ Aborted
  <2>1. UNCHANGED <<prompt, eos, text>> /\ ~Over /\ Over'
    BY <1>5 DEF ContextFull, DecodeFails, ProcessFails, FoldFails, Abandon, Finish,
       Aborted, Fails, Over
  <2>2. QED
    BY <1>3, <2>1
<1>6. CASE UNCHANGED vars
  <2>1. UNCHANGED <<prompt, eos, text, pc>>
    BY <1>6 DEF vars
  <2>2. QED
    BY <1>2, <2>1 DEF Over
<1>7. QED
  BY <1>1, <1>4, <1>5, <1>6 DEF Next, Run, Interrupted

\* Speculation changes nothing of what is generated: the emitted text
\* grows by the target's own next tokens and a generation returns once.
THEOREM GreedyText == Spec => IsGreedyDecoding
<1>1. Init => Greedy!Init
  BY InitGreedy
<1>2. DecodeInv /\ [Next]_vars => [Greedy!Next]_(Greedy!vars)
  BY StepGreedy
<1>3. QED
  BY <1>1, <1>2, DecodeInvariant, PTL DEF Spec, IsGreedyDecoding, Greedy!Spec
=============================================================================

----------------------------- MODULE SpecDecode -----------------------------
(***************************************************************************)
(* kvmem_spec_generate: the MTP draft proposes tokens, one target batch    *)
(* verifies them, and everything the rejected ones touched is rolled back: *)
(* the attention rows of target and draft, the store, the sampler and the  *)
(* recurrent (GDN) state, by the mechanism kvmem_spec_start chose.         *)
(* With it the mean-K statistics of accepted tokens (decode_mean).         *)
(*                                                                         *)
(* A token is the target's own choice at its position ("t", or "e" where   *)
(* that choice ends the generation) or another one ("x").  Row i of a      *)
(* sequence is position i - 1.                                             *)
(***************************************************************************)
EXTENDS Integers, Sequences, SequencesExt, FiniteSetsExt

CONSTANTS
    Modes,       \* rollback mechanisms, a subset of AllModes
    NMax,        \* opts.n_max: drafted tokens at most
    Planes,      \* what n_rs_seq, the number of GDN planes, may be
    NPredict,    \* n_predict
    NCtx,        \* n_ctx
    BlockTokens, \* block_tokens_
    Prompts,     \* lengths of the prompt
    MaxFaults    \* bound: calls that fail

AllModes == {"replay", "planes", "host", "dense"}

ASSUME SpecAssumption ==
    /\ Modes \subseteq AllModes /\ NMax \in Nat /\ Planes \subseteq Nat
    /\ NPredict \in Nat \ {0} /\ NCtx \in Nat /\ BlockTokens \in Nat \ {0}
    /\ Prompts \subseteq Nat \ {0} /\ MaxFaults \in Nat

VARIABLES
    mode,     \* the mechanism kvmem_spec_start chose
    NRs,      \* n_rs_seq, in mode "planes"
    prompt,   \* length of the prompt; its last token is not decoded yet
    eos,      \* position of the target's end-of-generation token
    hist,     \* prompt_tgt
    idLast,   \* id_last
    nPast,    \* n_past
    draft,    \* draft
    ckpt,     \* ckpt: n_tokens, and the GDN state taken with it, if any
    attn,     \* rows of the target's attention cache; the store counts them
    dft,      \* rows of the draft model's cache
    recur,    \* tokens the GDN state has consumed
    record,   \* tokens recorded and not folded, in mode "replay"
    smpl,     \* tokens the sampler has accepted
    saved,    \* smpl_save: its clone from before
    ids,      \* what a verification confirmed and chose
    text,     \* tokens given to on_token
    pending,  \* decode_mean_pending_pos_, with the tokens decoded there
    acc,      \* rows in the mean accumulator
    sums,     \* k_sum of each block in the raw store: the rows it holds
    pc,       \* "loop", "verify", "sample", "judge"; "done", "abandoned", "failed"
    faults

rows  == <<attn, dft, recur, record>>
means == <<pending, acc, sums>>
sampler == <<smpl, saved, ids>>
vars == <<mode, NRs, prompt, eos, hist, idLast, nPast, draft, ckpt, rows, sampler,
          text, means, pc, faults>>

Positions == 0 .. NCtx + NMax + 1
BlockOf(p) == p \div BlockTokens

\* The target's own token at position p, and its first n tokens.
TokenAt(p) == IF p = eos THEN "e" ELSE "t"
Truth(n)   == [i \in 1 .. n |-> TokenAt(i - 1)]

\* Rows lo..hi-1 of the target's own sequence, and those of block b before row n:
\* what the mean-K sums should hold, each row once, in its block.
OwnRows(lo, hi) == [i \in 1 .. hi - lo |-> <<lo + i - 1, TokenAt(lo + i - 1)>>]
AcceptedRows(b, n) == OwnRows(b * BlockTokens, Min({n, (b + 1) * BlockTokens}))

\* The kept rows of a sequence: remove_logical(n, -1), truncate_cached(n).
Keep(seq, n) == SubSeq(seq, 1, IF n < Len(seq) THEN n ELSE Len(seq))

Recurrent == mode # "dense"

Init ==
    /\ mode \in Modes /\ prompt \in Prompts
    /\ IF mode = "planes" THEN NRs \in Planes ELSE NRs = 0
    /\ eos \in prompt .. prompt + NPredict
    /\ hist = Truth(prompt - 1) /\ idLast = TokenAt(prompt - 1)
    /\ nPast = prompt - 1
    /\ draft = <<>> /\ ckpt = [n |-> 0, recur |-> <<>>]
    /\ attn = hist /\ dft = hist
    /\ recur = IF Recurrent THEN hist ELSE <<>>
    /\ record = <<>> /\ smpl = <<>> /\ saved = <<>> /\ ids = <<>>
    /\ text = <<>>
    /\ pending = <<>> /\ acc = <<>>
    /\ sums = [b \in {BlockOf(p) : p \in Positions} |-> AcceptedRows(b, prompt - 1)]
    /\ pc = "loop" /\ faults = 0

-----------------------------------------------------------------------------
(* Mean K of accepted tokens.                                              *)

\* The rows of block b among rows of consecutive positions.
RowsIn(seq, b) ==
    LET in == {i \in 1 .. Len(seq) : BlockOf(seq[i][1]) = b}
    IN  IF in = {} THEN <<>> ELSE SubSeq(seq, Min(in), Max(in))
Complete(seq) == (seq[1][1] % BlockTokens) + Len(seq) >= BlockTokens

\* A block's accumulated rows are flushed when the block is complete or
\* another one begins (decode_mean_add_range), or at the end.
Flushes(seq, b, end) ==
    /\ RowsIn(seq, b) # <<>>
    /\ end \/ Complete(RowsIn(seq, b)) \/ b # BlockOf(Last(seq)[1])

\* write_layer_mean_sum adds the rows to the block's sum, which it clears
\* first when they begin the block.
Written(sum, seq) == (IF seq[1][1] % BlockTokens = 0 THEN <<>> ELSE sum) \o seq

\* Rows are accumulated behind those of acc; of the last block they stay in acc
\* if it is not complete.
Accumulate(new, end) ==
    LET seq == acc \o new
        last == RowsIn(seq, BlockOf(Last(seq)[1]))
    IN  /\ sums' = [b \in DOMAIN sums |-> IF Flushes(seq, b, end)
                                         THEN Written(sums[b], RowsIn(seq, b)) ELSE sums[b]]
        /\ acc' = IF seq = <<>> \/ end \/ Complete(last) THEN <<>> ELSE last

\* Mutant of Kept: every verified row counts.
KeptAll(pend, n) == pend
\* decode_mean_commit keeps the first n pending rows.
Kept(pend, n) == Keep(pend, n)

-----------------------------------------------------------------------------
(* The loop.                                                               *)

MayGoOn == Len(text) < NPredict /\ idLast # "e"

DraftRoom == Min({NMax, Max({0, Min({NCtx - nPast - 2, NPredict - Len(text) - 1})})})

\* Mutant of HostCkpt: off by one.
HostCkptOffByOne(d) == mode = "host" \/ (mode = "planes" /\ Len(d) >= NRs)
\* The host checkpoint is used when the GDN planes cannot undo the draft.
HostCkpt(d) == mode = "host" \/ (mode = "planes" /\ Len(d) > NRs)

DraftCkpt(d) == [n |-> Len(hist), recur |-> IF HostCkpt(d) /\ d # <<>> THEN recur ELSE <<>>]

\* A draft from any model: at each position the target's token or another.
Propose ==
    /\ pc = "loop" /\ MayGoOn /\ draft = <<>>
    /\ \E n \in 0 .. DraftRoom : \E wrong \in SUBSET (1 .. n) :
          LET d == [i \in 1 .. n |->
                      IF i \in wrong THEN "x" ELSE TokenAt(nPast + i)]
          IN draft' = d /\ ckpt' = DraftCkpt(d)
    /\ dft' = Keep(dft, Len(hist))
    /\ pc' = "verify"
    /\ UNCHANGED <<mode, NRs, prompt, eos, hist, idLast, nPast, attn, recur, record,
                   sampler, text, means, faults>>

\* After a restore the accepted tokens are verified again.
Retry ==
    /\ pc = "loop" /\ MayGoOn /\ draft # <<>> /\ pc' = "verify"
    /\ UNCHANGED <<mode, NRs, prompt, eos, hist, idLast, nPast, draft, ckpt, rows,
                   sampler, text, means, faults>>

Batch == <<idLast>> \o draft

\* llama_decode of the batch at nPast, and what the capture keeps of it: a
\* batch of one row is committed to the means at once (decode_mean_ingest).
Decoded ==
    /\ attn' = attn \o Batch
    /\ recur' = IF mode \in {"planes", "host"} THEN recur \o Batch ELSE recur
Captured == [i \in 1 .. Len(Batch) |-> <<nPast + i - 1, Batch[i]>>]
Ingested == IF Len(Batch) = 1 THEN Captured ELSE <<>>

\* gdn_replay_begin, llama_decode, common_speculative_process.
Verify ==
    /\ pc = "verify" /\ nPast + Len(Batch) <= NCtx
    /\ Decoded /\ dft' = Keep(dft, nPast) \o Batch
    /\ record' = IF mode = "replay" THEN Batch ELSE <<>>
    /\ nPast' = nPast + 1
    /\ Accumulate(Ingested, FALSE)
    /\ pending' = IF Len(Batch) = 1 THEN <<>> ELSE Captured
    /\ pc' = "sample"
    /\ UNCHANGED <<mode, NRs, prompt, eos, hist, idLast, draft, ckpt, sampler, text, faults>>

\* A failure leaves the loop; the rows are left to the caller, and the
\* replay transaction folds nothing.
Fails(new) ==
    /\ pc' = "failed" /\ Accumulate(new, TRUE) /\ pending' = <<>> /\ record' = <<>>
    /\ UNCHANGED <<mode, NRs, prompt, eos, hist, idLast, draft, ckpt, dft, text>>

ContextFull ==
    /\ pc = "verify" /\ nPast + Len(Batch) > NCtx
    /\ nPast' = nPast + 1 /\ Fails(<<>>) /\ UNCHANGED <<attn, recur, sampler, faults>>

Fault == faults < MaxFaults /\ faults' = faults + 1

DecodeFails ==
    /\ pc = "verify" /\ Fault
    /\ nPast' = nPast + 1 /\ Fails(<<>>) /\ UNCHANGED <<attn, recur, sampler>>

ProcessFails ==
    /\ pc = "verify" /\ nPast + Len(Batch) <= NCtx /\ Fault
    /\ Decoded /\ nPast' = nPast + 1 /\ Fails(Ingested) /\ UNCHANGED sampler

(* common_sampler_sample_and_accept_n: what the target chooses behind each *)
(* row of the batch, up to the first draft token it disagrees with.        *)

First == nPast - 1               \* logical_positions[0]

\* Row i of the batch and everything before it are the target's own.
Good(i) ==
    /\ Keep(attn, First + i) = Truth(First + i)
    /\ Recurrent => LET consumed == IF mode = "replay" THEN recur \o record ELSE recur
                    IN Keep(consumed, First + i) = Truth(First + i)

Choice(i) == IF Good(i) THEN TokenAt(First + i) ELSE "x"

Sampled ==
    LET last == Min({i \in 1 .. Len(Batch) :
                       i = Len(Batch) \/ Choice(i) # draft[i]})
    IN [i \in 1 .. last |-> Choice(i)]

\* ids: at most what is left to predict, and nothing behind an end token.
Ids ==
    LET n == Min({Len(Sampled), NPredict - Len(text)})
        ends == {i \in 1 .. n : Sampled[i] = "e"}
    IN Keep(Sampled, IF ends = {} THEN n ELSE Min(ends))

Sample ==
    /\ pc = "sample"
    /\ saved' = smpl /\ smpl' = smpl \o Sampled /\ ids' = Ids
    /\ pc' = "judge"
    /\ UNCHANGED <<mode, NRs, prompt, eos, hist, idLast, nPast, draft, ckpt, rows,
                   text, means, faults>>

Restores == HostCkpt(draft) /\ Len(ids) - 1 < Len(draft)

\* Mutants of RestoredRecur and RestoredSmpl: not restored.
RestoredRecurNot == recur
RestoredSmplNot == smpl
\* What a restore puts back: the checkpointed GDN state, the sampler's clone.
RestoredRecur == ckpt.recur
RestoredSmpl == saved

Restore ==
    /\ pc = "judge" /\ Restores
    /\ pending' = <<>> /\ draft' = ids
    /\ recur' = RestoredRecur
    /\ smpl' = RestoredSmpl /\ saved' = <<>> /\ ids' = <<>>
    /\ attn' = Keep(attn, ckpt.n) /\ dft' = Keep(dft, ckpt.n)
    /\ hist' = Keep(hist, ckpt.n) /\ nPast' = ckpt.n
    /\ pc' = "loop"
    /\ UNCHANGED <<mode, NRs, prompt, eos, idLast, ckpt, record, text, acc, sums, faults>>

\* remove_logical rolls the GDN planes back over the rejected rows, if they
\* are not more than the planes.
RolledBack(seq, n) ==
    IF mode = "planes" /\ Len(seq) > n /\ Len(seq) - n <= NRs THEN Keep(seq, n) ELSE seq

\* gdn_replay_commit folds the accepted tokens into the GDN state.
Folded(n) == IF mode = "replay" THEN recur \o Keep(record, n) ELSE recur

NewPast == First + Len(ids)

KeptRows(seq, n) == Keep(seq, n)

Accept ==
    /\ pc = "judge" /\ ~Restores
    /\ saved' = <<>> /\ ids' = <<>> /\ UNCHANGED smpl
    /\ recur' = RolledBack(Folded(Len(ids)), NewPast) /\ record' = <<>>
    /\ Accumulate(Kept(pending, Len(ids)), FALSE) /\ pending' = <<>>
    /\ nPast' = NewPast
    /\ hist' = hist \o <<idLast>> \o Keep(ids, Len(ids) - 1)
    /\ idLast' = ids[Len(ids)]
    /\ text' = text \o (IF idLast' = "e" THEN Keep(ids, Len(ids) - 1) ELSE ids)
    /\ attn' = KeptRows(attn, NewPast) /\ dft' = KeptRows(dft, NewPast)
    /\ draft' = <<>> /\ pc' = "loop"
    /\ UNCHANGED <<mode, NRs, prompt, eos, ckpt, faults>>

\* The fold fails: the recurrent state is poisoned.
FoldFails ==
    /\ pc = "judge" /\ mode = "replay" /\ Fault
    /\ Fails(<<>>)
    /\ UNCHANGED <<nPast, attn, recur, sampler>>

\* With replay an abort is seen after the verification too: nothing is
\* folded, and the batch's rows are removed.
Abandon ==
    /\ pc = "judge" /\ mode = "replay"
    /\ record' = <<>>
    /\ nPast' = First /\ attn' = Keep(attn, First) /\ dft' = Keep(dft, First)
    /\ Accumulate(<<>>, TRUE) /\ pending' = <<>>
    /\ pc' = "abandoned"
    /\ UNCHANGED <<mode, NRs, prompt, eos, hist, idLast, draft, ckpt, recur, sampler, text, faults>>

\* The loop ends: everything is generated, or the client is gone.
Finish ==
    /\ pc = "loop" /\ ~MayGoOn
    /\ Accumulate(<<>>, TRUE) /\ pending' = <<>> /\ pc' = "done"
    /\ UNCHANGED <<mode, NRs, prompt, eos, hist, idLast, nPast, draft, ckpt, rows,
                   sampler, text, faults>>
Aborted ==
    /\ pc = "loop" /\ MayGoOn
    /\ Accumulate(<<>>, TRUE) /\ pending' = <<>> /\ pc' = "done"
    /\ UNCHANGED <<mode, NRs, prompt, eos, hist, idLast, nPast, draft, ckpt, rows,
                   sampler, text, faults>>

Run == \/ Propose \/ Retry \/ Verify \/ ContextFull
       \/ Sample \/ Restore \/ Accept \/ Finish
Interrupted == DecodeFails \/ ProcessFails \/ FoldFails \/ Abandon \/ Aborted
Next == Run \/ Interrupted

\* The loop runs on; clients need not disconnect and calls need not fail.
Spec == Init /\ [][Next]_vars /\ WF_vars(Run)

-----------------------------------------------------------------------------
(* Properties.                                                             *)

Tokens == {"t", "e", "x"}
TypeOK ==
    /\ mode \in Modes /\ NRs \in Planes \cup {0} /\ nPast \in 0 .. NCtx + 1
    /\ Range(hist \o draft \o attn \o dft \o recur \o record \o text) \subseteq Tokens
    /\ Len(draft) <= NMax /\ Len(attn) <= NCtx /\ Len(text) <= NPredict
    /\ \A b \in DOMAIN sums : \A r \in Range(sums[b]) : r \in Positions \X Tokens

\* Between two verifications every memory holds exactly the accepted
\* history: target rows, draft rows, the GDN state and the cursor, whatever
\* was drafted and by whichever mechanism it was undone.
StateIsHistory ==
    pc = "loop" => /\ attn = hist /\ dft = hist /\ Len(hist) = nPast
                   /\ Recurrent => recur = hist
                   /\ record = <<>>

\* The sampler has seen what was emitted (and the end token), no rejected
\* draft and no accepted token twice: its penalties and its grammar state
\* follow the text, also through a restore.
SamplerFollowsText ==
    pc = "loop" /\ idLast # "e" => smpl = text

\* The mean-K sums hold each accepted row once, in its block, and no
\* rejected one ("Accepted tokens only", decode_mean_commit).
MeansAreAccepted ==
    pc = "done" => \A b \in DOMAIN sums : sums[b] = AcceptedRows(b, nPast)

\* The same when the client left during a verification.
AbandonedMeansAreAccepted ==
    pc = "abandoned" => \A b \in DOMAIN sums : sums[b] = AcceptedRows(b, nPast)

Over == pc \in {"done", "abandoned", "failed"}

\* A generation whose client stays returns, as long as a rejected draft is
\* undone without a host checkpoint.
GenerationEnds ==
    (pc = "loop" /\ mode # "host" /\ (mode = "planes" => NRs >= NMax)) ~> Over

\* The same with host checkpoints ("follow-up tokens neither crash nor get
\* out of order" after a restore).
RestoredGenerationEnds == (pc = "loop") ~> Over

\* Speculation changes nothing of what is generated.
Greedy == INSTANCE GreedyDecoding WITH
    choice <- [i \in 1 .. NPredict |-> TokenAt(prompt - 1 + i)],
    Token <- Tokens, EndToken <- "e", text <- text, over <- Over
IsGreedyDecoding == Greedy!Spec
=============================================================================

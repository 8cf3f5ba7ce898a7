----------------------------- MODULE BlockMeans -----------------------------
(***************************************************************************)
(* The mean keys the host store keeps for retrieval: for every block a sum *)
(* of key rows and the number of rows it counts for (RawKvStore, k_sum and *)
(* mean_tokens).  The sum is modelled by the set of <<row, token>> in it.  *)
(* Rows arrive in order; going back to an earlier row clears the sum of    *)
(* the block that is cut, because rows cannot be taken out of a sum.       *)
(***************************************************************************)
EXTENDS Integers, Sequences, SequencesExt

CONSTANTS
    BlockTokens,    \* rows of a block
    LastBlock,      \* the last block a run reaches
    None            \* the tail of a checkpoint at a block boundary

Blocks == 0..LastBlock
NoMean == [n |-> 0, rows |-> {}]
NoMeans == [b \in Blocks |-> NoMean]

\* add_mean_f32: take rows from offset off of a block on.
AddMean(mean, off, take, rows) ==
    IF off = 0 THEN [n |-> take, rows |-> rows]
    ELSE [n |-> Max({mean.n, off + take}), rows |-> mean.rows \cup rows]

\* write_layer_mean_k: rows from.. are added block by block, lo..hi-1 to block b.
AddMeans(mean, from, toks) ==
    [b \in Blocks |->
        LET lo == Max({from, b * BlockTokens})
            hi == Min({from + Len(toks), (b + 1) * BlockTokens})
            rows == {<<r, toks[r - from + 1]>> : r \in lo .. hi - 1}
        IN  IF hi <= lo THEN mean[b]
            ELSE AddMean(mean[b], lo - b * BlockTokens, hi - lo, rows)]

TruncateMean(mean, row) ==
    [b \in Blocks |->
        IF \/ b * BlockTokens >= row
           \/ b = row \div BlockTokens /\ mean[b].n > row % BlockTokens
        THEN NoMean ELSE mean[b]]

TailMean(mean, row) == IF row % BlockTokens = 0 THEN None ELSE mean[row \div BlockTokens]

\* A rollback that forgets the mean of the cut block.
SetTailMeanNot(mean, row, tail) == mean

SetTailMean(mean, row, tail) ==
    IF tail = None THEN mean ELSE [mean EXCEPT ![row \div BlockTokens] = tail]
=============================================================================

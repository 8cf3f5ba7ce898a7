---------------------------- MODULE PackedCopies ----------------------------
(***************************************************************************)
(* Where the bytes of a row are.  The adapter keeps a row of K and V in a  *)
(* GPU slot while its block is resident, and a packed copy of the block in *)
(* the host store: full blocks are copied ahead of time through a staging  *)
(* slab (stage-out), evicted ones at the latest when they leave.  A        *)
(* selection evicts, admits, moves the residents into position order and   *)
(* rewrites the others from their packed copies.                           *)
(*                                                                         *)
(* Which blocks are selected is KvMemRuntime's subject; here a plan keeps  *)
(* any set of blocks that fits the budget.  A block can have a slot        *)
(* and no cells: a plan made under prefill pressure seats blocks without   *)
(* their bytes, and so does an append to a tail block that is off the GPU. *)
(* The K and V tensors of a layer move together and are one tensor.  The   *)
(* bytes of a row are <<row, version>>, the version being how often the    *)
(* row was computed.                                                       *)
(***************************************************************************)
EXTENDS Naturals, Sequences, FiniteSets, SequencesExt, FiniteSetsExt

CONSTANTS
    MaxRows,      \* bound: rows of the conversation
    BlockTokens,  \* rows of a block, and cells of a slot
    SlotCount,    \* GPU slots
    Budget,       \* blocks a plan keeps
    SinkBlocks,   \* the first blocks, which every plan keeps
    LayerCount,   \* attention layers
    SlabJobs,     \* copies the staging slab holds
    Batches,      \* sizes of a llama_decode
    UBatch,       \* rows computed by one graph
    MaxVersion,   \* bound: how often a row is computed
    Faults        \* the CUDA calls that may fail

ASSUME PackedAssumption ==
    /\ {MaxRows, BlockTokens, SlotCount, Budget, LayerCount, SlabJobs, UBatch, MaxVersion}
           \subseteq Nat \ {0}
    /\ Budget <= SlotCount /\ SinkBlocks \in 0 .. Budget - 1
    \* bound: the blocks of a batch fit the budget beside the sinks.
    /\ Batches \subseteq 1 .. (Budget - SinkBlocks - 1) * BlockTokens + 1
    /\ Faults \subseteq {"malloc", "d2d", "submit", "wait"}

Rows    == 0 .. MaxRows - 1
Offsets == 0 .. BlockTokens - 1
Slots   == 0 .. SlotCount - 1
Cells   == 0 .. SlotCount * BlockTokens - 1
Layers  == 0 .. LayerCount - 1
None    == MaxRows                       \* no row, no slot
Junk    == <<None, 0>>
BlockOf(r) == r \div BlockTokens         \* also the slot of a cell
Offset(r)  == r % BlockTokens
Blocks  == 0 .. BlockOf(MaxRows - 1)

VARIABLES
    registered, \* rows in the table (total_tokens)
    computed,   \* rows whose graph has run; fewer than registered in a batch
    version,    \* version of each row's last computation
    gpu,        \* bytes of each layer's cells; Junk where no row is marked
    cells,      \* the row each cell is marked with
    slot,       \* gpu_slot of each block
    free,       \* free_slots_
    working,    \* the blocks marked in_working_set
    pipe,       \* the stage-out pipe and what it has written
    pinned,     \* retrieval_pinned_
    epoch,      \* attention_epoch_, modulo 2
    damaged     \* history: blocks that lost bytes, see Headless, PackedEarly and Unpackable

vars == <<registered, computed, version, gpu, cells, slot, free, working, pipe,
          pinned, epoch, damaged>>

\* Bytes under a cell without a mark count as lost: a harvest that reads them
\* damages its block, and a layout moves them to a cell without a mark.
Marked(g, c) == [l \in Layers |-> [x \in Cells |-> IF c[x] = None THEN Junk ELSE g[l][x]]]

AllFree    == [i \in 1..SlotCount |-> SlotCount - i]
NoCells    == [c \in Cells |-> None]
NoBatch    == [jobs |-> <<>>, data |-> <<>>]
EmptyPipe  ==
    [jobs |-> <<>>, used |-> 0, pending |-> NoBatch, queued |-> {},
     raw |-> [b \in Blocks |-> [l \in Layers |-> <<>>]]]

Init ==
    /\ registered = 0 /\ computed = 0 /\ version = [r \in Rows |-> 0]
    /\ gpu = [l \in Layers |-> [c \in Cells |-> Junk]]
    /\ cells = NoCells
    /\ slot = [b \in Blocks |-> None] /\ free = AllFree /\ working = {}
    /\ pipe = EmptyPipe /\ pinned = FALSE /\ epoch = 0 /\ damaged = {}

RowsOf(b, n)   == {r \in b * BlockTokens .. (b + 1) * BlockTokens - 1 : r < n}
Tokens(b, n)   == Cardinality(RowsOf(b, n))
BlocksOf(n)    == {b \in Blocks : b * BlockTokens < n}
Seated         == {b \in Blocks : slot[b] # None}
CellOf(r)      == slot[BlockOf(r)] * BlockTokens + Offset(r)
Ascending(S)   == SetToSortSeq(S, LAMBDA a, b : a < b)
BumpIf(p)      == epoch' = (epoch + (IF p THEN 1 ELSE 0)) % 2
Idle           == computed = registered

-----------------------------------------------------------------------------
(* The stage-out pipe: jobs are collected in the slab, submitted as one    *)
(* asynchronous copy, and written to the store when the copy is waited for.*)

\* The bytes a copy reads, at the moment it runs.
Read(g, j)     == [i \in 1..j.n |-> g[j.layer][j.cell0 + i - 1]]
ReadAll(g, js) == [i \in DOMAIN js |-> Read(g, js[i])]

\* write_layer_k_gpu and write_layer_v_gpu.
WriteLayer(raw, j, data) ==
    [raw EXCEPT ![j.block][j.layer] = data \o SubSeq(@, j.n + 1, Len(@))]

\* harvest_write_batch.  A copy that failed is made again, synchronously.
WriteBatch(raw, batch, g, ok) ==
    LET data == IF ok /\ batch.data # <<>> THEN batch.data ELSE ReadAll(g, batch.jobs)
    IN  FoldLeftDomain(LAMBDA w, i : WriteLayer(w, batch.jobs[i], data[i]), raw, batch.jobs)

\* harvest_gpu_v_flush_slab.
FlushSlab(p, g, bad) ==
    IF p.jobs = <<>> THEN p
    ELSE LET next == [NoBatch EXCEPT !.jobs = p.jobs]
             sent == "submit" \notin bad
             older == WriteBatch(p.raw, p.pending, g, "wait" \notin bad)
         IN  [p EXCEPT !.jobs = <<>>,
                       !.used = IF sent THEN 0 ELSE @,
                       !.raw = IF sent THEN older ELSE WriteBatch(older, next, g, FALSE),
                       !.pending = IF sent THEN next ELSE NoBatch]

\* harvest_gpu_v_commit.
Committed(p, g, bad) ==
    LET q == FlushSlab(p, g, bad)
    IN  [q EXCEPT !.raw = WriteBatch(@, q.pending, g, "wait" \notin bad),
                  !.pending = NoBatch, !.used = 0, !.queued = {}]

\* A commit that takes the submitted copy for finished work.
CommitDropsPending(p, g, bad) ==
    [FlushSlab(p, g, bad) EXCEPT !.pending = NoBatch, !.used = 0, !.queued = {}]
Commit(p, g, bad) == Committed(p, g, bad)

\* enqueue_or_get: the slab, the slab once it is flushed, or a direct read.
Enqueue(p, j, g, bad) ==
    LET q == IF p.used >= SlabJobs /\ (p.jobs # <<>> \/ p.pending.jobs # <<>>)
             THEN FlushSlab(p, g, bad) ELSE p
    IN  IF q.used < SlabJobs
        THEN [q EXCEPT !.jobs = Append(@, j), !.used = @ + 1]
        ELSE [q EXCEPT !.raw = WriteLayer(@, j, Read(g, j))]

\* harvest_gpu_v: only the layers without a packed copy of all n rows.
Missing(p, b, n) == {l \in Layers : Len(p.raw[b][l]) < n}
HarvestBlock(p, b, n, g, c, bad) ==
    IF \/ b \in p.queued \/ slot[b] = None \/ n = 0
       \/ c[slot[b] * BlockTokens] = None \/ Missing(p, b, n) = {}
    THEN p
    ELSE LET job(l) == [block |-> b, layer |-> l, n |-> n, cell0 |-> slot[b] * BlockTokens]
         IN  [FoldLeft(LAMBDA q, l : Enqueue(q, job(l), g, bad), p, Ascending(Missing(p, b, n)))
                EXCEPT !.queued = @ \cup {b}]

\* harvest_full_blocks_async.
HarvestFull(p, g, c, bad) ==
    LET full == {b \in Seated : Tokens(b, registered) = BlockTokens}
    IN  IF pinned THEN p
        ELSE FlushSlab(FoldLeft(LAMBDA q, b : HarvestBlock(q, b, BlockTokens, g, c, bad),
                                p, Ascending(full)), g, bad)

-----------------------------------------------------------------------------
(* Moving blocks in and out of the slots.                                  *)

\* apply_plan_to_kv: what leaves is packed and committed, then loses its
\* cells; its slots are free before the incoming blocks are given one.
Leaving(keep)  == Seated \ keep
Entering(keep) == keep \ Seated

PlanPipe(keep, n, bad) ==
    LET out == Ascending(Leaving(keep))
    IN  Commit(FoldLeft(LAMBDA p, b : HarvestBlock(p, b, Tokens(b, n), gpu, cells, bad),
                        pipe, out), gpu, bad)
PlanCells(keep) ==
    [c \in Cells |-> IF cells[c] # None /\ BlockOf(cells[c]) \in Leaving(keep)
                     THEN None ELSE cells[c]]
PlanFree(keep) ==
    LET out == Ascending(Leaving(keep))
    IN  free \o [i \in DOMAIN out |-> slot[out[i]]]
PlanSlot(keep) ==
    LET in == Ascending(Entering(keep))
        pool == PlanFree(keep)
        taken(b) == pool[Len(pool) + 1 - (CHOOSE i \in DOMAIN in : in[i] = b)]
    IN  [b \in Blocks |-> IF b \in Leaving(keep) THEN None
                          ELSE IF b \in Entering(keep) THEN taken(b) ELSE slot[b]]
PlanRest(keep) ==
    LET pool == PlanFree(keep) IN SubSeq(pool, 1, Len(pool) - Cardinality(Entering(keep)))

\* set_selection: what is not marked yet is staged in, seated or not.
StageIn(keep) == keep \ working

\* What a plan may keep: every block while the budget allows it.
Plans(n) ==
    IF Cardinality(BlocksOf(n)) <= Budget THEN {BlocksOf(n)}
    ELSE {keep \in SUBSET BlocksOf(n) :
              /\ 0 .. SinkBlocks - 1 \subseteq keep
              /\ keep # {} /\ Cardinality(keep) <= Budget}

\* An epoch that follows admissions only.
BumpsOnEntry(keep) == StageIn(keep) # {}
Bumps(keep) == Leaving(keep) # {} \/ StageIn(keep) # {}

\* occupy_block_cells: all registered rows of a block, whatever its bytes.
Occupied(c, s, b) ==
    [x \in Cells |-> LET r == b * BlockTokens + Offset(x)
                     IN  IF BlockOf(x) = s[b] /\ r < registered THEN r ELSE c[x]]

\* write_block_to_gpu: the layers that have a packed copy of all the rows.
Restored(g, s, raw, b) ==
    LET n == Tokens(b, registered)
    IN  [l \in Layers |-> [x \in Cells |->
            IF BlockOf(x) = s[b] /\ Offset(x) < n /\ Len(raw[b][l]) >= n
            THEN raw[b][l][Offset(x) + 1] ELSE g[l][x]]]

\* The device copies of layout_gpu_slots_by_orig_pos: every resident block
\* is gathered in a scratch buffer before any is written to its new slot.
Permuted(tensor, s, t, moving, n) ==
    [x \in Cells |->
        LET here == {b \in moving : t[b] = BlockOf(x) /\ Offset(x) < n[b]}
        IN  IF here = {} THEN tensor[x]
            ELSE tensor[s[CHOOSE b \in here : TRUE] * BlockTokens + Offset(x)]]

\* Slot after slot, without the scratch buffer.
PermutedInPlace(tensor, s, t, moving, n) ==
    FoldLeft(LAMBDA w, b : Permuted(w, s, t, {b}, n), tensor, Ascending(moving))
Moved(tensor, s, t, moving, n) == Permuted(tensor, s, t, moving, n)

\* The place of a block among the kept ones, and the test that lets the
\* layout be skipped.
Place(keep, b) == Cardinality({a \in keep : a < b})
\* A test that only asks for increasing slots.
OrderedByRank(keep, s) == \A a, b \in keep : a < b => s[a] < s[b]
Ordered(keep, s) == \A b \in keep : s[b] = Place(keep, b)

\* A layout takes all slots back and gives them out in position order.
Reseated(keep) == [b \in Blocks |-> IF b \in keep THEN Place(keep, b) ELSE None]

\* Without scratch memory whole slots go through the host.
RowsMoved(throughHost) ==
    [b \in Blocks |-> IF throughHost THEN BlockTokens ELSE Tokens(b, registered)]

-----------------------------------------------------------------------------
(* The calls.                                                              *)

(* Three ways in which a block loses bytes.  Its first rows are in no cell *)
(* and the next ones are computed: from then on its packed copy is short   *)
(* and its head cell empty, so no harvest packs it and no restore finds    *)
(* its rows.  Or it is packed with rows that are not computed yet.  Or the *)
(* device copies of the layout fail over blocks that have no packed copy   *)
(* to be rewritten from.                                                   *)
Headless(from, to) ==
    {b \in {BlockOf(r) : r \in from .. to - 1} :
        \E r \in RowsOf(b, from) : cells[CellOf(r)] # r}
PackedEarly(p, done) ==
    {b \in p.queued : \E r \in RowsOf(b, registered) : r >= done}
Unpackable(raw, moving) ==
    {b \in moving : \E l \in Layers : Len(raw[b][l]) < Tokens(b, registered)}

\* prepare_working_set for a batch of n rows.
Incoming(n) == {BlockOf(r) : r \in registered .. registered + n - 1}
MayAppend(n) ==
    /\ Idle /\ registered + n <= MaxRows
    /\ \A r \in registered .. registered + n - 1 : version[r] < MaxVersion

\* The new blocks take free slots, and so does a tail block off the GPU,
\* whose rows stay where they are.
AppendDirect(n) ==
    LET keep == Seated \cup Incoming(n)
    IN  /\ MayAppend(n) /\ Cardinality(keep) <= SlotCount
        /\ registered' = registered + n
        /\ slot' = PlanSlot(keep) /\ free' = PlanRest(keep)
        /\ UNCHANGED <<computed, version, gpu, cells, working, pipe, pinned, epoch, damaged>>

\* alloc_slot runs dry: truncate_to(t0) takes the new blocks' slots back; the
\* tail block keeps the one it was given.
AppendRefused(n) ==
    LET tail == (Incoming(n) \cap BlocksOf(registered)) \ Seated
    IN  /\ MayAppend(n) /\ Cardinality(Seated \cup Incoming(n)) > SlotCount
        /\ tail # {} /\ free # <<>>
        /\ slot' = [b \in Blocks |-> IF b \in tail THEN Last(free) ELSE slot[b]]
        /\ free' = Front(free)
        /\ UNCHANGED <<registered, computed, version, gpu, cells, working, pipe, pinned,
                       epoch, damaged>>

\* maybe_offload_during_prefill, which a pinned selection excludes: a plan
\* evicts and seats blocks; nothing is written to the slots it gives.
AppendUnderPressure(n, keep, bad) ==
    /\ MayAppend(n) /\ ~pinned
    /\ Incoming(n) \subseteq keep
    /\ registered' = registered + n
    /\ pipe' = PlanPipe(keep, registered + n, bad)
    /\ cells' = PlanCells(keep) /\ slot' = PlanSlot(keep) /\ free' = PlanRest(keep)
    /\ gpu' = Marked(gpu, PlanCells(keep)) /\ working' = keep
    /\ BumpIf(Bumps(keep))
    /\ UNCHANGED <<computed, version, pinned, damaged>>

\* process_ubatch: one graph writes its rows, and the harvest that follows
\* it, after a wait for the graph, packs the blocks that are full by now.
Compute(bad) ==
    LET last == IF computed + UBatch < registered THEN computed + UBatch ELSE registered
        new == computed .. last - 1
        written(x) == {r \in new : CellOf(r) = x}
        ver == [r \in Rows |-> IF r \in new THEN version[r] + 1 ELSE version[r]]
        c == [x \in Cells |-> IF written(x) = {} THEN cells[x] ELSE CHOOSE r \in written(x) : TRUE]
        g == [l \in Layers |-> [x \in Cells |->
                 IF written(x) = {} THEN gpu[l][x] ELSE <<c[x], ver[c[x]]>>]]
        p == HarvestFull(pipe, g, c, bad)
    IN  /\ ~Idle
        /\ computed' = last /\ version' = ver /\ gpu' = g /\ cells' = c /\ pipe' = p
        /\ damaged' = damaged \cup Headless(computed, last) \cup PackedEarly(p, last)
        /\ UNCHANGED <<registered, slot, free, working, pinned, epoch>>

\* The submitted copy runs some time before it is waited for.
CopyLands ==
    /\ pipe.pending.jobs # <<>> /\ pipe.pending.data = <<>>
    /\ pipe' = [pipe EXCEPT !.pending.data = ReadAll(gpu, pipe.pending.jobs)]
    /\ UNCHANGED <<registered, computed, version, gpu, cells, slot, free, working, pinned,
                   epoch, damaged>>

BeginCachedTurn ==
    /\ Idle /\ pinned /\ pinned' = FALSE
    /\ UNCHANGED <<registered, computed, version, gpu, cells, slot, free, working, pipe,
                   epoch, damaged>>

\* truncate_cached with the removal of the cells, also after an abort in the
\* middle of a batch.
TruncateCached(n, bad) ==
    LET gone == {b \in Seated : b * BlockTokens >= n}
        out == Reverse(Ascending(gone))
        p == Commit(pipe, gpu, bad)
        cut(b, e) == SubSeq(e, 1, Min({Len(e), Tokens(b, n)}))
    IN  /\ 0 < n /\ n <= computed /\ n < registered
        /\ pipe' = [p EXCEPT !.raw = [b \in Blocks |-> [l \in Layers |-> cut(b, p.raw[b][l])]]]
        /\ cells' = [c \in Cells |-> IF cells[c] >= n THEN None ELSE cells[c]]
        /\ gpu' = Marked(gpu, cells')
        /\ slot' = [b \in Blocks |-> IF b \in gone THEN None ELSE slot[b]]
        /\ free' = free \o [i \in DOMAIN out |-> slot[out[i]]]
        /\ registered' = n /\ computed' = n
        /\ working' = working \cap BlocksOf(n) /\ damaged' = damaged \cap BlocksOf(n)
        /\ BumpIf(TRUE)
        /\ UNCHANGED <<version, pinned>>

\* clear and reset_policy; what the pipe still writes goes with the store.
Clear ==
    /\ Idle /\ registered > 0
    /\ pipe' = EmptyPipe
    /\ cells' = NoCells /\ gpu' = Marked(gpu, NoCells)
    /\ slot' = [b \in Blocks |-> None] /\ free' = AllFree
    /\ registered' = 0 /\ computed' = 0 /\ pinned' = FALSE
    /\ working' = {} /\ damaged' = {}
    /\ BumpIf(TRUE)
    /\ UNCHANGED version

\* An invalidation that starts with the first whole block.
InvalidatedWholeBlocks(raw, q) ==
    [b \in Blocks |-> IF b * BlockTokens < q THEN raw[b] ELSE EmptyPipe.raw[b]]

\* invalidate_packed_from.
Invalidated(raw, q) ==
    [b \in Blocks |-> [l \in Layers |->
        SubSeq(raw[b][l], 1, Min({Len(raw[b][l]), Tokens(b, q)}))]]

\* The query is computed again against the selected blocks: set_replay(true),
\* the graphs of rows q.. in their cells without a harvest, set_replay(false).
Replay(q, bad) ==
    LET again == q .. registered - 1
        ver == [r \in Rows |-> IF r \in again THEN version[r] + 1 ELSE version[r]]
        written(x) == {r \in again : CellOf(r) = x}
        c == [x \in Cells |-> IF written(x) = {} THEN cells[x] ELSE CHOOSE r \in written(x) : TRUE]
        p == Commit(pipe, gpu, bad)
    IN  /\ Idle /\ pinned /\ q < registered
        /\ \A r \in again : slot[BlockOf(r)] # None /\ ver[r] <= MaxVersion
        /\ pipe' = [p EXCEPT !.raw = Invalidated(@, q)]
        /\ version' = ver /\ cells' = c
        /\ gpu' = [l \in Layers |-> [x \in Cells |->
                      IF written(x) = {} THEN gpu[l][x] ELSE <<c[x], ver[c[x]]>>]]
        /\ damaged' = damaged \cup Headless(q, registered)
        /\ BumpIf(TRUE)
        /\ UNCHANGED <<registered, computed, slot, free, working, pinned>>

\* apply_selection: the plan and the layout.  When the blocks are in order
\* already, only those the plan stages in are rewritten, unless they are
\* resident; a layout rewrites every block that is not resident.  Only the
\* device copies can fail half way: the layers below moved are permuted by
\* then, and every block is rewritten.  The query, the last rows, is mandatory.
ApplySelection(keep, bad, moved) ==
    LET p == PlanPipe(keep, registered, bad)
        s == PlanSlot(keep)
        c == PlanCells(keep)
        resident == {b \in keep : c[s[b] * BlockTokens] = b * BlockTokens}
        sorted == Ordered(keep, s)
        cold == IF sorted THEN StageIn(keep) \ resident
                ELSE IF "d2d" \in bad THEN keep ELSE keep \ resident
        at == IF sorted THEN s ELSE Reseated(keep)
        rows == RowsMoved("malloc" \in bad)
        g == [l \in Layers |-> IF sorted \/ l >= moved THEN gpu[l]
                               ELSE Moved(gpu[l], s, at, resident, rows)]
    IN  /\ Idle /\ ~pinned /\ ("d2d" \in bad) = (moved < LayerCount)
        /\ registered % BlockTokens # 0 => BlockOf(registered) \in keep
        /\ {"d2d", "malloc"} \cap bad # {} => ~sorted /\ resident # {}
        /\ pipe' = p
        /\ slot' = at
        /\ free' = IF sorted THEN PlanRest(keep)
                   ELSE SubSeq(AllFree, 1, SlotCount - Cardinality(keep))
        /\ cells' = IF sorted THEN FoldSet(LAMBDA b, w : Occupied(w, at, b), c, cold)
                    ELSE FoldSet(LAMBDA b, w : Occupied(w, at, b), NoCells, keep)
        /\ gpu' = Marked(FoldSet(LAMBDA b, w : Restored(w, at, p.raw, b), g, cold), cells')
        /\ working' = keep /\ pinned' = TRUE
        /\ damaged' = IF "d2d" \in bad THEN damaged \cup Unpackable(p.raw, resident) ELSE damaged
        /\ BumpIf(Bumps(keep) \/ ~sorted)
        /\ UNCHANGED <<registered, computed, version>>

\* The calls that may fail: copies to the host, when there are any, and what a
\* layout asks of the device.
Copying(leaving) ==
    IF pipe.jobs = <<>> /\ pipe.pending.jobs = <<>> /\ leaving = {} THEN {{}}
    ELSE SUBSET (Faults \cap {"submit", "wait"})
Device == {{}} \cup {{f} : f \in Faults \cap {"malloc", "d2d"}}

Next ==
    \/ \E n \in Batches : AppendDirect(n)
    \/ \E n \in Batches : AppendRefused(n)
    \/ \E n \in Batches : \E keep \in Plans(registered + n) :
           \E bad \in Copying(Leaving(keep)) : AppendUnderPressure(n, keep, bad)
    \/ \E bad \in Copying(Seated) : Compute(bad)
    \/ CopyLands
    \/ BeginCachedTurn
    \/ \E n \in Rows, bad \in Copying({}) : TruncateCached(n, bad)
    \/ Clear
    \/ \E q \in Rows, bad \in Copying({}) : Replay(q, bad)
    \/ \E keep \in Plans(registered), moved \in 0..LayerCount :
           \E bad \in Copying(Leaving(keep)), device \in Device :
               ApplySelection(keep, bad \cup device, moved)

Spec == Init /\ [][Next]_vars

-----------------------------------------------------------------------------
(* Properties.                                                             *)

Bytes == {Junk} \cup (Rows \X (1..MaxVersion))
Jobs  == [block : Blocks, layer : Layers, n : 1..BlockTokens, cell0 : Cells]

\* Types, and the slots: a slot is free or one block's, never both or twice.
TypeOK ==
    /\ registered \in 0..MaxRows /\ computed \in 0..registered
    /\ version \in [Rows -> 0..MaxVersion]
    /\ gpu \in [Layers -> [Cells -> Bytes]]
    /\ cells \in [Cells -> Rows \cup {None}]
    /\ slot \in [Blocks -> Slots \cup {None}] /\ pinned \in BOOLEAN /\ epoch \in {0, 1}
    /\ working \subseteq Seated /\ damaged \subseteq Blocks
    /\ pipe.used \in 0..SlabJobs /\ Len(pipe.jobs) <= pipe.used
    /\ \A j \in Range(pipe.jobs \o pipe.pending.jobs) : j \in Jobs
    /\ pipe.queued \subseteq Blocks
    /\ Len(free) + Cardinality(Seated) = SlotCount
    /\ Range(free) \cup {slot[b] : b \in Seated} = Slots

\* The cells of these blocks hold, in every layer, the last computed bytes of
\* the row they are marked with.
CellsHold(S) ==
    \A x \in Cells, l \in Layers :
        (cells[x] < computed /\ BlockOf(cells[x]) \in S) =>
            gpu[l][x] = <<cells[x], version[cells[x]]>>

\* A packed row of these blocks is the row's last computation.
CopiesHold(S) ==
    \A b \in S, l \in Layers, o \in Offsets :
        LET r == b * BlockTokens + o
        IN  o < Len(pipe.raw[b][l]) /\ r < computed =>
                pipe.raw[b][l][o + 1] = <<r, version[r]>>

\* A computed row of these blocks is in the cells of its block's slot, or the
\* block has a packed copy that a later selection can restore, in every layer.
RowsKept(S) ==
    \A r \in {q \in 0 .. computed - 1 : BlockOf(q) \in S} :
        LET b == BlockOf(r)
        IN  \/ slot[b] # None /\ cells[CellOf(r)] = r
            \/ \A l \in Layers : Len(pipe.raw[b][l]) >= Tokens(b, computed)

\* A cell that attention reads holds its row's last bytes: permuting the
\* slots, restoring packed copies after a device copy failed, seating blocks
\* without their bytes and replaying the query never leave another row's or an
\* older row's bytes, except in a damaged block.
CellsHoldTheirRows == CellsHold(Blocks \ damaged)

\* The packed copy of a row is the row's last computation, however the copy,
\* the writes of later graphs, truncations and replays were ordered
\* (docs/architecture.md: "Packed K/V for a full block are copied to host
\* asynchronously when the block fills ... eviction then skips if the copy
\* exists"), except in a damaged block.
PackedIsCurrent == CopiesHold(Blocks \ damaged)

\* No row is lost, also of a block that is seated, evicted and seated again
\* without its cells, except in a damaged block.
NoRowLost == RowsKept(Blocks \ damaged)

\* The same of every block; each fails in one of the ways of damaged.
EveryCellCurrent == CellsHold(Blocks)
EveryCopyCurrent == CopiesHold(Blocks)

\* A block off the GPU has all its rows in a packed copy (the comment in
\* KvMemRuntime::stage_out: "Packed K/V already live in RawKvStore").
StagedOutIsPacked == RowsKept({b \in Blocks : slot[b] = None})

\* A selection leaves its blocks in the slots 0, 1, ... in position order
\* (llama-memory-kvmem.h: "Place GPU-resident blocks into slots 0..N-1 in
\* orig_pos order"), whatever was evicted, admitted or already in place.
PoolInOrder ==
    [][~pinned /\ pinned' =>
        \A b \in Blocks : slot'[b] # None =>
            slot'[b] = Cardinality({a \in Blocks : a < b /\ slot'[a] # None})]_vars

\* What attention reads of the rows it already had changes only with the
\* epoch: a view or a selection that names the epoch is still true of them.
Attended(c, g, n) == {<<c[x], g[0][x]>> : x \in {y \in Cells : c[y] < n}}
EpochNamesAttention ==
    [][(registered' >= registered /\ computed' >= computed
            /\ Attended(cells', gpu', computed) # Attended(cells, gpu, computed))
       => epoch' # epoch]_vars
=============================================================================

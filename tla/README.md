# KVMem for llama.cpp: verification project

KVMem extends llama.cpp with a KV cache that is larger than the GPU. The history
is divided into blocks of `block_tokens` rows. A window of blocks is on the GPU,
where attention reads it; the rest is kept in host memory and in a file, and comes
back when scoring selects it. This directory holds TLA+ models of that machinery,
TLC configurations that check them on small instances, and proofs checked by TLAPS.

All paths below are relative to the repository's root.

## 1. Inventory

| Component | Code | State | Operations |
|---|---|---|---|
| Residency table | `kvmem/src/host/kvmem_store.cpp` | per block: tier, GPU/CPU/NVMe slot, working-set mark; token count | append, truncate, set_selection, set_block_* |
| Selection | same file | mean keys, scores, media groups | pick_topk_blocks, pick_prefill_pressure_blocks |
| Plan execution | `kvmem/src/host/kvmem_runtime.cpp` | the last plan, freed slots, prefetch buffers and futures, bounce buffer | prepare_*, spill_outgoing, admit_incoming, stage_out, stage_in, truncate_to |
| CPU arena | `kvmem/include/kvmem/pinned_kv_tier.hpp` | slot map, LRU and other policies | place_block_evicting, touch, release_block |
| NVMe file | `kvmem/include/kvmem/nvme_kv_tier.hpp` | slot map, LRU, overlay on a shared base | place, read, write, spans |
| Raw K/V store | `kvmem/src/host/raw_kv_store.cpp` | per block and layer: packed rows, flush marks; job queue; IO thread | write_layer_*, copy_*, wait_writes, truncate_to, invalidate_packed_from |
| Adapter | `src/adapter/llama-memory-kvmem.cpp` | GPU slot pool, cells, pin flags, attention epoch, harvest ring | prepare_working_set, apply_selection, layout, truncate_cached, harvest |
| Harvest | same file | two pinned slots, worker queue, position queue, two CUDA streams | submit, pack, flush, stop |
| Stage-out slab | `src/adapter/llama-kvmem-stagein.cu`, same file | jobs gathered, the submitted batch | enqueue, submit, wait |
| MTP and hybrid memories | `src/adapter/llama-memory-kvmem-mtp.cpp`, `-hybrid.cpp` | follower of the main memory | on_stage_out, follow_retrieval, replay |
| Speculative decoding | `tools/kvmem-spec.cpp` | history, draft, checkpoint, sampler clone | propose, verify, restore, accept |
| Server, query policy `user` | `tools/kvmem-multimodal-server.h`, `llama-kvmem-server.cpp` | cached prompt, checkpoints, live checkpoint, captured query | accept, restore, decode, retrieve, replay, capture, commit, roll back |
| Server, query policy `legacy` | `tools/llama-kvmem-server.cpp` | cached tokens, two recurrent checkpoints, last user text | the same for text |
| Command line | `tools/llama-kvmem-cli.cpp` | none between prompts | prefill, retrieval, decode |

How they interact: a client submits a batch. The adapter registers its rows
(`prepare_working_set`), asks the runtime for an eviction plan when the window passes
the high watermark, and executes the plan (`apply_plan_to_kv`): every outgoing block is
copied to the CPU arena or the file, its slot is returned to the pool, every incoming
block takes a slot. The graph then writes the rows, and the harvest path copies
them to the raw store, whose IO thread moves full blocks to the file. After a prefill
the client scores the blocks and calls `apply_selection`, which executes a second kind
of plan and lays the window out in position order. Between turns the client truncates
the history or clears it.

The hard parts, and what makes each component correct:

* The GPU slot pool is shared by the table, the pool and the list of slots in
  transit; several paths leave it by an exception. A slot must have one owner and must
  not leak (`SlotOwnership`, `SlotConservation`).
* A block may have copies in three places, of different ages. A restore must use the
  right one (`StageInRestores`, `CopiesHoldLastSpill`); what attention can read must be
  the current rows (`AttentionReadsCurrent`).
* The tiers and the table keep the same fact twice (`CpuRecordsAgree`,
  `NvmeRecordsAgree`), and evictions cascade from one tier to the next.
* Prefetch reads run concurrently and fail; file reads and writes fail in the middle
  of a plan.
* The raw store empties a block's RAM before its bytes are in the file; readers,
  re-writers, truncation and the IO thread meet on one mutex and one condition variable
  (`FlushMarkHasJob`, `CopyIsCurrent`, `CallReturns`).
* Several sessions share one archive file and copy a slot into a private overlay when they first
  write it, while others read it (`VisibleIsWhole`, `OneInitializer`, `ImplementsMemory`); adjacent
  transfers are merged into one system call (`EachSpanItsRecord`).
* The harvest copies from tensors the next graph overwrites, over two streams, two slots and
  a worker thread that is handed a slot before its copy has finished (`RowsHoldTheirUbatch`,
  `FlushedMeansPacked`, `InputsAfterGraph`).
* A block's packed copy is submitted long before it is needed, and its rows can be computed again,
  moved, cut or evicted in between; a block can have a slot and none of its rows in it
  (`PackedIsCurrent`, `CellsHoldTheirRows`, `NoRowLost`, `StagedOutIsPacked`).
* A rejected draft has touched five memories, and each is undone in its own way
  (`StateIsHistory`, `SamplerFollowsText`, `MeansAreAccepted`, `IsGreedyDecoding`).
* The server goes back to an earlier row with memories of which some can be cut anywhere and
  one, the recurrent state, only be restored; requests fail and clients leave at any point
  (`ReplyFromPrompt`, `CheckpointsOfConversation`, `FailureKeepsPrefix`).

`PROJECT.json` lists every hazard with its line.

## 2. Modules

| Module | Models | Role |
|---|---|---|
| `KvMemRuntime` | plan execution, residency table, both tiers, the adapter's slot pool, cells and working-set calls | component |
| `MCKvMemRuntime` | the tiers in use; the requests of a chat without roll-back (`ChatSpec`) | TLC only |
| `KvMemRuntimeProofs` | the slot life cycle; what attention reads, how a plan fits the pool, the working set; the lower tiers, the residency records, the copies | proofs |
| `PackedCopies`, `MCPackedCopies` | the bytes of rows: cells, layout, stage-out slab, packed copies, query replay, epoch | component, its view for TLC |
| `RawKvStoreIO` | packed rows, the flush queue and its worker thread | component |
| `RawKvStoreIOProofs` | theorems about the flush protocol | proofs |
| `OverlayMemory` | what the file arena promises its callers: one memory of slots | abstract specification |
| `NvmeOverlay` | the archive with its copy-on-write overlay; implements `OverlayMemory` | component |
| `NvmeOverlayProofs` | the overlay's invariant and the refinement | proofs |
| `NvmeSpans` | merging a batch of transfers into system calls | component (algorithm) |
| `NvmeSpansProofs` | each span moves its own record | proofs |
| `HarvestRing` | the harvest between compute thread, worker and two CUDA streams | component |
| `HarvestRingProofs` | theorems about the ring and its streams | proofs |
| `GreedyDecoding` | what a generation promises: the target's own tokens | abstract specification |
| `SpecDecode` | speculative generation with its four rollback mechanisms; implements `GreedyDecoding` | component |
| `SpecDecodeProofs` | the invariant of a generation and the refinement | proofs |
| `BlockMeans` | sums of key rows per block, with truncation and tail checkpoints | operators |
| `ServerTurn`, `MCServerTurn` | requests of the server, query policy `user`, text and media | component, its conversations for TLC |
| `ServerTurnProofs` | the invariant of a server's requests | proofs |
| `LegacyTurn`, `MCLegacyTurn` | requests of the server, query policy `legacy`, text | component, its conversations for TLC |
| `LegacyTurnProofs` | the invariant of a request of the legacy executor | proofs |

The models meet where the code's parts call each other. `KvMemRuntime` says which block is where,
with every failure path of a plan; `PackedCopies` keeps of it that a plan is some set of blocks
that fits the budget, and asks which bytes a row has. `PackedCopies` takes the raw store to be one memory of
packed rows; `RawKvStoreIO` shows that reads of it return the last rows written; `RawKvStoreIO` takes
the file to be one memory of slots, which `NvmeOverlay` shows of the overlay and `NvmeSpans` of the
merged calls. `ServerTurn` and `LegacyTurn` take a memory to be the rows evaluated into it, which
`PackedCopies` shows of the attention rows and `SpecDecode` of a generation with drafts. `BlockMeans` is
instantiated by both servers.

### KvMemRuntime

One thread runs every handler. A handler is one action, except that
`apply_plan_to_kv` is cut at its `stage_out` and `stage_in` calls because each may
throw: `mode` says which loop is running, `todo` what it still has to visit.
The prefetch futures are actions of their own between `prepare_*` and `wait_prefetch`.

| Variable | Code |
|---|---|
| `total`, `tier`, `gpuSlot`, `cpuSlot`, `nvmeSlot`, `inWs` | `total_tokens_` and the fields of `KvMemBlock` |
| `free`, `frees` | `free_slots_`, `pending_gpu_frees_` |
| `gpuMem`, `cells` | bytes of a GPU slot; the block whose rows the llama cells of the slot hold |
| `cpu`, `nvme` | map, order of the LRU list (`older`: pairs of a block and a more recently used one) and slot bytes of a tier |
| `scratch`, `pre`, `plan`, `pending` | `scratch_`, `prefetch_buf_` with its futures, `last_plan_`, `pending_` |
| `pinned` | `retrieval_pinned_ \|\| keep_selected_` |
| `ver`, `spilled`, `thrown`, `faults` | history and bounds, read by no guard of the code |

The sizes of the two tiers are options of the program: a behaviour starts with any of `Arenas`,
a set of pairs of sizes (0 is off).

Bytes are `<<block, version>>`, the version counting the batches that wrote the block.
That tells an old copy from a new one and one block's bytes from another's, which is all
the properties ask.

Actions and handlers: `AppendUnderPressure`, `AppendDirect` and `AppendRefused` are the
three ways through `prepare_working_set`; `PrepareSelection` and `FinishSelection` the two
ends of `apply_selection`; `SpillBegin`, `StageOut*`, `*SpillThrows` the loop of
`spill_outgoing`; `AdmitBegin`, `StageIn*` that of `admit_incoming`; `UnwindAppend` and
`UnwindSelect` what the callers do with an exception; `Compute` the graph;
`TruncateCached`, `Clear`, `BeginCachedTurn`, `KeepSelected`, `CommitResident` the calls
between batches.

Abstractions. The selection method is one that copies evicted blocks (`Retrieval`), with
`optimize_stage_out` and `optimize_stage_in` at their default, true. The set chosen by
scoring is any set with the sinks that fills the budget. The raw store is taken to be
complete, so a block rewritten from it has the current rows (`FromRaw`). This is an assumption, and the code does not
keep it for every block: `write_block_to_gpu` marks all rows of the block (`llama-memory-kvmem.cpp:2765`) and then writes
the layers whose packed copy has as many (2797). The packed copy is short when rows were appended to a tail block off the GPU,
and what the block's cells hold after a layout is then outside `AttentionReadsCurrent`. `PackedCopies` has these blocks (`damaged`), and
`PackedCopies_bare_tail` shows how one comes about. The free list is a set: which free slot is taken next is left open. A slot's cells are
represented by the block of its first row. Media groups, position remaps, sequence edits and the MTP
follower are left out. The CPU arena has its default LRU policy.

### PackedCopies

`gpu[l]` are the bytes of each layer's cells, `cells` the row each cell is marked with, `slot` and
`free` the pool, which here is the ordered list of the code, `working` the blocks marked `in_working_set`. The bytes of a row are
`<<row, version>>`; `version` counts how often the row was computed.

`pipe` is the way of a block to its packed copy: `jobs` the copies gathered in the slab,
`pending` the submitted batch, whose `data` is fixed when the copy runs (`CopyLands`, at any time between
submission and wait), `queued` the `harvest_gpu_queued_` marks, `raw` the packed rows in the store.

| Action | Code |
|---|---|
| `AppendDirect` | `prepare_working_set` without pressure: a free slot for each incoming block, also for a tail block that is off the GPU, whose earlier rows are not loaded |
| `AppendRefused` | the same when `alloc_slot` runs dry: the new blocks give their slots back, the tail block keeps its bare one |
| `AppendUnderPressure` | `prepare_working_set` with a plan: it packs and evicts, and seats blocks without their bytes |
| `Compute` | `process_ubatch` and the harvest of the blocks that are full after it |
| `Replay` | `set_replay(true)`, the graphs of rows q.., `set_replay(false)`, with `invalidate_packed_from` |
| `ApplySelection` | `apply_selection`: plan and layout in position order. A layout rewrites every kept block without a head cell; when the blocks are in order already, only those of `stage_in` without one are rewritten |
| `TruncateCached`, `Clear`, `BeginCachedTurn` | the calls of the same names; a cut may come in the middle of a batch |

A block loses bytes in three ways, and the history variable `damaged` keeps which blocks did, until they are cut away:

* `Headless`: rows are computed into a block whose earlier rows are in no cell. That is the case of a tail block that was
  evicted, cut inside, and then appended to (or replayed). Its head cell is empty, so no harvest packs it
  (`llama-memory-kvmem.cpp:2359`), its packed copy is short, so no restore finds its rows (2797), and a layout marks cells it does not
  write (2765).
* `PackedEarly`: a block is packed with rows that are registered and not yet computed (2449), which happens when a batch takes more than one graph.
* `Unpackable`: the device copies of a layout fail over a block that has no whole packed copy to be rewritten from (1256).

`CellsHoldTheirRows`, `PackedIsCurrent` and `NoRowLost` are about all other blocks, those with a slot and no cells included.
About all blocks, the same facts fail: the configurations `PackedCopies_bare_tail`, `PackedCopies_straddle` and `PackedCopies_d2d` show each way.

`Faults` names the CUDA calls that may fail: the scratch allocation of the layout (`malloc`: the code
goes through the host instead), a submission or a wait of the slab (the code falls back to
copies one by one), and the device copies of the layout (`d2d`).

Abstractions. A plan keeps any set of at most `Budget` blocks with the sinks, and all blocks while they fit; whether an append makes a plan
or goes directly is left open, except that a pinned selection excludes a plan. Query rows are mandatory in a selection. The blocks of a batch
fit the budget beside the sinks (`PackedAssumption`), so a plan that has to drop incoming blocks, and the refusal that follows it (1355-1361), are not in
this model; `KvMemRuntime` has the refusal. The lower tiers are off: a block that a plan seats has no bytes until it is rewritten. `commit_resident` is left out: it marks blocks
whose rows are all in their cells and moves nothing. `raw_->has_block` is true for a block with computed rows, since the capture creates
its entry. Bytes under a cell without a mark count as lost (`Marked`): a harvest of rows not yet computed reads such a cell, and its block is damaged then;
a layout through the host moves whole slots, and the bytes go to a cell without a mark.
K and V of a layer are one tensor. The kernels' quantisation is left out.

### RawKvStoreIO

Packed K of one layer, the calling thread and `io_loop`. A critical section of `mu_` is
one action; waiting on `cv_` ends it, and a waiting call may test its condition again only
after a notification (`call.awake`). The worker's last test before it blocks and the
blocking itself are two steps with the mutex held (`worker = "blocking"`), because the
destructor touches `stop_io_` without the mutex.

Abstractions. A row's bytes are the number of the write that produced them. `pending_bytes_`
is counted in jobs. A call that spans several blocks is the sequence of its loop's
iterations, each of which is a `WriteBegin`. `clear` is `truncate_to(0)`. A condition variable
does not wake up spuriously (a spurious wakeup would only hide a lost one). There is one
calling thread: the adapter issues every call that can wait (packed writes, copies, truncation,
`wait_writes`) from the thread that runs the graph; its harvest worker only adds mean
statistics, under the mutex and without waiting.

### OverlayMemory and NvmeOverlay

`OverlayMemory` has the memory `cells` and, per thread, the call it is in: a write lands its parts
one at a time or together between call and return, a read takes for every part a value the part
had in that time, and only a call that did all its parts returns "ok".

`NvmeOverlay` is the code: `state[s]` is `overlay_valid_[s]` (base, initializing, valid), `over` the
overlay file, `base` the archive. A thread's call is a program counter `op[t].pc` over the
loops of the slot reads and of `write_overlay_slot_range`: test the state, claim the slot
(`WriteClaim`, the compare-exchange) or find it claimed and test again, copy the slot up part by
part (`CopyPart`) unless the write covers it, write (`WritePart`), publish (`Publish`); a failing system
call in between gives the claim back (`InitFails`). A reader chooses its file once (`ChooseFile`) and
reads part by part; between two system calls of one thread any other may run. `MaxFaults` system
calls fail, wherever they are. The alignment rules of direct IO are left out.

### NvmeSpans

`read_spans` and `write_spans`, one action per iteration of their two loops. `Begin` starts a system call
at span `i`; `Merge` lets span `j` join it as long as the code does (same file, next slot in the file, next address
in the buffer, the record before it whole), `merged` being its bytes so far; `Transfer` makes the call.
`WriteOne` is the write of one span beside an archive: these are not merged, because each may copy its
slot up into the overlay (`cow`). `Throw` is a span that exceeds the buffer, `Finish` the end of the batch.
`spans`, `write`, `cow`, `overlaid` and `direct` are chosen in `Init`: any batch of spans that do not overlap in
the buffer. `moved` is the history of what was moved, pairs of a byte of the buffer and a byte of a file; `calls`
is the counter of system calls the code keeps.

### HarvestRing

Four actors: the compute thread (`main`), the worker (`worker`), the compute stream and the
harvest stream, two queues of operations executed in order; a `wait_snap` in a queue blocks it until the
snapshot of that ubatch was taken. An ubatch is a number, and the bytes in a buffer are the ubatch
that wrote them; `packed` is the set of pairs of rows and bytes written under them.

| Actions | Code |
|---|---|
| `Prepare`, `Launch` | `prepare_ubatches`, which queues the positions, and the asynchronous graph of an ubatch |
| `CommitOther`, `SubmitFence`, `SubmitSync`, `SnapDone` | `harvest_pending`, `d2h_submit`: take the older slot, snapshot, copy, hand over; with an event fence or with a synchronised snapshot |
| `Barrier` | the wait for the graph at the end of `harvest_pending`, before the next inputs are written |
| `SubmitFails`, `SubmitFailsLate`, `Capture`, `SchedSync` | a CUDA call fails: `harvest_capture` reads the tensors |
| `FlushCall`, `FlushInline`, `NewTurn`, `Join`, `Joined` | `harvest_flush`, the query sums of a new turn, `harvest_worker_stop` |
| `WorkerTake`, `WorkerStart`, `WorkerPack`, `WorkerRelease`, `WorkerStops` | `harvest_loop`, cut at each lock and wait |
| `ComputeStep`, `HarvestStep` | the streams |

`mode` is the way the code was configured: worker and fence, worker and synchronised snapshot,
or `KVMEM_HARVEST_SYNC`, no worker. `curPos` is one variable because `cur_pos_` is.

### GreedyDecoding and SpecDecode

A token is the target's own choice at its position ("t", or "e" where that ends the generation) or
another one ("x"); a memory that consumed an "x", or one token too many, chooses differently from
then on (`Good`, `Choice`). `GreedyDecoding` says the emitted text grows by the target's own tokens. `SpecDecode` is
`kvmem_spec_generate`: `Propose` (also the retry of a restored draft), `Verify` (the decode of
draft and last token, which moves the target's rows, the draft model's, the recurrent state and
the key sums), `ContextFull`, `Sample`, then `Restore` or `Accept`; `Finish`. `DecodeFails`, `ProcessFails`, `FoldFails`,
`Abandon` (the client leaves) and `Aborted` (what the caller does then) may interrupt it.

The mechanisms of `kvmem_spec_start`: `replay` records the tokens of a verification and folds the
accepted ones into the recurrent state; `planes` keeps the last `NRs` states on the device and goes to a host
checkpoint for longer drafts; `host` always takes one; `dense` has no recurrent state.

The mean keys at decode time (`pending`, `acc`, `sums`) are `decode_mean_*` of the adapter with the sums of the
raw store.

### BlockMeans, ServerTurn and LegacyTurn

In both servers a memory is the sequence of tokens evaluated into it, so that "the memory
belongs to this prompt" is an equation. An image is one row. `BlockMeans` keeps per block the set
of rows in the sum and the count the code keeps beside it; rows that arrive are added to each block they
reach, as the loop of `write_layer_mean_k` does, and `MaxRows` bounds a conversation with its reply.

`ServerTurn`: `mem` holds the rows of the attention cache, the host store with its means, the recurrent
state, the draft model's cache and its carried state. `cps` are the checkpoints
(`mm_checkpoints`; a set, because `multimodal_remember` keeps the code's list in the order of rows and no two of one row), `live` the one the memory stands at, `cached` the prompt of the last turn, `rollback` where
a failing request returns to, `query` the captured query.

| Actions | Code |
|---|---|
| `Accept`, `SelectBase`, `ClearThenFail` | common prefix, latest usable checkpoint, or a cleared memory |
| `RestoreBase`, `RestoreFails` | `multimodal_restore` and an exception in it |
| `ChoosePath`, `DecodeBatch`, `DecodeFails` | prefix and suffix in batches that stop before the query, before images and at checkpoints |
| `RememberQuery`, `KeepView`, `Retrieve`, `RetrieveFails` | checkpoint at the query, reuse of the last selection, or retrieval |
| `RestoreSuffix`, `Replayed`, `Capture` | the query again over the selected blocks, and its capture |
| `Generate`, `GenerateFails`, `Commit` | the reply and what the server remembers of the turn |
| `RollBack`, `RollBackFails`, `LeaveFailed` | the destructor of the request's guard |

`LegacyTurn`: `kv` and `rec` are the two memories; a row removed and not yet evaluated again is a
`Hole`. `CutMemory` brings `kv` to the kept row; `Sync*` is the choice among the live state, the
state at the last generation (`genCkpt`) and at the last query (`queryCkpt`); `StartCold`, `Reselect`,
`EvaluatePrefix`, `SaveState`, `EvaluateQuery`, `ReplayQuery`, `EvaluateTail`, `Generate`, `Commit` are the
stages of the handler in their order, each with the ways it can stop.

Choices the servers leave to the rest of the program are left open: whether a query may be replayed
(`query_replay_fits`), whether a cached selection fits, when a client leaves.

## 3. Runs

| Run | Distinct states | Bounds |
|---|---|---|
| `KvMemRuntime_tiers` | 795 207 | 2 slots of 2 rows, 3 blocks; no tier, a file of 3, a CPU arena of 1 over the file; one IO failure |
| `RawKvStoreIO_flush` | 299 041 | 3 blocks of 2 rows, 2 file slots, queue of 2 jobs, one IO failure |
| `NvmeOverlay_memory` | 158 085 | 2 threads, 2 slots of 2 parts, the archive reaches one of them, 2 writes, 1 failing call |
| `NvmeSpans_batch` | 2 061 966 | reads and writes of up to 3 spans, 3 slots of 2 bytes, buffer of 5 |
| `HarvestRing_ring` | 149 313 | 5 ubatches in batches of up to 2, 1 failing submission, all three modes |
| `SpecDecode_generate` | 22 835 | four mechanisms, drafts up to 3, 1 or 3 planes, prompts of 1 to 3, 6 tokens to predict, context of 7, 1 failure |
| `ServerTurn_requests` | 209 186 | 3 requests, 2 failures; a chat with drafts, branching chats without, chats with images |
| `LegacyTurn_requests` | 112 557 | 4 requests out of 7, with and without recurrent state, 1 request cut short |
| `PackedCopies_copies` | 94 376 | 5 rows in blocks of 2, 2 slots, a budget of 2, 2 layers, slab of 1 job, batches of 2 and ubatch of 1, each row computed twice at most; failing allocation, device copy, submission, wait |
| `KvMemRuntime_stale_file` | violation | CPU arena of 1 over a file of 3 |
| `RawKvStoreIO_worker_error` | violation | queue of 1 job, one IO failure |
| `ServerTurn_stale_checkpoint` | violation | 4 requests of branching chats, queries anywhere |

What each run asks:

* `KvMemRuntime_tiers`: slots have one owner and do not leak, an admitted plan finds its slots,
  attention reads current rows, table and tiers agree (`RecordsAgree`), lower copies hold the last
  spilled bytes, the working set stays seated, every call returns.
* `RawKvStoreIO_flush`: a read returns the last rows written; a flush mark has exactly one job; a
  marked block is stored; a call returns as long as no IO error happened.
* `NvmeOverlay_memory`: a published slot has no hole, one thread initialises a slot, every call
  returns, and archive and overlay are one memory (`ImplementsMemory`, the refinement of `OverlayMemory`).
* `NvmeSpans_batch`: however reads and writes are merged, each span moves its own record and nothing else.
* `HarvestRing_ring`: rows are packed from their own ubatch; a flush waits for everything; query sums are
  of this turn; inputs are not rewritten under a graph; the compute thread never waits for ever.
* `SpecDecode_generate`: between two verifications every memory is the accepted history; the
  sampler has seen just the text; the sums hold just accepted rows; the output is greedy
  decoding (`IsGreedyDecoding`, a refinement); the generation ends.
* `ServerTurn_requests`: the reply is computed from the rows of its prompt, the checkpoints are
  of the conversation, the last turn can be resumed, the reused query was captured over the same rows, and a
  failed request leaves what it found.
* `LegacyTurn_requests`: the same for the legacy executor, with its two saved states.
* `PackedCopies_copies`: outside the damaged blocks, cells and packed copies hold the last bytes of their rows and no row is
  lost; a selection leaves its blocks in order, and what attention reads changes only with the epoch.

Why the bounds are enough. Two rows per block are needed for a partly filled tail and for a batch
that crosses a block boundary; more add nothing, since the rows of a block share its slots. Two GPU slots
with three blocks make every append after the second an eviction. One CPU slot makes every second
stage-out demote a victim. The file never evicts in `tiers`, which is what the product sizes it for.
A second version of a row's bytes tells an old copy from the current one, and one failure can hit any
single operation. For the raw store, three blocks with two file slots and a queue of two
jobs fill the queue, the file and the batch. Two threads and two writes let a copy-up meet a reader,
a writer and the failure of the first claimant; a second part puts a step of another thread between any
two system calls. Three spans are the least in which a run is extended and then ended. Five ubatches
use each of the two pinned slots at least twice and leave one to be submitted while both are in
flight. A draft of 3 is longer than 1 plane and no longer than 3; a context of 7 fills up under the
longest prompt. Two requests make a continuation, three a
branch with a return or an eviction from the media checkpoints; the legacy executor needs four for a withdrawn question after a
tool round. Five rows in three blocks over two slots make evictions, a block that is cut, one that is seated and evicted
again without its cells, and one that is replayed while its copy is in the slab. With no sink any block can be evicted, which two slots need for a
layout to move something; a plan without block 0 is not one of the code's, so this only adds behaviours. A slab of one job is full in the middle of a harvest, and
a batch of two graphs can be cut between them; the second layer is for a device copy that fails half way. `MCPackedCopies` leaves the epoch out of
what tells two states apart: no guard reads it, and the properties about it are about single steps.

Deadlock is checked in the `KvMemRuntime` and `NvmeOverlay` runs. It is off where the system really
stops (`RawKvStoreIO`: the store is destroyed; `NvmeSpans`: the batch is done; `SpecDecode`: the generation
has returned; `HarvestRing`: the worker is joined) or where the bound on requests, failures or versions is used up
(`ServerTurn`, `LegacyTurn`, `PackedCopies`).

Properties hold between calls (`mode = "idle"`) where the code is entitled to be
inconsistent in the middle of one. Some claim nothing after an event the code does not recover from:
`~thrown` in `KvMemRuntime` (between an exception in a plan and the next `clear()`), `faults = 0` in
`KvMemRuntime`'s copies, the harvested rows and the legacy server, `~lost` in `ServerTurn` (a rollback that failed itself, until
the memories are cleared), `damaged` in `PackedCopies` (of the blocks that lost bytes, until they are cut away). The further configurations below show that these conditions are
needed.

Fairness. `KvMemRuntime!FairSpec` is weak fairness of `Progress`, the steps of a call in
progress: the one thread is scheduled and every future ends. Nothing makes a client
call. `RawKvStoreIO!FairSpec` is weak fairness of each thread: the worker, and the calling thread
once it is inside a call. `NvmeOverlay` has weak fairness of each thread's call: a thread that finds a slot
claimed yields and tests again, so it is enabled all the time. `HarvestRing` has weak fairness of the
streams, of the worker and of the compute thread inside a call. `SpecDecode` has weak fairness of the
loop of `kvmem_spec_generate`, with no fairness of failures.

### Disagreements found by the violation runs

* `kvmem_runtime.cpp:300` (`KvMemRuntime_stale_file`): `stage_in` uses the bytes prefetched from the file even when a CPU
  copy exists; a block can come back with rows older than those last staged out. The block has no cells then. A selection
  that keeps it rewrites it from its packed copy (`llama-memory-kvmem.cpp:1256`, 3252), so attention meets the old rows only when that copy is short and the
  slot keeps what `stage_in` put there; until it is rewritten, an eviction stores the old rows once more.
* `raw_kv_store.cpp:267` (`RawKvStoreIO_worker_error`): `enqueue_flush` tests for the error only after a wait the error
  makes endless.
* `kvmem-multimodal-server.h:246` (`ServerTurn_stale_checkpoint`): a checkpoint is chosen by its row alone; one of an
  abandoned branch stays in the list and its recurrent state is restored for another prompt.

### Further configurations

These .cfg files delimit the passing runs: three that pass with other tiers or batches, and those that show what a
condition of a passing property, or a restriction of its configuration, keeps away.

| Configuration | Outcome |
|---|---|
| `KvMemRuntime_file` | passes: an evicting file of one slot (229 472 states) |
| `KvMemRuntime_window` | passes: four slots, a budget of three and a generation reserve, no tiers (281 422 states) |
| `PackedCopies_steps` | passes: batches of 1 and 2 rows, one layer (159 422 states) |
| `KvMemRuntime_dangling` | `NvmeRecordsAgree` fails: `kvmem_runtime.cpp:267` records `prev_nvme`, read at 243, after the file gave the slot to another block |
| `KvMemRuntime_failed_spill` | `CpuCopiesSurviveFaults` fails: a failed demotion (`kvmem_runtime.cpp:254`) leaves two records for one arena slot |
| `KvMemRuntime_phantom` | `SelectionVisible` fails: a block staged in by prefill pressure has no cells, and a selection that keeps it gives it none (`llama-memory-kvmem.cpp:3243`) |
| `RawKvStoreIO_destructor` | `DestructorReturns` fails: `raw_kv_store.cpp:153` signals without the mutex |
| `NvmeOverlay_short_archive` | `WritesLand` fails: a copy-up that meets the archive's end (`nvme_kv_tier.hpp:957`) refuses every partial write of the slot |
| `HarvestRing_fallback` | `FallbackHoldsItsUbatch` fails: `llama-memory-kvmem.cpp:2051` reads the tensors before the scheduler is synchronised |
| `SpecDecode_restore_loop` | `RestoredGenerationEnds` fails: with host checkpoints a draft that ends with the end token is restored for ever (`kvmem-spec.cpp:385`) |
| `SpecDecode_abort_mean` | `AbandonedMeansAreAccepted` fails: an abandoned verification leaves rejected rows in the sums (`llama-memory-kvmem.cpp:2604`) |
| `ServerTurn_lost_rollback` | `ReplyAfterLostRollback` fails: the exception of a rollback is swallowed (`kvmem-multimodal-server.h:131`) |
| `LegacyTurn_abort` | `ReplyFromPromptAfterStop` fails: an aborted request leaves rows `cached_tokens` does not describe (`llama-kvmem-server.cpp:514`) |
| `LegacyTurn_means` | `MeansAreWhole` fails: truncation inside a block drops the sum of its kept rows (`raw_kv_store.cpp:1340`) |
| `LegacyTurn_rewind` | `QueryAhead` fails: the kept prefix can reach into the query (`llama-kvmem-server.cpp:794`) |
| `PackedCopies_straddle` | `EveryCopyCurrent` fails with a batch larger than the ubatch: `llama-memory-kvmem.cpp:2449` copies rows that are registered and not yet computed |
| `PackedCopies_d2d` | `EveryCellCurrent` fails: a device copy fails after some layers were permuted (`llama-memory-kvmem.cpp:1256`) |
| `PackedCopies_bare_tail` | `StagedOutIsPacked` fails: a row computed into a bare tail block is lost when the block is evicted (`llama-memory-kvmem.cpp:1337`) |

The last one in full, with blocks of two rows and a sink. Rows 0 to 3 are computed, and row 4 makes a plan that packs and evicts block 1. A
truncation to 3 rows leaves one packed row of block 1. The next append gives the block a slot and computes row 3 there; row 2 is not
loaded and the head cell stays empty. When row 4 makes a plan again the harvest skips the block (2359) and row 3 is lost, while
`kvmem_runtime.cpp:246` says of a block that is staged out that "Packed K/V already live in RawKvStore". If a selection comes first, a layout
marks both rows over a packed copy that is too short to be written (2765, 2797), and the next eviction packs what lies there.
The server makes the tail block mandatory only where it selects again (`kvmem-multimodal-server.h:323`).

## 4. Proofs

`KvMemRuntimeProofs` proves, for every value of the constants that satisfies
`SizesAssumption` and `BudgetAssumption`, and any tiers:

* `ControlTypeCorrect`: `Spec => []ControlTypeOK`, the types of the table, the pool, the
  plan and the control state.
* `SlotInvariant`: `Spec => []SlotInv`.
* `SlotsHaveOneOwner`: `Spec => []SlotOwnership`.
* `SlotsConserved`: `Spec => []SlotConservation`.

Neither slot property is inductive. `SlotInv` adds: only registered blocks have a slot (or
truncation would leave a slot behind); a block with a slot is in tier GPU (or demoting a
CPU victim, which clears its GPU slot, would lose one); and a plan in progress stages in
registered blocks only (or a stage-in would seat a block that truncation cannot see).
The proof has one lemma per action and under it one step per conjunct the action disturbs; the
theorem closes with temporal reasoning over `Init`, `[Next]_vars` and the implication.

It continues with the residency of blocks, under the same assumptions:

* `AttentionInvariant`: `Spec => []AttentionInv`, and `AttentionCurrent`: `Spec => []AttentionReadsCurrent`.
* `WorkingSetInvariant`: `Spec => []WorkingSetInv`, `AdmissionsFit`: `Spec => []AdmissionFits`, and
  `MarkedBlocksSeated`: `Spec => []WorkingSetSeated`.

`AttentionReadsCurrent` speaks of the time between calls. In the middle of a plan a slot may have been taken from a block
whose cells are dropped only at the end of the loop, so `AttentionInv` says that cells which name a block
*that was not just evicted* are in that block's slot and current (`CellsCurrent`). It adds that a batch's new
blocks are in no cells until they are computed (`NewUnwritten`: otherwise a batch that is unregistered by
an exception would leave cells of unregistered blocks), and that a batch is computed only when all
its blocks have slots (`BatchSeated`). `WorkingSetInv` says, until an
exception, that a marked block is seated and stays so or is still to come (`MarkedSeated`), and that while a plan runs at most
`Budget` blocks are marked and every other seated block is about to be evicted (`PlanFits`). With
`SlotConservation` that is a count (`RoomForAll`): slots in the pool = all slots - seated blocks, and
seated blocks and those still to come are different marked blocks.

Its second part is about the lower tiers, with any sizes of the two tiers and any number of failures up to `MaxFaults`:

* `TypeCorrect`: `Spec => []TypeOK`, and `TiersKeepSlotsApart`: no slot of the arena or of the file
  holds two blocks, whatever fails.
* `CpuRecordsKept`: `Spec => []CpuRecordsAgree`, in every configuration.
* `RecordsKept`: `Spec /\ FileHoldsAll => []RecordsAgree`.
* `CopiesAreCurrent`: `Spec /\ FileHoldsAll => []CopiesHoldLastSpill`.
* `OneTierRestores`: `Spec /\ OneTier => []StageInRestores`.

Both hypotheses speak of the sizes a behaviour starts with, which never change. `FileHoldsAll`: a file under a
CPU arena has a slot for every block of the history. The size is a user setting, so this is a condition on the
configuration and no fact of the code; `KvMemRuntime_dangling` shows that with a smaller file
the records do come apart. An arena without a file, a file without an arena, and no tier at all satisfy it with any size.
`OneTier`: only one of the two is on; `KvMemRuntime_stale_file` shows that with both, `stage_in` can return older bytes.

The invariants, each the strengthening of the one before it:

* `TiersInv`: map and order of each tier fit together (`TierParts`: no slot twice, the order is a strict total order
  of the residents), a batch in progress may still be written (`VersionsLeft`, the model's own bound), unregistered blocks have no copies, and a
  plan evicts registered blocks only (`UnregisteredUncopied`, `OutRegistered`: or a truncation would leave a copy for the next block of that number).
* `RecordsInv`: table and tiers agree at every step, also within a plan (`CpuAgrees`, `NvmeAgrees`). Placing
  a block may evict another one; lemma `PlaceIsPlaced` says what a placement changes, and rests on `Oldest` (a
  full tier has a least recently used block, as a finite strict order has a minimum) and `RoomForEveryBlock` (a file
  with a slot for every block never evicts, by the pigeonhole principle).
* `CopiesInv`: the CPU copy of a block is its last spill, and so is the file's unless an arena is on and the block is on the GPU or has a CPU copy
  (`CpuCopiesLast`, `FileCopiesLast`). A restored block keeps its lower copies, so the step that
  evicts a block must rewrite the copy that will be read; that no plan over a sufficient file meets an exception (`NoSurprise`) is part
  of the induction, and uses that an admitted block finds a slot (`WorkingSetInv`).
* `RestoreInv`: bytes read ahead are still the last spill when they are used, because the plan does not evict what it brings in
  (`ReadAheadLast`).

`RawKvStoreIOProofs` proves, for every value of the constants that satisfies
`IOAssumption` (block size, history, file slots, queue and fault bounds of any size):

* `StoreInvariant`: `Spec => [](StoreInv /\ QueueBounded)`.
* `CopiesAreCurrent`: `Spec => []CopyIsCurrent`.
* `FlushMarksHaveJobs`: `Spec => []FlushMarkHasJob`.
* `MarkedBlocksAreStored`: `Spec => []MarkedBlocksStored`.
* `QueueStaysBounded` and `StoreTypeCorrect`.

None of these is inductive, because each speaks of one place where a block's rows can be.
`StoreInv` ties the places together:

* `BlkInv`: a block's rows are in RAM, in the file, or in the job that flushes it, and its
  marks say which; RAM and file agree with the last writes below the block's row count.
* `FlushInv`: the job of a block is in the queue, in the batch or with the call that waits
  for room, in only one of them, and it carries the last rows. That is where the wait of a
  second write on the flush mark is needed: without it a block could have two jobs.
* `ControlInv`: the worker holds a batch only between taking it and reporting on it, the
  batch has slots when it is written and is in the file when it is reported; a write that
  waits for a flush keeps to the rows the block had when the call began.

`QueueBounded` is carried along because a push is decided by `HasRoom` in the same step.
The failing steps (`WorkerFails`, `LoadFails`) are part of the induction: the theorems hold
through a full file, torn writes and lost calls.

`NvmeOverlayProofs` proves, under `OverlayAssumption`, for any set of threads and any numbers of
slots, parts, writes and failures:

* `TypeCorrect`: `Spec => []TypeOK`, and `Invariant`: `Spec => [](TypeOK /\ OverlayInv)`.
* `SlotsWhole`: `Spec => []VisibleIsWhole`, and `ClaimedByOne`: `Spec => []OneInitializer`.
* `Refinement`: `Spec => ImplementsMemory`, that is, archive and overlay implement `OverlayMemory`.

`OverlayInv` has, for each thread, what its program counter stands for (`CallInv`: the
parts still to copy or to write, and that the others are in the overlay already; that a call that
writes directly has a published slot), that an `initializing` slot has exactly one claimant
(`ClaimInv`), and `VisibleIsWhole`. The refinement maps the memory to the overlay for published
slots and to the archive for the others. So a copy-up, which fills an overlay no one sees, is a stutter;
`Publish` lands all the parts of the first write at once; each later `WritePart` lands one; a
reader that chose the archive before the publication still returns a value each part had during
its call, because the value was sampled when it read. That last case needs
`CallInv`: a reader on the overlay has seen the slot published, and a published slot stays so. One
lemma per action shows that it maps to a step of the memory or leaves it unchanged.

`NvmeSpansProofs` proves, under `SpansAssumption`, for batches, records and buffers of any size:

* `SpansInvariant`: `Spec => []SpansInv`, and `SpansKeepTheirRecords`: `Spec => []EachSpanItsRecord`.
* `PackedBatchesAreOneCall`: whole records of one file, in slot order and packed in the buffer, are one system
  call, which `nvme_kv_tier_test` expects of its example.

The strengthening is `MergedSpans`: the bytes merged so far end where the last merged span ends, both in the buffer and
in the file, and are those the merged spans ask for. It is preserved because only a whole record is
followed by the next; lemma `TransfersJoin` is the arithmetic.

`HarvestRingProofs` proves, under `RingAssumption`, for batches of any size and any number of
ubatches and failures:

* `TypesCorrect`: `Spec => []RingTypes`.
* `GraphBeforeInputs`: `Spec => []InputsAfterGraph`, failed submissions included.
* `RowsOfTheirUbatch`, `FlushPacks`, `QueryOfItsTurn`: `Spec => []RowsHoldTheirUbatch`,
  `Spec => []FlushedMeansPacked` and `Spec => []QueryOfThisTurn`, properties that speak of the
  time before a submission fails.

`GraphInv` is enough for the second: the one queued graph is that of the last ubatch, so the
barrier that waits for it empties the stream of graphs. The last three come from `RingInv`. A slot
is submitted only when it is free, so the harvest stream holds at most the work of two ubatches,
ten operations, and what is queued is always the end of one known sequence. The length of the queue
therefore says which copies are done, and the invariant states for each length what the tensors, the
staging buffers and the pinned buffers hold. `FenceInv` also says why the fence suffices: while a
snapshot is queued, the next graph is behind its wait in the compute stream (`InHarvest >= 3`), and
when `harvest_pending` has returned the older slot's snapshot has been taken (`InHarvest >= 8` only
at the barrier). `WorkerInv` keeps the worker's slot in flight until it is released, and `PackInv` has each
ubatch in the raw store or in one of the slots. After a failed submission `RingInv` no longer holds
(`HarvestRing_fallback` shows rows with wrong bytes), so it is claimed while `faults = 0`.

`SpecDecodeProofs` proves, under `SpecAssumption`, for any number of planes, length of drafts, prompt and context:

* `DecodeInvariant`: `Spec => []DecodeInv`.
* `StateFollowsHistory`: `Spec => []StateIsHistory`, and `SamplerSeesText`: `Spec => []SamplerFollowsText`.
* `GreedyText`: `Spec => IsGreedyDecoding`, that is, a generation implements `GreedyDecoding`.
* `MeansInvariant`: `Spec => []MeansInv`, and `AcceptedMeans`: `Spec => []MeansAreAccepted`.

`DecodeInv` says for each place of the loop where the memories stand. Before a verification they are the history
(`BeforeInv`); behind it they are the history, the last token and the draft, and what an undo needs is at hand: the recorded tokens, the plane
or the checkpoint of the mechanism in use (`BehindInv`, `DraftInv`); while a draft is judged, the accepted tokens are the target's own and the
sampler has seen the text and those (`JudgeInv`). `HistInv` has the history the target's own continuation of the prompt and `idLast` its next token. That closes
the circle: sampling is correct because the memories are the history, and the memories stay the history because what is undone is
what sampling did not accept. The refinement maps the emitted text to the abstract one; a step emits some of the target's own tokens or none.

`MeansInv` says where the accepted rows are while the loop runs: for some row `m`, the sums hold those before `m`, each in
its block, and the accumulator the rows from `m` to the end of the history (`MeansAt`). It goes on to count rows in step
with `DecodeInv`: a row decoded alone is counted before the verdict, a batch's rows wait for it in `pending`, and what the verdict keeps of them are
the rows by which the history grows (`KeptPending`). `AccumulateFacts` is the step that matters: whatever run of rows is
appended, over however many block boundaries, a block is either flushed up to the end of the run or to its own end, or is
the last one and stays in the accumulator; `WrittenRows` has the sum cleared just when the flushed rows begin the block. The rows of a
block in the accumulator are an interval, from its least to its greatest index (`RowsIn`), which holds because they have consecutive
positions and needs no induction over sequences.

`ServerTurnProofs` proves, under `ServerTurnAssumption`, for any conversations and queries, any sizes of blocks, batches
and checkpoint lists, and any number of requests and failures:

* `TurnCovered`: `Spec /\ []BranchCovered => []TurnInv`, for any clients.
* `TurnInvariant`: `Spec => [](TurnInv /\ BranchCovered)`, for clients that all satisfy `BranchesEarly`; and for them
  `RepliesFromPrompt`, `CheckpointsAreStates`, `TurnsResumable`, `QueryIsCurrent` and `FailuresKeepPrefix`:
  `Spec => []ReplyFromPrompt`, `[]CheckpointsOfConversation`, `[]LastTurnResumable`, `[]CachedQueryCurrent` and
  `FailureKeepsPrefix`.

Why there is a hypothesis. The server chooses a checkpoint by its row alone, and drops later ones only when it keeps a
new one at or before them. A request that leaves the cached conversation at some row, with its first image or its query
only behind older checkpoints of the abandoned branch, leaves those checkpoints in the list, and a later request may be
restored from one (`ServerTurn_stale_checkpoint`: without the hypothesis `ReplyFromPrompt` is false). `BranchCovered` says
of a state that this does not happen. `BranchesEarly` says of a client that its requests continue what is kept, or
have their query and their images no later than where they leave it: a conversation that grows, an edited or repeated
last question, and any request whose query begins before the difference. `MCServerTurn` has TLC evaluate it for the
clients of `ServerTurn_requests` (`ServedBranchEarly`), so the hypothesis holds there for continued, branching and image
conversations; for those of `ServerTurn_stale_checkpoint` it is false. That one implies the other is lemma
`EarlyIsCovered`, which needs `ClientInv`: what is cached, also what a rollback brings back, are rows of one of the
client's conversations and a reply.

The other condition, `~lost`, is that of the properties: after a rollback that failed, `TurnInv` claims the types only
(`StateTypes`, `RequestTypes`), until everything is cleared. Otherwise `HeldInv` says at each point of a request which
rows each memory holds:

* `BetweenInv`: between requests all memories hold the first `live.row` rows of the cached conversation, and every
  checkpoint, the live one and the captured query are of it. The text of the last word of a reply is
  known and its row not yet evaluated, so this is a prefix and not all of the conversation.
* `BaseInv`, `PrefixInv`: the base is a checkpoint of rows the prompt begins with. From there the memories
  hold the prompt's rows so far, while checkpoints of the old branch may still be in the list, provided that one of the
  save points before them is still to come (`CoveredFrom`).
* `SuffixInv`: from the query row on no such checkpoint is left. A replay has fewer rows in attention, recurrent
  state and draft model than in the host store, whose rows and means stay whole (`Replaying`).
* `UndoInv`, `FailedInv`, `ClearedInv`: whatever a request did, the rows it found up to its base are in attention
  and store, and the checkpoint of the base is that of those rows; so the restore of a rollback makes all memories equal again.
  `FailedInv` is weaker than what the memories hold before a failure, because a failing step leaves a row that belongs to nothing.
* `ReplyInv`, `PendingInv`: at the end of the prompt and behind it; the query to be remembered is of this prompt.

Two lemmas carry it. `CheckpointAtFacts`: a checkpoint taken of memories that hold some rows, or the live one reused
because nothing was evaluated since, is a checkpoint of those rows. `RestoredHolds`: restoring a checkpoint of rows
the memories begin with makes them hold just these, means included; the sum of the block that is cut is lost by the truncation and
brought back by the checkpoint's tail (`MeansRestored`). The facts about common prefixes
(`SharedRowsFacts`) come from the definition of the longest common prefix and need no induction.

`LegacyTurnProofs` proves, under `LegacyTurnAssumption`, for any requests with their queries, any sizes and any template slack,
with and without a recurrent memory:

* `LegacyInvariant`: `Spec => []LegacyInv`.
* `RepliesFromPrompt`: `Spec => []ReplyFromPrompt`.
* `SavedStatesKept`: `Spec => []SavedStatesOfConversation`.

There is no hypothesis on the clients here. Both properties, and so `LegacyInv`, speak of behaviours in which no request was cut
short (`faults = 0`): an aborted one leaves rows that `cached_tokens` does not describe (`LegacyTurn_abort`). `LegacyInv`
says for each point of a request which of its rows the two memories hold and of what the two saved states are:

* `Rests`, `CutInv`, `SyncInv`: between requests, and until the recurrent state is synced, both memories hold a beginning of the
  cached conversation and both saved states are states of it. The kept rows are common to it and the request (`KeptInv`).
* `QueryFirst` and the last part of `Rests`: the query was saved at a row that neither `gdn_ckpt` nor the recurrent state is before.
  This is why there is no counterpart of the stale checkpoint of `ServerTurn`. A turn keeps rows only when the recurrent state is at
  the last of them or a saved state is no later, and either means that the saved query is no later too (`QueryKept`); `gdn_ckpt`
  itself may be a state of rows that were left, but it is written again at the end of every prompt before it is used.
* `SaveInv`, `QueryInv`: where the query begins both memories are at the same row (`Reached`), except that a saved state
  puts the recurrent one back to the query's first row. So the query is refused only when nothing was evaluated yet,
  which leaves rows of the old conversation (`GivenUp`), and never after its state was saved.
* `AgainInv`: a query is replayed over a recurrent memory only from its saved state: the conditions under which the code
  replays include those under which it saved.
* `TailInv`, `GenerateInv`: up to the tail both memories hold the same first rows of the prompt, then all of it and the reply.

`WrittenAgain` carries the steps that write rows over: writing rows of the request over a memory that holds the first
n of them loses none. `SyncFacts` is the contract of `gdn_sync_to`.

The inductive invariants (`SlotInv`, `AttentionInv`, `WorkingSetInv`, `TiersInv`, `CopiesInv`, `RestoreInv`, `StoreInv`, `OverlayInv`,
`RingInv`, `SpansInv`, `DecodeInv`, `MeansInv`, `TurnInv` with `ClientInv`, `LegacyInv`) were checked with TLC on the instances of section 3 before they were proved; checking the proof
module itself, with the run's constants and the inductive invariant named as INVARIANT, repeats that (for `HarvestRing` it is
`IInv`; for `ServerTurn` and `LegacyTurn` the module has to extend `MCServerTurn` or `MCLegacyTurn` too, and for `KvMemRuntime` `MCKvMemRuntime`, which defines the tiers, and `CopiesInv` and `RestoreInv` need
tiers that satisfy their hypothesis).

Only model-checked:

* `PackedCopies`: the layout is a sort and a permutation of sequences.
* All liveness (`CallReturns`, `CallsReturn`, `HarvestReturns`, `GenerationEnds`), which the prover does not handle.

## 5. Not modelled

* Scores and top-k of the selection, media groups: floating-point data. Every model that uses a
  selection takes any set that fits, so what it shows holds for any scoring.
* The MTP follower memory as a component: it repeats the slab and layout calls of the main one. As a
  memory that is restored with the others it is in `ServerTurn` and `SpecDecode`.
* The eviction policies of the CPU arena other than LRU (heat, ghost and frequency lists).
* The stage-in slab and the kernels (requantisation, rotation): data movement; a restored row is the row
  that was packed.
* Batch splitting, the prefill policy and the command line: functions and straight-line code without state
  between calls.
* Chat templates, request parsing, streaming, the web interface, launch scripts and patches.
* `HarvestRing`: a submission that fails after the slot took the rows, with no other rows in the position queue. `harvest_pending` then
  reads `front()` of an empty vector (`llama-memory-kvmem.cpp:2049`), which is undefined; `SubmitFailsLate` has the case in which the next ubatch's rows are taken.
* `ServerTurn`: an exception of the checkpoint that `multimodal_commit` takes (`kvmem-multimodal-server.h:475-478`). `Commit` does not
  fail; the failures before it do, up to the last row of the reply.
* `SpecDecode`: a failing `llama_kvmem_remove_logical` after a verification in replay mode (`kvmem-spec.cpp:439-443`), which ends the
  generation as failed.
* The Windows branches of the file tier, and the alignment rules of direct IO beyond whether a
  range is eligible.

`PROJECT.json` gives the status and the reason for each component.

## 6. Plan

What is left, in this order:

1. Theorems about `PoolInOrder` and the slot part of `PackedCopies`.
2. The refinement of one memory of packed rows by `RawKvStoreIO`, and its composition with `PackedCopies` through it.
3. `BlockSelection`: top-k with mandatory blocks and media groups against a reference definition.
4. The other eviction policies of the CPU arena.
5. The MTP follower memory beside `PackedCopies`.

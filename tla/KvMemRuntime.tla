---------------------------- MODULE KvMemRuntime ----------------------------
(***************************************************************************)
(* The KVMem working-set manager: the host library's KvMemRuntime with the *)
(* residency table of KvMemStore, its CPU arena (PinnedKvTier) and NVMe    *)
(* file (NvmeKvTier), driven as llama_memory_kvmem drives it:              *)
(* prepare_working_set before each batch, apply_selection after scoring,   *)
(* truncate_cached between turns, clear.                                   *)
(*                                                                         *)
(* A block of BT rows lives in one GPU slot, or in a CPU or NVMe slot, or  *)
(* in several at once.  Its bytes are abstracted to <<block, version>>:    *)
(* the version counts the batches that wrote rows of the block, so an old  *)
(* copy is told from a current one and a copy of another block from both.  *)
(*                                                                         *)
(* One thread runs all the handlers; the only concurrency is the           *)
(* std::async NVMe reads between prepare_* and spill_outgoing.             *)
(* A handler is one action, except that apply_plan_to_kv is cut at its     *)
(* per-block stage_out and stage_in calls, each of which may throw.        *)
(***************************************************************************)
EXTENDS Integers, FiniteSets

CONSTANTS
    BT,          \* block_tokens: rows per block
    MaxBlocks,   \* bound: blocks of history
    NGpu,        \* n_slots_: GPU slots, budget + gen_reserve
    Arenas,      \* configurations of the lower tiers: slots of the CPU arena
                 \* and of the NVMe file, 0 = tier off
    Budget,      \* budget_blocks(), equal to prefill_budget_blocks()
    SinkBlocks,  \* sink_blocks
    HighWater,   \* gpu_high_watermark_tokens(kv_size_)
    MaxAppend,   \* bound: rows of one batch
    MaxVer,      \* bound: writes to one block
    MaxFaults    \* bound: NVMe reads and writes that fail

ASSUME SizesAssumption ==
    /\ BT \in Nat \ {0} /\ MaxBlocks \in Nat \ {0} /\ NGpu \in Nat \ {0}
    /\ Arenas \subseteq [cpu : Nat, nvme : Nat]
    /\ MaxAppend \in Nat \ {0} /\ MaxVer \in Nat /\ MaxFaults \in Nat

\* make_runtime_cfg and kvmem_compute_pool: at least one sink, a budget that
\* fits the pool and a watermark between one block and the pool.
ASSUME BudgetAssumption ==
    /\ SinkBlocks \in Nat \ {0} /\ Budget \in 1..NGpu
    /\ HighWater \in BT..(NGpu * BT)

Blocks    == 0 .. MaxBlocks - 1
GpuSlots  == 0 .. NGpu - 1
NoSlot    == -1
NoBlock   == -1

Junk  == <<NoBlock, 0>>                  \* bytes that are no block's
Bytes == (Blocks \X (0 .. MaxVer)) \cup {Junk}

Lesser(x, y) == IF x < y THEN x ELSE y

-----------------------------------------------------------------------------
(* The token geometry of KvMemStore: blocks are dense, in append order.     *)

Live(t)        == {b \in Blocks : b * BT < t}
EndPos(t, b)   == Lesser(t, (b + 1) * BT)
Incoming(s, t) == {b \in Live(t) : EndPos(t, b) > s}

-----------------------------------------------------------------------------
VARIABLES
    total,     \* total_tokens_
    ver,       \* ver[b]: version of the rows the model computed for block b
    tier, gpuSlot, cpuSlot, nvmeSlot, inWs,    \* the fields of KvMemBlock
    free,      \* free_slots_, as a set: the order of reuse is abstracted
    frees,     \* pending_gpu_frees_
    gpuMem,    \* bytes in each GPU slot
    cells,     \* the block whose rows the slot's cells hold
    cpu, nvme, \* tier: slot of each resident block; the order of lru_, as the
               \* pairs <<less, more recently used>>; bytes of each slot, whose
               \* domain never changes
    scratch,   \* scratch_: the bounce buffer
    pre,       \* prefetch_buf_ and prefetch_futs_, per block
    plan,      \* last_plan_, with the handler that asked for it
    todo,      \* blocks of the plan the running loop has still to visit
    pending,   \* pending_
    pinned,    \* retrieval_pinned_ \/ keep_selected_
    mode,      \* where the calling thread is
    faults,    \* NVMe operations that failed
    thrown,    \* history: an exception unwound a handler since clear()
    spilled    \* history: the bytes of each block's last stage_out

store   == <<tier, gpuSlot, cpuSlot, nvmeSlot, inWs>>
pool    == <<free, frees>>
gpu     == <<gpuMem, cells>>
tiers   == <<cpu, nvme, scratch>>
history == <<faults, thrown, spilled>>
vars    == <<total, ver, store, pool, gpu, tiers, pre, plan, todo, pending,
             pinned, mode, history>>

\* The lower tiers as configured.
CpuSlots  == DOMAIN cpu.mem
NvmeSlots == DOMAIN nvme.mem
CpuOn     == CpuSlots # {}
NvmeOn    == NvmeSlots # {}
TiersOn   == CpuOn \/ NvmeOn

Idle     == [st |-> "none", bytes |-> Junk]
NoPlan   == [kind |-> "none", t0 |-> 0, out |-> {}, in |-> {}]
Seated   == {b \in Live(total) : gpuSlot[b] >= 0}
Registered(b) == b \in Live(total)

-----------------------------------------------------------------------------
(* PinnedKvTier and NvmeKvTier: placement with LRU eviction.                *)

Residents(t) == {b \in Blocks : t.map[b] # NoSlot}
Without(older, B) == {p \in older : p[1] \notin B /\ p[2] \notin B}

\* b becomes the youngest of the blocks in the tier.
Touch(t, b) ==
    [t EXCEPT !.older = Without(@, {b})
                        \cup {<<x, b>> : x \in Residents(t) \ {b}}]
Release(t, b) == [t EXCEPT !.map[b] = NoSlot, !.older = Without(@, {b})]

Assign(t, b, s) == [Touch(t, b) EXCEPT !.map[b] = s]

\* The least recently used block.
Oldest(t) == CHOOSE v \in Residents(t) :
               \A x \in Residents(t) \ {v} : <<v, x>> \in t.older

\* place_block_evicting: the block's own slot, else a free one, else the slot
\* of the least recently used block.
Place(t, b, Slots) ==
    LET unused == Slots \ {t.map[x] : x \in Blocks}
    IN  CASE t.map[b] # NoSlot ->
               [tier |-> Touch(t, b), slot |-> t.map[b], victim |-> NoBlock]
          [] t.map[b] = NoSlot /\ unused # {} ->
               LET s == CHOOSE s \in unused : TRUE
               IN  [tier |-> Assign(t, b, s), slot |-> s, victim |-> NoBlock]
          [] OTHER ->
               LET v == Oldest(t)
               IN  [tier |-> Assign(Release(t, v), b, t.map[v]),
                    slot |-> t.map[v], victim |-> v]

\* Mutant of SpillTier: the slot is taken but never written.
SpillTierNoWrite(p, data) == p.tier

\* spill_bytes_to_nvme: place the block, forget the backing of the block it
\* evicts, write, then record the slot.  A dropped block has no record.
SpillTier(p, data)  == [p.tier EXCEPT !.mem[p.slot] = data]
EvictBacking(p)     == [x \in Blocks |->
                          IF x = p.victim /\ Registered(x) THEN NoSlot
                                                           ELSE nvmeSlot[x]]
SpillBacking(p, b)  == [x \in Blocks |->
                          IF x = b /\ Registered(x) THEN p.slot
                                                    ELSE EvictBacking(p)[x]]

-----------------------------------------------------------------------------
EmptyTier(n) == [map |-> [b \in Blocks |-> NoSlot], older |-> {},
                 mem |-> [s \in 0 .. n - 1 |-> Junk]]

Init ==
    /\ total = 0 /\ ver = [b \in Blocks |-> 0]
    /\ tier = [b \in Blocks |-> "GPU"]
    /\ gpuSlot = [b \in Blocks |-> NoSlot]
    /\ cpuSlot = [b \in Blocks |-> NoSlot]
    /\ nvmeSlot = [b \in Blocks |-> NoSlot]
    /\ inWs = [b \in Blocks |-> FALSE]
    /\ free = GpuSlots /\ frees = {}
    /\ gpuMem = [s \in GpuSlots |-> Junk]
    /\ cells = [s \in GpuSlots |-> NoBlock]
    /\ \E a \in Arenas : cpu = EmptyTier(a.cpu) /\ nvme = EmptyTier(a.nvme)
    /\ scratch = Junk
    /\ pre = [b \in Blocks |-> Idle]
    /\ plan = NoPlan /\ todo = {} /\ pending = FALSE /\ pinned = FALSE
    /\ mode = "idle" /\ faults = 0 /\ thrown = FALSE
    /\ spilled = [b \in Blocks |-> Junk]

-----------------------------------------------------------------------------
(* KvMemStore::set_selection and KvMemRuntime::start_prefetch               *)

\* Mutant of PlanOut: only blocks of the previous working set are evicted.
PlanOutOfWindow(S, t) ==
    {b \in Live(t) : tier[b] = "GPU" /\ b \notin S /\ inWs[b]}
PlanOut(S, t)   == {b \in Live(t) : tier[b] = "GPU" /\ b \notin S}
PlanIn(S)       == {b \in S : ~inWs[b]}
Prefetched(ids) == {b \in ids : NvmeOn /\ (nvmeSlot[b] >= 0 \/ tier[b] = "SSD")}

SetSelection(S, t, kind) ==
    LET out == PlanOut(S, t)
        in  == PlanIn(S)
    IN  /\ plan' = [kind |-> kind, t0 |-> total, out |-> out, in |-> in]
        /\ inWs' = [b \in Blocks |-> b \in S \/ (inWs[b] /\ b \notin out)]
        /\ pre' = [b \in Blocks |->
                     IF b \in Prefetched(in) THEN [Idle EXCEPT !.st = "reading"]
                                             ELSE Idle]
        /\ pending' = TRUE
        /\ mode' = "fetch"

\* pick_prefill_pressure_blocks(incoming): everything while it fits, then the
\* sinks and the newest blocks.
PressureBlocks(t) ==
    LET n == Cardinality(Live(t))
        sink == Lesser(SinkBlocks, Budget)
    IN  IF n <= Budget THEN Live(t)
        ELSE {b \in Live(t) : b < sink \/ b >= n - (Budget - sink)}

\* pick_topk_blocks(mandatory) fills the budget: the sinks, then whatever the
\* query and the scores ask for.
IsTopK(S) ==
    LET n == Cardinality(Live(total))
    IN  /\ S \subseteq Live(total)
        /\ Cardinality(S) = Lesser(n, Budget)
        /\ \A b \in Live(total) : b < SinkBlocks /\ b < Budget => b \in S

\* prepare_selection, called by apply_selection.
PrepareSelection(S) ==
    /\ mode = "idle" /\ IsTopK(S)
    /\ SetSelection(S, total, "select")
    /\ UNCHANGED <<total, ver, tier, gpuSlot, cpuSlot, nvmeSlot, pool, gpu,
                   tiers, todo, pinned, history>>

-----------------------------------------------------------------------------
(* prepare_working_set: register k rows, then make room or take free slots. *)

ResidentTokens(t) ==
    LET upTo[n \in 0 .. MaxBlocks] ==
          IF n = 0 THEN 0
          ELSE upTo[n - 1]
               + (IF n - 1 \in Live(t) /\ gpuSlot[n - 1] >= 0
                  THEN EndPos(t, n - 1) - (n - 1) * BT ELSE 0)
    IN  upTo[MaxBlocks]

NeedsOffload(k) == ~pinned /\ ResidentTokens(total + k) + k > HighWater

\* The batch fits the bounds of the model.
MayAppend(k) ==
    /\ mode = "idle"
    /\ total + k <= MaxBlocks * BT
    /\ \A b \in Incoming(total, total + k) : ver[b] < MaxVer

Unseated(k) == {b \in Incoming(total, total + k) : gpuSlot[b] < 0}

\* maybe_offload_during_prefill plans an eviction.
AppendUnderPressure(k) ==
    /\ MayAppend(k) /\ NeedsOffload(k)
    /\ SetSelection(PressureBlocks(total + k), total + k, "append")
    /\ total' = total + k
    /\ UNCHANGED <<ver, tier, gpuSlot, cpuSlot, nvmeSlot, pool, gpu, tiers,
                   todo, pinned, history>>

\* There is a free slot for every incoming block that has none.
AppendDirect(k) ==
    /\ MayAppend(k) /\ ~NeedsOffload(k)
    /\ \E seat \in [Unseated(k) -> free] :
         /\ \A b, c \in Unseated(k) : seat[b] = seat[c] => b = c
         /\ gpuSlot' = [b \in Blocks |-> IF b \in Unseated(k) THEN seat[b]
                                                              ELSE gpuSlot[b]]
         /\ free' = free \ {seat[b] : b \in Unseated(k)}
    /\ tier' = [b \in Blocks |-> IF b \in Unseated(k) THEN "GPU" ELSE tier[b]]
    /\ total' = total + k
    /\ plan' = [NoPlan EXCEPT !.kind = "append", !.t0 = total]
    /\ mode' = "compute"
    /\ UNCHANGED <<ver, cpuSlot, nvmeSlot, inWs, frees, gpu, tiers, pre, todo,
                   pending, pinned, history>>

\* alloc_slot runs dry: truncate_to(total) gives the new blocks' slots back,
\* but a tail block that was off the GPU keeps the slot it was given.
AppendRefused(k) ==
    /\ MayAppend(k) /\ ~NeedsOffload(k)
    /\ Cardinality(Unseated(k)) > Cardinality(free)
    /\ LET tail == {b \in Unseated(k) : Registered(b)}
       IN  \/ /\ tail = {} \/ free = {}
              /\ UNCHANGED <<gpuSlot, tier, free>>
           \/ \E b \in tail, s \in free :
                /\ gpuSlot' = [gpuSlot EXCEPT ![b] = s]
                /\ tier' = [tier EXCEPT ![b] = "GPU"]
                /\ free' = free \ {s}
    /\ pre' = [b \in Blocks |-> Idle]
    /\ UNCHANGED <<total, ver, cpuSlot, nvmeSlot, inWs, frees, gpu, tiers, plan,
                   todo, pending, pinned, mode, history>>

-----------------------------------------------------------------------------
(* The std::async readers of start_prefetch.                                *)

PrefetchRead(b) ==
    /\ mode = "fetch" /\ pre[b].st = "reading"
    /\ nvme.map[b] # NoSlot
    /\ pre' = [pre EXCEPT ![b] = [st |-> "ready",
                                  bytes |-> nvme.mem[nvme.map[b]]]]
    /\ nvme' = Touch(nvme, b)
    /\ UNCHANGED <<total, ver, store, pool, gpu, cpu, scratch, plan, todo,
                   pending, pinned, mode, history>>

\* The block has no slot in the file, or the read fails.
PrefetchThrows(b) ==
    /\ mode = "fetch" /\ pre[b].st = "reading"
    /\ \/ nvme.map[b] = NoSlot /\ faults' = faults
       \/ nvme.map[b] # NoSlot /\ faults < MaxFaults /\ faults' = faults + 1
    /\ pre' = [pre EXCEPT ![b].st = "failed"]
    /\ UNCHANGED <<total, ver, store, pool, gpu, tiers, plan, todo, pending,
                   pinned, mode, thrown, spilled>>

-----------------------------------------------------------------------------
(* spill_outgoing                                                           *)

\* Mutant of Fetched: a failed read is waited for as if it were running.
FetchedReady == \A b \in Blocks : pre[b].st \in {"none", "ready"}
Fetched == \A b \in Blocks : pre[b].st # "reading"
Throw   == mode' = "unwind" /\ thrown' = TRUE
First(b, ids) == b \in ids /\ \A c \in ids : b <= c

SpillBegin ==
    /\ mode = "fetch" /\ Fetched
    /\ \A b \in Blocks : pre[b].st # "failed"
    /\ frees' = {} /\ todo' = plan.out /\ mode' = "spill"
    /\ UNCHANGED <<total, ver, store, free, gpu, tiers, pre, plan, pending,
                   pinned, history>>

\* wait_prefetch rethrows the first failure.
SpillThrows ==
    /\ mode = "fetch" /\ Fetched
    /\ \E b \in Blocks : pre[b].st = "failed"
    /\ Throw
    /\ UNCHANGED <<total, ver, store, pool, gpu, tiers, pre, plan, todo,
                   pending, pinned, faults, spilled>>

\* copy_block_to_host fills scratch_ when the block has a slot; otherwise
\* scratch_ keeps what the last copy left there.
Outgoing(b) == IF gpuSlot[b] >= 0 THEN gpuMem[gpuSlot[b]] ELSE scratch

\* Mutant of Unseat: the slot is forgotten instead of being returned.
UnseatLeaks(b) ==
    /\ spilled' = [spilled EXCEPT ![b] = Outgoing(b)]
    /\ frees' = frees
    /\ todo' = todo \ {b}

Unseat(b) ==
    /\ spilled' = [spilled EXCEPT ![b] = Outgoing(b)]
    /\ frees' = frees \cup ({gpuSlot[b]} \ {NoSlot})
    /\ todo' = todo \ {b}

Spilling(b) == mode = "spill" /\ First(b, todo)

\* stage_out with the CPU arena on: the evicted block, if any, moves on to the
\* file; prev is the nvme_slot read before that.
StageOutToCpu(b) ==
    /\ Spilling(b) /\ CpuOn
    /\ LET p == Place(cpu, b, CpuSlots)
           v == p.victim
           q == Place(nvme, v, NvmeSlots)
           spills == v # NoBlock /\ NvmeOn
           prev == nvmeSlot[b]
           backing == IF spills THEN SpillBacking(q, v) ELSE nvmeSlot
           demoted == v # NoBlock /\ Registered(v) /\ tier[v] = "CPU"
       IN  /\ cpu' = [p.tier EXCEPT !.mem[p.slot] = Outgoing(b)]
           /\ nvme' = IF spills THEN SpillTier(q, cpu.mem[p.slot]) ELSE nvme
           /\ nvmeSlot' = [backing EXCEPT ![b] = IF prev >= 0 THEN prev ELSE @]
           /\ cpuSlot' = [x \in Blocks |->
                            IF x = b THEN p.slot
                            ELSE IF x = v /\ Registered(x) THEN NoSlot
                            ELSE cpuSlot[x]]
           /\ tier' = [x \in Blocks |->
                         IF x = b THEN "CPU"
                         ELSE IF x = v /\ demoted /\ backing[x] >= 0 THEN "SSD"
                         ELSE tier[x]]
           /\ gpuSlot' = [x \in Blocks |->
                            IF x = b \/ (x = v /\ demoted) THEN NoSlot
                                                           ELSE gpuSlot[x]]
    /\ scratch' = Outgoing(b)
    /\ Unseat(b)
    /\ UNCHANGED <<total, ver, inWs, free, gpu, pre, plan, pending, pinned,
                   mode, faults, thrown>>

\* The write of the evicted block fails: both tiers have already re-assigned
\* their slots, the table knows of neither.
VictimSpillThrows(b) ==
    /\ Spilling(b) /\ CpuOn /\ NvmeOn /\ faults < MaxFaults
    /\ LET p == Place(cpu, b, CpuSlots)
           q == Place(nvme, p.victim, NvmeSlots)
       IN  /\ p.victim # NoBlock
           /\ cpu' = p.tier
           /\ nvme' = SpillTier(q, Junk)
           /\ nvmeSlot' = EvictBacking(q)
    /\ scratch' = Outgoing(b)
    /\ faults' = faults + 1 /\ Throw
    /\ UNCHANGED <<total, ver, tier, gpuSlot, cpuSlot, inWs, pool, gpu, pre,
                   plan, todo, pending, pinned, spilled>>

\* stage_out without a CPU arena: the block itself goes to the file.
StageOutToNvme(b) ==
    /\ Spilling(b) /\ ~CpuOn /\ NvmeOn
    /\ LET q == Place(nvme, b, NvmeSlots)
       IN  /\ nvme' = SpillTier(q, Outgoing(b))
           /\ nvmeSlot' = SpillBacking(q, b)
    /\ tier' = [tier EXCEPT ![b] = "SSD"]
    /\ gpuSlot' = [gpuSlot EXCEPT ![b] = NoSlot]
    /\ cpuSlot' = [cpuSlot EXCEPT ![b] = NoSlot]
    /\ scratch' = Outgoing(b)
    /\ Unseat(b)
    /\ UNCHANGED <<total, ver, inWs, free, gpu, cpu, pre, plan, pending, pinned,
                   mode, faults, thrown>>

BlockSpillThrows(b) ==
    /\ Spilling(b) /\ ~CpuOn /\ NvmeOn /\ faults < MaxFaults
    /\ LET q == Place(nvme, b, NvmeSlots)
       IN  nvme' = SpillTier(q, Junk) /\ nvmeSlot' = EvictBacking(q)
    /\ scratch' = Outgoing(b)
    /\ faults' = faults + 1 /\ Throw
    /\ UNCHANGED <<total, ver, tier, gpuSlot, cpuSlot, inWs, pool, gpu, cpu,
                   pre, plan, todo, pending, pinned, spilled>>

\* No lower tier: the block only loses its slot.
StageOutDropped(b) ==
    /\ Spilling(b) /\ ~TiersOn
    /\ tier' = [tier EXCEPT ![b] = "CPU"]
    /\ gpuSlot' = [gpuSlot EXCEPT ![b] = NoSlot]
    /\ cpuSlot' = [cpuSlot EXCEPT ![b] = NoSlot]
    /\ Unseat(b)
    /\ UNCHANGED <<total, ver, nvmeSlot, inWs, free, gpu, tiers, pre, plan,
                   pending, pinned, mode, faults, thrown>>

-----------------------------------------------------------------------------
(* admit_incoming                                                           *)

\* apply_plan_to_kv drops the cells of the evicted blocks, then
\* admit_incoming returns their slots to the pool.
AdmitBegin ==
    /\ mode = "spill" /\ todo = {}
    /\ cells' = [s \in GpuSlots |-> IF cells[s] \in plan.out THEN NoBlock
                                                             ELSE cells[s]]
    /\ free' = free \cup frees /\ frees' = {}
    /\ todo' = plan.in /\ mode' = "admit"
    /\ UNCHANGED <<total, ver, store, gpuMem, tiers, pre, plan, pending, pinned,
                   history>>

Admitting(b) == mode = "admit" /\ First(b, todo)
OnGpu(b)     == tier[b] = "GPU" /\ gpuSlot[b] >= 0

\* The block is still in its slot: nothing to do.
StageInResident(b) ==
    /\ Admitting(b) /\ OnGpu(b)
    /\ todo' = todo \ {b}
    /\ UNCHANGED <<total, ver, store, pool, gpu, tiers, pre, plan, pending,
                   pinned, mode, history>>

ReadsFile(b) ==
    /\ pre[b].st # "ready" /\ cpuSlot[b] < 0 /\ NvmeOn
    /\ nvmeSlot[b] >= 0 \/ tier[b] = "SSD"

\* The bytes stage_in copies to the slot: the prefetched ones first, then the
\* CPU copy, then a synchronous read; none when the block is in no tier.
Source(b) ==
    CASE pre[b].st = "ready" -> {pre[b].bytes}
      [] pre[b].st # "ready" /\ cpuSlot[b] >= 0 -> {cpu.mem[cpuSlot[b]]}
      [] ReadsFile(b) -> {nvme.mem[nvme.map[b]]}
      [] OTHER -> {}

\* alloc_gpu_slot() answers -1 when the pool is empty.
Allocatable == IF free = {} THEN {NoSlot} ELSE free

StageInCold(b) ==
    /\ Admitting(b) /\ ~OnGpu(b)
    /\ ReadsFile(b) => nvme.map[b] # NoSlot
    /\ \E s \in Allocatable :
         /\ free' = free \ {s}
         /\ gpuSlot' = [gpuSlot EXCEPT ![b] = s]
         /\ gpuMem' = [x \in GpuSlots |->
                         IF x = s /\ Source(b) # {}
                         THEN CHOOSE y \in Source(b) : TRUE ELSE gpuMem[x]]
    /\ cpu' = IF cpuSlot[b] >= 0 THEN Release(cpu, b) ELSE cpu
    /\ cpuSlot' = [cpuSlot EXCEPT ![b] = NoSlot]
    /\ tier' = [tier EXCEPT ![b] = "GPU"]
    /\ nvme' = IF ReadsFile(b) THEN Touch(nvme, b) ELSE nvme
    /\ scratch' = IF ReadsFile(b) THEN nvme.mem[nvme.map[b]] ELSE scratch
    /\ todo' = todo \ {b}
    /\ UNCHANGED <<total, ver, nvmeSlot, inWs, frees, cells, pre, plan, pending,
                   pinned, mode, history>>

\* The synchronous read throws after the slot was taken from the pool.
StageInThrows(b) ==
    /\ Admitting(b) /\ ~OnGpu(b) /\ ReadsFile(b)
    /\ \/ nvme.map[b] = NoSlot /\ faults' = faults
       \/ nvme.map[b] # NoSlot /\ faults < MaxFaults /\ faults' = faults + 1
    /\ \E s \in Allocatable : free' = free \ {s}
    /\ Throw
    /\ UNCHANGED <<total, ver, store, frees, gpu, tiers, pre, plan, todo,
                   pending, pinned, spilled>>

-----------------------------------------------------------------------------
(* truncate_to: the dropped blocks give back what their records name.       *)

Dropped(p) == {b \in Live(total) : b * BT >= p}
Hold(p, map, empty) == [b \in Blocks |-> IF b \in Dropped(p) THEN empty
                                                             ELSE map[b]]
\* Mutant of ReleaseAll: the tiers keep the slots of dropped blocks.
ReleaseNone(t, releases) == t
\* releases: the blocks whose records name a slot of the tier.
ReleaseAll(t, releases) ==
    [t EXCEPT !.map = [b \in Blocks |-> IF b \in releases THEN NoSlot
                                                          ELSE t.map[b]],
              !.older = Without(@, releases)]

TruncateRecords(p) ==
    /\ total' = Lesser(total, p)
    /\ tier' = Hold(p, tier, "GPU")
    /\ gpuSlot' = Hold(p, gpuSlot, NoSlot)
    /\ cpuSlot' = Hold(p, cpuSlot, NoSlot)
    /\ nvmeSlot' = Hold(p, nvmeSlot, NoSlot)
    /\ inWs' = Hold(p, inWs, FALSE)
    /\ cpu' = ReleaseAll(cpu, {b \in Dropped(p) : cpuSlot[b] >= 0})
    /\ nvme' = ReleaseAll(nvme, {b \in Dropped(p) : nvmeSlot[b] >= 0})
    /\ pre' = [b \in Blocks |-> Idle]

\* Mutant of DroppedSlots: every block's slot.
DroppedSlotsAll(p) == {gpuSlot[b] : b \in Live(total)} \ {NoSlot}
DroppedSlots(p) == {gpuSlot[b] : b \in Dropped(p)} \ {NoSlot}

\* A refused or failed batch is unregistered: truncate_to(t0).
UnwindAppend ==
    /\ mode = "unwind" /\ plan.kind = "append"
    /\ TruncateRecords(plan.t0)
    /\ free' = free \cup DroppedSlots(plan.t0)
    /\ mode' = "idle"
    /\ UNCHANGED <<ver, frees, gpu, scratch, plan, todo, pending, pinned,
                   history>>

\* apply_selection lets the exception through: nothing is undone.
UnwindSelect ==
    /\ mode = "unwind" /\ plan.kind = "select"
    /\ mode' = "idle"
    /\ UNCHANGED <<total, ver, store, pool, gpu, tiers, pre, plan, todo,
                   pending, pinned, history>>

-----------------------------------------------------------------------------
(* After the plan is executed.                                              *)

\* Every incoming block must have a slot by now.
FinishAppend ==
    /\ mode = "admit" /\ todo = {} /\ plan.kind = "append"
    /\ pre' = [b \in Blocks |-> Idle] /\ pending' = FALSE
    /\ mode' = IF \A b \in Incoming(plan.t0, total) : gpuSlot[b] >= 0
               THEN "compute" ELSE "unwind"
    /\ UNCHANGED <<total, ver, store, pool, gpu, tiers, plan, todo, pinned,
                   history>>

\* The graph writes the rows of the batch into their cells.  The block's bytes
\* are whole only if the earlier rows were.
Compute ==
    /\ mode = "compute"
    /\ LET inc == Incoming(plan.t0, total)
           rows(b) == IF b * BT >= plan.t0
                         \/ gpuMem[gpuSlot[b]] = <<b, ver[b]>>
                      THEN <<b, ver[b] + 1>> ELSE Junk
           at(s) == {b \in inc : gpuSlot[b] = s}
       IN  /\ ver' = [b \in Blocks |-> IF b \in inc THEN ver[b] + 1 ELSE ver[b]]
           /\ gpuMem' = [s \in GpuSlots |->
                           IF at(s) # {} THEN rows(CHOOSE b \in at(s) : TRUE)
                                         ELSE gpuMem[s]]
           /\ cells' = [s \in GpuSlots |->
                          IF \E b \in at(s) : b * BT >= plan.t0
                          THEN CHOOSE b \in at(s) : TRUE ELSE cells[s]]
    /\ mode' = "idle"
    /\ UNCHANGED <<total, store, pool, tiers, pre, plan, todo, pending, pinned,
                   history>>

\* Mutant of CellsHold: a block in a slot is taken to be in the cells.
CellsHoldAny(b) == gpuSlot[b] >= 0
\* gpu_kv_already_resident
CellsHold(b) == gpuSlot[b] >= 0 /\ cells[gpuSlot[b]] = b

\* seat puts the seated blocks in slots 0, 1, 2, ... in block order.
Packed(seat) ==
    /\ \A b, c \in Seated : b < c => seat[b] < seat[c]
    /\ \A b \in Seated : \A s \in 0 .. seat[b] : \E c \in Seated : seat[c] = s

\* write_block_to_gpu: the rows RawKvStore holds, taken here for all computed
\* rows of the block.  PackedCopies has the blocks whose packed copy is short.
FromRaw(b) == <<b, ver[b]>>

\* layout_gpu_slots_by_orig_pos, when some block is out of place: move the
\* bytes of the blocks whose cells are there, rewrite the others from raw K/V.
Relayout ==
    \E seat \in [Seated -> GpuSlots] :
      /\ Packed(seat)
      /\ gpuSlot' = [b \in Blocks |-> IF b \in Seated THEN seat[b]
                                                      ELSE gpuSlot[b]]
      /\ tier' = [b \in Blocks |-> IF b \in Seated THEN "GPU" ELSE tier[b]]
      /\ free' = GpuSlots \ {seat[b] : b \in Seated}
      /\ LET at(s) == {b \in Seated : seat[b] = s}
             bytes(b) == IF CellsHold(b) THEN gpuMem[gpuSlot[b]]
                                         ELSE FromRaw(b)
         IN  /\ gpuMem' = [s \in GpuSlots |->
                             IF at(s) # {} THEN bytes(CHOOSE b \in at(s) : TRUE)
                                           ELSE gpuMem[s]]
             /\ cells' = [s \in GpuSlots |->
                            IF at(s) # {} THEN CHOOSE b \in at(s) : TRUE
                            ELSE IF cells[s] \in Seated THEN NoBlock
                            ELSE cells[s]]

\* Otherwise only the staged-in blocks without cells are rewritten.
RewriteStagedIn ==
    LET at(s) == {b \in plan.in : gpuSlot[b] = s}
        cold(s) == at(s) # {} /\ cells[s] \notin at(s)
    IN  /\ gpuMem' = [s \in GpuSlots |->
                        IF cold(s) THEN LET b == CHOOSE b \in at(s) : TRUE
                                        IN  FromRaw(b)
                                   ELSE gpuMem[s]]
        /\ cells' = [s \in GpuSlots |->
                       IF cold(s) THEN CHOOSE b \in at(s) : TRUE ELSE cells[s]]
        /\ UNCHANGED <<gpuSlot, tier, free>>

FinishSelection ==
    /\ mode = "admit" /\ todo = {} /\ plan.kind = "select"
    /\ IF Packed(gpuSlot) THEN RewriteStagedIn ELSE Relayout
    /\ pre' = [b \in Blocks |-> Idle] /\ pending' = FALSE /\ pinned' = TRUE
    /\ mode' = "idle"
    /\ UNCHANGED <<total, ver, cpuSlot, nvmeSlot, inWs, frees, tiers, plan, todo,
                   history>>

-----------------------------------------------------------------------------
(* Between batches.                                                         *)

\* truncate_cached(p), with the cells of the dropped rows removed.
TruncateCached(p) ==
    /\ mode = "idle" /\ p < total
    /\ TruncateRecords(p)
    /\ free' = free \cup DroppedSlots(p)
    /\ cells' = [s \in GpuSlots |-> IF cells[s] \in Dropped(p) THEN NoBlock
                                                               ELSE cells[s]]
    /\ UNCHANGED <<ver, frees, gpuMem, scratch, plan, todo, pending, pinned,
                   mode, history>>

\* clear(): truncate_to(0) and reset_slots.
Clear ==
    /\ mode = "idle"
    /\ TruncateRecords(0)
    /\ free' = GpuSlots
    /\ cells' = [s \in GpuSlots |-> NoBlock]
    /\ pinned' = FALSE /\ thrown' = FALSE
    /\ UNCHANGED <<ver, frees, gpuMem, scratch, plan, todo, pending, mode,
                   faults, spilled>>

BeginCachedTurn ==
    /\ mode = "idle" /\ pinned' = FALSE
    /\ UNCHANGED <<total, ver, store, pool, gpu, tiers, pre, plan, todo,
                   pending, mode, history>>

KeepSelected ==
    /\ mode = "idle" /\ pinned' = TRUE
    /\ UNCHANGED <<total, ver, store, pool, gpu, tiers, pre, plan, todo,
                   pending, mode, history>>

\* commit_resident: the blocks on the GPU become the working set, provided
\* every one of them, and nothing else, is in the cells.
CommitResident ==
    /\ mode = "idle" /\ ~pending
    /\ \A b \in Seated : tier[b] = "GPU" /\ CellsHold(b)
    /\ \A s \in GpuSlots : cells[s] # NoBlock => gpuSlot[cells[s]] = s
    /\ inWs' = [b \in Blocks |-> b \in Seated]
    /\ plan' = NoPlan
    /\ UNCHANGED <<total, ver, tier, gpuSlot, cpuSlot, nvmeSlot, pool, gpu,
                   tiers, pre, todo, pending, pinned, mode, history>>

-----------------------------------------------------------------------------
\* Calls the server makes.
Request ==
    \/ \E k \in 1 .. MaxAppend : AppendUnderPressure(k)
    \/ \E k \in 1 .. MaxAppend : AppendDirect(k)
    \/ \E k \in 1 .. MaxAppend : AppendRefused(k)
    \/ \E S \in SUBSET Blocks : PrepareSelection(S)
    \/ \E p \in 0 .. MaxBlocks * BT : TruncateCached(p)
    \/ Clear \/ BeginCachedTurn \/ KeepSelected \/ CommitResident

\* Steps of a call in progress.
Progress ==
    \/ \E b \in Blocks : PrefetchRead(b)
    \/ \E b \in Blocks : PrefetchThrows(b)
    \/ SpillBegin \/ SpillThrows
    \/ \E b \in Blocks : StageOutToCpu(b)
    \/ \E b \in Blocks : VictimSpillThrows(b)
    \/ \E b \in Blocks : StageOutToNvme(b)
    \/ \E b \in Blocks : BlockSpillThrows(b)
    \/ \E b \in Blocks : StageOutDropped(b)
    \/ AdmitBegin
    \/ \E b \in Blocks : StageInResident(b)
    \/ \E b \in Blocks : StageInCold(b)
    \/ \E b \in Blocks : StageInThrows(b)
    \/ FinishAppend \/ FinishSelection \/ Compute
    \/ UnwindAppend \/ UnwindSelect

Next == Request \/ Progress

Spec == Init /\ [][Next]_vars

\* A call in progress runs on: the thread is scheduled and every future ends.
FairSpec == Spec /\ WF_vars(Progress)
-----------------------------------------------------------------------------
(* Properties                                                               *)

TierType(Slots) == [map : [Blocks -> Slots \cup {NoSlot}],
                    older : SUBSET (Blocks \X Blocks),
                    mem : [Slots -> Bytes]]

\* The residency records, the slot pool and the control state have their types.
ControlTypeOK ==
    /\ total \in 0 .. MaxBlocks * BT
    /\ tier \in [Blocks -> {"GPU", "CPU", "SSD"}]
    /\ gpuSlot \in [Blocks -> GpuSlots \cup {NoSlot}]
    /\ inWs \in [Blocks -> BOOLEAN]
    /\ free \subseteq GpuSlots /\ frees \subseteq GpuSlots
    /\ plan \in [kind : {"none", "append", "select"},
                  t0 : 0 .. MaxBlocks * BT,
                  out : SUBSET Blocks, in : SUBSET Blocks]
    /\ todo \subseteq Blocks
    /\ pending \in BOOLEAN /\ pinned \in BOOLEAN /\ thrown \in BOOLEAN
    /\ mode \in {"idle", "fetch", "spill", "admit", "compute", "unwind"}

\* The bytes and the lower tiers have theirs.
DataTypeOK ==
    /\ ver \in [Blocks -> 0 .. MaxVer]
    /\ cpuSlot \in [Blocks -> CpuSlots \cup {NoSlot}]
    /\ nvmeSlot \in [Blocks -> NvmeSlots \cup {NoSlot}]
    /\ gpuMem \in [GpuSlots -> Bytes]
    /\ cells \in [GpuSlots -> Blocks \cup {NoBlock}]
    /\ cpu \in TierType(CpuSlots) /\ nvme \in TierType(NvmeSlots)
    /\ scratch \in Bytes
    /\ pre \in [Blocks -> [st : {"none", "reading", "ready", "failed"},
                           bytes : Bytes]]
    /\ faults \in 0 .. MaxFaults
    /\ spilled \in [Blocks -> Bytes]

\* Every variable has its type; in particular slot -1 never enters the pool.
TypeOK == ControlTypeOK /\ DataTypeOK

SeatedSlots == {gpuSlot[b] : b \in Seated}
\* Slots between spill_outgoing and admit_incoming; outside, frees is stale.
InFlight == IF mode = "spill" THEN frees ELSE {}

\* A GPU slot has at most one owner: one block, the pool, or the list of
\* slots about to return to the pool.  Two blocks in one slot would attend to
\* each other's rows; a seated slot in the pool would be handed out again.
SlotOwnership ==
    /\ \A b, c \in Seated : gpuSlot[b] = gpuSlot[c] => b = c
    /\ free \cap SeatedSlots = {}
    /\ InFlight \cap (free \cup SeatedSlots) = {}

\* No slot is ever lost by evicting, admitting, refusing or truncating, as long
\* as no exception unwinds a half-executed plan.
SlotConservation ==
    ~thrown => GpuSlots = free \cup SeatedSlots \cup InFlight

\* The inductive strengthening of the slot properties: besides them, only a
\* registered block has a slot, a block with a slot is in tier GPU (so demoting
\* a block of the CPU tier takes no slot away), and a plan stages in registered
\* blocks only.
UnregisteredUnseated == \A b \in Blocks : ~Registered(b) => gpuSlot[b] = NoSlot
SeatedInGpuTier      == \A b \in Blocks : gpuSlot[b] >= 0 => tier[b] = "GPU"
PlanRegistered ==
    /\ mode \in {"fetch", "spill", "admit"} => plan.in \subseteq Live(total)
    /\ mode = "admit" => todo \subseteq Live(total)
SlotInv ==
    /\ ControlTypeOK
    /\ SlotOwnership /\ SlotConservation
    /\ UnregisteredUnseated /\ SeatedInGpuTier /\ PlanRegistered

\* Evict before stage-in: while a plan is admitted the pool holds a slot for
\* every block still to come, so no stage_in is answered with slot -1.
AdmissionFits ==
    mode = "admit" /\ ~thrown =>
      Cardinality({b \in todo : ~OnGpu(b)}) <= Cardinality(free)

\* Between calls, a block marked as in the working set is on the GPU: the next
\* plan will not stage it in, so it could never come back.
WorkingSetSeated ==
    mode = "idle" /\ ~thrown => \A b \in Live(total) : inWs[b] => OnGpu(b)

\* Between calls, what attention can read is current: cells that hold a
\* block are in that block's slot, and the bytes there are its latest ones,
\* through any eviction, restoration, re-layout and truncation.
AttentionReadsCurrent ==
    mode = "idle" /\ ~thrown =>
      \A s \in GpuSlots : cells[s] # NoBlock =>
        /\ gpuSlot[cells[s]] = s
        /\ gpuMem[s] = <<cells[s], ver[cells[s]]>>

\* Between calls, a record names a CPU slot exactly when the arena holds the
\* block there; dropped blocks hold none.
CpuRecordsAgree == mode = "idle" /\ faults = 0 => cpuSlot = cpu.map

\* The same for the NVMe file.
NvmeRecordsAgree == mode = "idle" /\ faults = 0 => nvmeSlot = nvme.map

\* The residency table and both tiers agree on where every block is.
RecordsAgree == CpuRecordsAgree /\ NvmeRecordsAgree

\* The best lower-tier copy of a block that is off the GPU holds the bytes of
\* its last stage_out: the CPU copy, or the file's when there is no CPU copy.
CopiesHoldLastSpill ==
    faults = 0 =>
      \A b \in Live(total) : ~OnGpu(b) =>
        /\ cpuSlot[b] >= 0 => cpu.mem[cpuSlot[b]] = spilled[b]
        /\ cpuSlot[b] < 0 /\ nvmeSlot[b] >= 0 =>
             nvme.mem[nvmeSlot[b]] = spilled[b]

\* stage_in restores the bytes the block had when it was last staged out.
StageInRestores ==
    faults = 0 => \A b \in Blocks :
      Admitting(b) /\ ~OnGpu(b) /\ (ReadsFile(b) => nvme.map[b] # NoSlot)
        => Source(b) \subseteq {spilled[b]}

\* A CPU slot named by a record holds that block's last spilled bytes, also
\* after a failed spill.
CpuCopiesSurviveFaults ==
    mode = "idle" => \A b \in Live(total) :
      cpuSlot[b] >= 0 /\ ~OnGpu(b) => cpu.mem[cpuSlot[b]] = spilled[b]

\* Once a selection is applied, every block of the working set can be read.
SelectionVisible ==
    mode = "idle" /\ plan.kind = "select" /\ ~thrown =>
      \A b \in Live(total) : inWs[b] => CellsHold(b)

\* Every call returns.
CallReturns == mode # "idle" ~> mode = "idle"
=============================================================================

----------------------------- MODULE HarvestRing -----------------------------
(***************************************************************************)
(* The prefill harvest of llama_memory_kvmem: after each graph the capture *)
(* tensors (K and Q before RoPE) are snapshot on the GPU, copied to one of *)
(* two pinned slots, and packed into the raw store by a worker thread.     *)
(*                                                                         *)
(* Four things run at once: the compute thread, the worker, the CUDA       *)
(* compute stream and the harvest stream.  A stream executes its queue in  *)
(* order; an event wait blocks it until the event's work is done.          *)
(*                                                                         *)
(* An ubatch is a number; the bytes of a buffer are the ubatch that wrote  *)
(* them.  What was packed is the pair of the rows (an ubatch's positions)  *)
(* and the bytes written under them.                                       *)
(***************************************************************************)
EXTENDS Integers, Sequences, FiniteSets, SequencesExt

CONSTANTS
    BatchSize,    \* ubatches of one llama_decode at most
    MaxUbatches,  \* bound: ubatches in all
    MaxFaults     \* bound: CUDA allocations and snapshots that fail

ASSUME RingAssumption ==
    BatchSize \in Nat \ {0} /\ MaxUbatches \in Nat /\ MaxFaults \in Nat

Slots    == {0, 1}
Ubatches == 1 .. MaxUbatches
None     == 0
NewSlot  == [inflight |-> FALSE, pos |-> None]
Waiting  == <<"wait", 0>>
Stopped  == <<"stopped", 0>>

VARIABLES
    mode,     \* "fence": worker and event fence; "sync": worker, no shared
              \* event; "old": KVMEM_HARVEST_SYNC, neither
    compute,  \* work queued on the compute stream
    harvest,  \* work queued on d2h_->stream
    tensor,   \* bytes of the capture tensors
    gpu, pin, \* bytes of each slot's staging buffers
    slots,    \* inflight and pos of each slot
    next,     \* d2h_->next
    posq,     \* pos_queue_
    wq,       \* harvest_w_->q
    curPos,   \* cur_pos_, one variable of both threads
    main,     \* where the compute thread is
    worker,   \* where harvest_loop is, with the slot it commits
    ub,       \* ubatches launched
    turn,     \* the first ubatch of the turn q_sum_ belongs to
    packed,   \* rows written by write_layer_mean_k, with their bytes
    qsum,     \* ubatches in q_sum_
    faults

streams == <<compute, harvest, tensor, gpu, pin>>
host    == <<slots, next, posq, wq, curPos, main, worker>>
vars == <<mode, streams, host, ub, turn, packed, qsum, faults>>

Init ==
    /\ mode \in {"fence", "sync", "old"}
    /\ compute = <<>> /\ harvest = <<>> /\ tensor = None
    /\ gpu = [s \in Slots |-> None] /\ pin = [s \in Slots |-> None]
    /\ slots = [s \in Slots |-> NewSlot] /\ next = 0
    /\ posq = <<>> /\ wq = <<>> /\ curPos = None
    /\ main = "idle" /\ worker = Waiting
    /\ ub = 0 /\ turn = 1 /\ packed = {} /\ qsum = {} /\ faults = 0

Threaded == mode # "old"          \* harvest_worker_on
Op(name, arg) == [op |-> name, arg |-> arg]

-----------------------------------------------------------------------------
(* The GPU.                                                                *)

\* The graph of ubatch arg overwrites the capture tensors; a wait for the
\* snapshot is over when the harvest stream has passed it.
ComputeStep ==
    /\ compute # <<>>
    /\ \/ Head(compute).op = "graph" /\ tensor' = Head(compute).arg
       \/ /\ Head(compute).op = "wait_snap" /\ UNCHANGED tensor
          /\ ~Contains(harvest, Op("snap", Head(compute).arg))
    /\ compute' = Tail(compute)
    /\ UNCHANGED <<harvest, gpu, pin>>

HarvestStep ==
    /\ harvest # <<>>
    /\ LET o == Head(harvest) IN
       \/ /\ o.op = "wait_graph" /\ ~Contains(compute, Op("graph", o.arg))
          /\ UNCHANGED <<gpu, pin>>
       \/ o.op = "d2d" /\ gpu' = [gpu EXCEPT ![o.arg] = tensor] /\ UNCHANGED pin
       \/ o.op = "d2h" /\ pin' = [pin EXCEPT ![o.arg] = gpu[o.arg]] /\ UNCHANGED gpu
       \/ o.op \in {"snap", "done"} /\ UNCHANGED <<gpu, pin>>
    /\ harvest' = Tail(harvest)
    /\ UNCHANGED <<compute, tensor>>

GPU == /\ ComputeStep \/ HarvestStep
       /\ UNCHANGED <<mode, host, ub, turn, packed, qsum, faults>>

\* Synchronizing with a stream: what was queued has run.
Synced(stream) == stream = <<>>

-----------------------------------------------------------------------------
(* d2h_commit of a slot, by the worker or (mode "old") by the compute      *)
(* thread: wait for the copy, then pack the slot's items.                  *)

\* Mutant of CopyDone: the worker does not wait for the copy to finish.
CopyDoneAssumed(s) == TRUE
CopyDone(s) == ~Contains(harvest, Op("done", s))

\* Packing rows p from bytes b: Q rows are summed first, then K is written.
Pack(p, b) ==
    /\ packed' = packed \cup {<<p, b>>}
    /\ qsum' = qsum \cup {b}

\* Mutant of Release: the slot stays in flight.
ReleaseKept(s) == UNCHANGED slots
Release(s) == slots' = [slots EXCEPT ![s] = NewSlot]

WorkerTake ==
    /\ Threaded /\ worker = Waiting /\ wq # <<>>
    /\ worker' = <<"copy", Head(wq)>> /\ wq' = Tail(wq)
    /\ UNCHANGED <<mode, streams, slots, next, posq, curPos, main, ub, turn,
                   packed, qsum, faults>>

\* cur_pos_ = s.pos, once the copy is done.
WorkerStart ==
    \E s \in Slots :
        /\ worker = <<"copy", s>> /\ CopyDone(s)
        /\ curPos' = slots[s].pos /\ worker' = <<"pack", s>>
        /\ UNCHANGED <<mode, streams, slots, next, posq, wq, main, ub, turn,
                       packed, qsum, faults>>

WorkerPack ==
    \E s \in Slots :
        /\ worker = <<"pack", s>>
        /\ Pack(curPos, pin[s]) /\ worker' = <<"free", s>>
        /\ UNCHANGED <<mode, streams, slots, next, posq, wq, curPos, main, ub,
                       turn, faults>>

\* inflight = false under the mutex; every waiter is notified.
WorkerRelease ==
    \E s \in Slots :
        /\ worker = <<"free", s>>
        /\ Release(s) /\ worker' = Waiting
        /\ UNCHANGED <<mode, streams, next, posq, wq, curPos, main, ub, turn,
                       packed, qsum, faults>>

\* Inline commit of slot s, if it is in flight.
InlineCommit(s) ==
    IF slots[s].inflight
    THEN /\ CopyDone(s) /\ curPos' = slots[s].pos
         /\ Pack(slots[s].pos, pin[s]) /\ Release(s)
    ELSE UNCHANGED <<curPos, packed, qsum, slots>>

-----------------------------------------------------------------------------
(* The compute thread.                                                     *)

\* prepare_ubatches: the positions of the batch's ubatches are queued.
Prepare(n) ==
    /\ main = "idle" /\ posq = <<>> /\ ub + n <= MaxUbatches
    /\ posq' = [i \in 1 .. n |-> ub + i]
    /\ main' = "batch"
    /\ UNCHANGED <<mode, streams, slots, next, wq, curPos, worker, ub, turn,
                   packed, qsum, faults>>

\* graph_compute_async, and the entry of harvest_pending.
Launch ==
    /\ main = "batch" /\ posq # <<>>
    /\ ub' = ub + 1 /\ compute' = Append(compute, Op("graph", ub + 1))
    /\ main' = IF Threaded THEN "submit" ELSE "commit_other"
    /\ UNCHANGED <<mode, harvest, tensor, gpu, pin, slots, next, posq, wq,
                   curPos, worker, turn, packed, qsum, faults>>

\* Without a worker the other slot is packed while graph N runs.
CommitOther ==
    /\ main = "commit_other" /\ InlineCommit(1 - next)
    /\ main' = "submit"
    /\ UNCHANGED <<mode, streams, next, posq, wq, worker, ub, turn, faults>>

\* Mutant of SlotFree: the ring does not wait for its oldest slot.
SlotFreeAlways == TRUE
\* d2h_submit waits for the worker to release the slot it takes.
SlotFree == ~slots[next].inflight

\* What the fence queues on the compute stream behind graph u.
FenceWork(u) == <<Op("wait_snap", u)>>

\* d2h_submit with the event fence: both streams get their work, nothing is
\* waited for; the slot is handed to the worker.
SubmitFence ==
    /\ main = "submit" /\ mode = "fence" /\ SlotFree
    /\ harvest' = harvest \o <<Op("wait_graph", ub), Op("d2d", next),
                               Op("snap", ub), Op("d2h", next), Op("done", next)>>
    /\ compute' = compute \o FenceWork(ub)
    /\ slots' = [slots EXCEPT ![next] = [inflight |-> TRUE, pos |-> Head(posq)]]
    /\ posq' = Tail(posq) /\ wq' = Append(wq, next)
    /\ main' = "barrier"
    /\ UNCHANGED <<mode, tensor, gpu, pin, next, curPos, worker, ub, turn,
                   packed, qsum, faults>>

\* Without shared events: the graph is waited for, then the snapshot.
SubmitSync ==
    /\ main = "submit" /\ mode # "fence"
    /\ SlotFree \/ (~Threaded /\ CopyDone(next))
    /\ Synced(compute)
    /\ IF Threaded THEN UNCHANGED <<curPos, packed, qsum>>
       ELSE IF slots[next].inflight
            THEN curPos' = slots[next].pos /\ Pack(slots[next].pos, pin[next])
            ELSE UNCHANGED <<curPos, packed, qsum>>
    /\ harvest' = Append(harvest, Op("d2d", next))
    /\ slots' = [slots EXCEPT ![next] = [inflight |-> FALSE, pos |-> Head(posq)]]
    /\ posq' = Tail(posq) /\ main' = "snap"
    /\ UNCHANGED <<mode, compute, tensor, gpu, pin, next, wq, worker, ub, turn,
                   faults>>

SnapDone ==
    /\ main = "snap" /\ Synced(harvest)
    /\ harvest' = <<Op("d2h", next), Op("done", next)>>
    /\ slots' = [slots EXCEPT ![next].inflight = TRUE]
    /\ wq' = IF Threaded THEN Append(wq, next) ELSE wq
    /\ main' = "barrier"
    /\ UNCHANGED <<mode, compute, tensor, gpu, pin, next, posq, curPos, worker,
                   ub, turn, packed, qsum, faults>>

\* Mutant of GraphDone: harvest returns while the graph may still run.
GraphDoneSkipped == TRUE
\* ggml_backend_event_synchronize(compute_done).
GraphDone == ~Contains(compute, Op("graph", ub))

Barrier ==
    /\ main = "barrier" /\ GraphDone
    /\ next' = 1 - next /\ main' = IF posq = <<>> THEN "idle" ELSE "batch"
    /\ UNCHANGED <<mode, streams, slots, posq, wq, curPos, worker, ub, turn,
                   packed, qsum, faults>>

\* The staging buffers cannot be allocated, or the snapshot fails (its rows
\* go back to the queue): harvest_capture reads the tensors in place, through
\* a copy that is not ordered with the compute stream, and waits afterwards.
SubmitFails ==
    /\ main = "submit" /\ SlotFree /\ faults < MaxFaults
    /\ faults' = faults + 1
    /\ curPos' = Head(posq) /\ posq' = Tail(posq) /\ main' = "capture"
    /\ UNCHANGED <<mode, streams, slots, next, wq, worker, ub, turn, packed, qsum>>

Capture ==
    /\ main = "capture" /\ Pack(curPos, tensor) /\ main' = "sched_sync"
    /\ UNCHANGED <<mode, streams, slots, next, posq, wq, curPos, worker, ub,
                   turn, faults>>

SchedSync ==
    /\ main = "sched_sync" /\ Synced(compute)
    /\ main' = IF posq = <<>> THEN "idle" ELSE "batch"
    /\ UNCHANGED <<mode, streams, slots, next, posq, wq, curPos, worker, ub,
                   turn, packed, qsum, faults>>

\* A CUDA call fails after the slot took the rows: they are not given back,
\* and the fallback takes those of the next ubatch.
SubmitFailsLate ==
    /\ main = "submit" /\ SlotFree /\ faults < MaxFaults /\ Len(posq) > 1
    /\ faults' = faults + 1
    /\ curPos' = posq[2] /\ posq' = Tail(Tail(posq)) /\ main' = "capture"
    /\ UNCHANGED <<mode, streams, slots, next, wq, worker, ub, turn, packed, qsum>>

\* begin_cached_turn, set_query_span: harvest_flush, then reset_query_acc.
\* The destructor flushes too, then stops the worker.
FlushCall(then) ==
    /\ main = "idle" /\ (then = "turn" => turn # ub + 1)
    /\ main' = then
    /\ UNCHANGED <<mode, streams, slots, next, posq, wq, curPos, worker, ub,
                   turn, packed, qsum, faults>>

\* Mutant of Flushed: an empty queue is taken for an idle worker.
FlushedQueueOnly == wq = <<>>
\* harvest_flush waits for the queue and both slots.
Flushed == wq = <<>> /\ \A s \in Slots : ~slots[s].inflight

\* Without a worker the flush commits both slots itself, oldest first.
FlushInline ==
    /\ main \in {"turn", "stop"} /\ ~Threaded
    /\ LET s == IF slots[1 - next].inflight THEN 1 - next ELSE next IN
       slots[s].inflight /\ InlineCommit(s)
    /\ UNCHANGED <<mode, streams, next, posq, wq, main, worker, ub, turn, faults>>

NewTurn ==
    /\ main = "turn" /\ Flushed
    /\ main' = "idle" /\ turn' = ub + 1 /\ qsum' = {}
    /\ UNCHANGED <<mode, streams, slots, next, posq, wq, curPos, worker, ub,
                   packed, faults>>

\* harvest_worker_stop: stop is set under the mutex and the thread joined.
Join ==
    /\ main = "stop" /\ Flushed /\ main' = "join"
    /\ UNCHANGED <<mode, streams, slots, next, posq, wq, curPos, worker, ub,
                   turn, packed, qsum, faults>>
WorkerStops ==
    /\ main = "join" /\ Threaded /\ worker = Waiting /\ wq = <<>>
    /\ worker' = Stopped
    /\ UNCHANGED <<mode, streams, slots, next, posq, wq, curPos, main, ub, turn,
                   packed, qsum, faults>>
Joined ==
    /\ main = "join" /\ (Threaded => worker = Stopped)
    /\ main' = "gone"
    /\ UNCHANGED <<mode, streams, slots, next, posq, wq, curPos, worker, ub,
                   turn, packed, qsum, faults>>

Worker == WorkerTake \/ WorkerStart \/ WorkerPack \/ WorkerRelease \/ WorkerStops
Calls  == \/ \E n \in 1 .. BatchSize : Prepare(n)
          \/ \E then \in {"turn", "stop"} : FlushCall(then)
Main ==
    \/ Launch \/ CommitOther \/ SubmitFence \/ SubmitSync \/ SnapDone
    \/ Barrier \/ SubmitFails \/ SubmitFailsLate \/ Capture \/ SchedSync
    \/ FlushInline \/ NewTurn \/ Join \/ Joined

Next == GPU \/ Worker \/ Calls \/ Main

\* The streams and both threads run on.
Spec == Init /\ [][Next]_vars /\ WF_vars(GPU) /\ WF_vars(Worker) /\ WF_vars(Main)

-----------------------------------------------------------------------------
(* Properties.                                                             *)

TypeOK ==
    /\ \A s \in Slots : gpu[s] \in 0 .. MaxUbatches /\ pin[s] \in 0 .. MaxUbatches
    /\ \A s \in Slots : slots[s] \in [inflight : BOOLEAN, pos : 0 .. MaxUbatches]
    /\ tensor \in 0 .. MaxUbatches /\ curPos \in 0 .. MaxUbatches
    /\ Len(wq) <= 2 /\ next \in Slots

\* Every row packed into the raw store carries the bytes of its own ubatch,
\* although the tensors, the two slots and cur_pos_ are reused while copies
\* are in flight on two streams; as long as every submission succeeded.
RowsHoldTheirUbatch == faults = 0 => \A x \in packed : x[1] = x[2]

\* The same after a failed submission, whose rows harvest_capture reads.
FallbackHoldsItsUbatch == \A x \in packed : x[1] = x[2]

\* No ubatch is skipped: when a flush has passed, everything launched so far
\* is in the raw store, unless a submission failed.
FlushedMeansPacked ==
    faults = 0 /\ main \in {"idle", "join", "gone"} /\ (\A s \in Slots : ~slots[s].inflight) =>
        {x[1] : x \in packed} = 1 .. ub

\* q_sum_ never mixes two turns: the flush comes before the reset, and the
\* worker adds nothing after it.
QueryOfThisTurn == faults = 0 => \A u \in qsum : u >= turn

\* The next ubatch's inputs are set only after the previous graph has run
\* ("so N+1 set_input cannot race graph N").
InputsAfterGraph ==
    Cardinality({i \in DOMAIN compute : compute[i].op = "graph"}) <= 1

\* The compute thread never waits for ever: not for a slot of the ring, not
\* in a flush, not for the worker to stop.
HarvestReturns ==
    (main \in {"submit", "snap", "barrier", "turn", "stop", "join"})
        ~> (main \in {"idle", "batch", "gone"})
=============================================================================

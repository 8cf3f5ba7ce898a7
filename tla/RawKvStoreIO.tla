---------------------------- MODULE RawKvStoreIO ----------------------------
(***************************************************************************)
(* RawKvStore with its NVMe writer: packed GPU-format K rows of one layer, *)
(* written by the compute thread (write_layer_k_gpu), handed to io_loop    *)
(* when a block is full, and read back by copy_k_gpu.  Raw K and packed V  *)
(* follow the same protocol under other keys of the same queue.            *)
(*                                                                         *)
(* One mutex, mu_, guards the table and the queue, and both threads wait   *)
(* on one condition variable, cv_.  A critical section is one action; a    *)
(* wait ends it and a notification lets the thread test its condition      *)
(* again.  Only the destructor touches shared state (stop_io_) without     *)
(* mu_: so the worker's last test before it blocks is a step of its own.   *)
(*                                                                         *)
(* A row's bytes are the number of the write that produced them.           *)
(***************************************************************************)
EXTENDS Integers, Sequences, FiniteSets

CONSTANTS
    BT,          \* block_tokens: rows per block
    MaxBlocks,   \* bound: blocks of history
    NSlots,      \* slots of the NVMe file
    QueueMax,    \* kMaxPendingBytes, in jobs
    MaxWrites,   \* bound: calls that write rows
    MaxFaults    \* bound: NVMe reads and writes that fail

ASSUME IOAssumption ==
    /\ BT \in Nat \ {0} /\ MaxBlocks \in Nat \ {0} /\ NSlots \in Nat \ {0}
    /\ QueueMax \in Nat \ {0} /\ MaxWrites \in Nat /\ MaxFaults \in Nat

Blocks == 0 .. MaxBlocks - 1
Rows   == 0 .. BT - 1
Empty  == <<>>                              \* a cleared std::vector
Data   == [Rows -> -1 .. MaxWrites]         \* -1: bytes no write produced
Zeros  == [r \in Rows |-> -1]

VARIABLES
    nblk,     \* blocks_.size()
    blk,      \* blk[b]: the LayerBlk: k_gpu_tokens, k_gpu, k_gpu_on_nvme,
              \* k_gpu_flushing
    q,        \* q_
    batch,    \* the worker's batch; inflight_ is its length
    file,     \* bytes of each block's slot
    placed,   \* blocks that have a slot
    ioError,  \* io_error_ is set
    stop,     \* stop_io_
    worker,   \* where io_loop is
    call,     \* the call the compute thread is in, and whether it may test
              \* its wait condition
    want,     \* history: want[b][r], the write that last produced row r
    gen,      \* bound: writes so far
    faults    \* bound: failed operations so far

table == <<nblk, blk, want>>
queue == <<q, batch>>
nvme  == <<file, placed>>
vars  == <<table, queue, nvme, ioError, stop, worker, call, gen, faults>>

NoCall   == [op |-> "none", b |-> 0, off |-> 0, n |-> 0, data |-> Empty,
             awake |-> TRUE]
NewBlk   == [tokens |-> 0, ram |-> Empty, onNvme |-> FALSE, flushing |-> FALSE]
Jobs     == q \o batch
Pending  == Len(Jobs)                       \* pending_bytes_, in jobs
Job(b, data) == [b |-> b, data |-> data]

Init ==
    /\ nblk = 0 /\ blk = [b \in Blocks |-> NewBlk]
    /\ q = <<>> /\ batch = <<>>
    /\ file = [b \in Blocks |-> Zeros] /\ placed = {}
    /\ ioError = FALSE /\ stop = FALSE
    /\ worker = "test" /\ call = NoCall
    /\ want = [b \in Blocks |-> Zeros]
    /\ gen = 0 /\ faults = 0

\* mu_ is held across two actions only while the worker is about to block.
LockFree == worker # "blocking"

\* Mutant of Higher: row counts are added up.
HigherSum(x, y) == x + y
Higher(x, y) == IF x < y THEN y ELSE x
Lower(x, y)  == IF x < y THEN x ELSE y

-----------------------------------------------------------------------------
(* write_layer_k_gpu of n rows of block b from row off on.                  *)

\* The capacity test of enqueue_flush.
HasRoom == Pending = 0 \/ Pending + 1 <= QueueMax

\* enqueue_flush waits for room and for the worker to be free of errors.
EnqueueReady == ~ioError /\ HasRoom

\* push_back and notify_one: the worker is the only other thread.
Push(b, data) ==
    /\ q' = Append(q, Job(b, data))
    /\ worker' = IF worker = "blocked" THEN "test" ELSE worker
    /\ call' = NoCall

WaitForRoom(b, data) ==
    /\ call' = [NoCall EXCEPT !.op = "enqueue", !.b = b, !.data = data,
                              !.awake = FALSE]
    /\ UNCHANGED <<q, worker>>

\* Mutant of Before: a partial write does not bring the flushed rows back.
BeforeZero(b) == IF blk[b].ram # Empty THEN blk[b].ram ELSE Zeros
\* The rows a partial write starts from: RAM, else the file, else zeros.
Before(b) == IF blk[b].ram # Empty THEN blk[b].ram
             ELSE IF blk[b].onNvme THEN file[b] ELSE Zeros

\* maybe_flush_k_gpu moves a full block out of RAM, into the queue.
Flushes(tokens, onNvme) == tokens = BT /\ ~onNvme

WriteRows(b, off, n) ==
    LET new(r) == r >= off /\ r < off + n
        data   == [r \in Rows |-> IF new(r) THEN gen + 1 ELSE Before(b)[r]]
        loaded == n = BT \/ (blk[b].ram = Empty /\ blk[b].onNvme)
        tokens == Higher(blk[b].tokens, off + n)
        onNvme == blk[b].onNvme /\ ~loaded
        full   == Flushes(tokens, onNvme)
    IN  /\ blk' = [blk EXCEPT ![b] =
                     [tokens |-> tokens, onNvme |-> onNvme, flushing |-> full,
                      ram |-> IF full THEN Empty ELSE data]]
        /\ want' = [want EXCEPT ![b] = [r \in Rows |-> IF new(r) THEN gen + 1
                                                                 ELSE @[r]]]
        /\ gen' = gen + 1
        /\ IF ~full THEN call' = NoCall /\ UNCHANGED <<q, worker>>
           ELSE IF EnqueueReady THEN Push(b, data)
           ELSE WaitForRoom(b, data)

\* A partial write has to read the block's other rows from the file.
NeedsFile(b, n) == n < BT /\ blk[b].ram = Empty /\ blk[b].onNvme

\* A call starts: it may first have to wait for the block's flush.
WriteBegin(b, off, n) ==
    /\ call = NoCall /\ LockFree /\ ~ioError
    /\ gen < MaxWrites /\ off <= blk[b].tokens /\ off + n <= BT
    /\ nblk' = Higher(nblk, b + 1)
    /\ IF blk[b].flushing
       THEN /\ call' = [NoCall EXCEPT !.op = "write", !.b = b, !.off = off,
                                      !.n = n, !.awake = FALSE]
            /\ UNCHANGED <<blk, want, gen, q, worker>>
       ELSE /\ NeedsFile(b, n) => b \in placed
            /\ WriteRows(b, off, n)
    /\ UNCHANGED <<batch, nvme, ioError, stop, faults>>

Resumes(op) == call.op = op /\ call.awake /\ LockFree

Sleep == call' = [call EXCEPT !.awake = FALSE]

WriteResume ==
    /\ Resumes("write")
    /\ CASE ioError -> call' = NoCall /\ UNCHANGED <<blk, want, gen, q, worker>>
         [] ~ioError /\ blk[call.b].flushing ->
              Sleep /\ UNCHANGED <<blk, want, gen, q, worker>>
         [] OTHER -> /\ NeedsFile(call.b, call.n) => call.b \in placed
                     /\ WriteRows(call.b, call.off, call.n)
    /\ UNCHANGED <<nblk, batch, nvme, ioError, stop, faults>>

EnqueueResume ==
    /\ Resumes("enqueue")
    /\ IF EnqueueReady THEN Push(call.b, call.data)
                       ELSE Sleep /\ UNCHANGED <<q, worker>>
    /\ UNCHANGED <<table, batch, nvme, ioError, stop, gen, faults>>

\* load_k_gpu_nvme fails: the call returns without a word, its rows unwritten.
LoadFails(b, n) ==
    /\ NeedsFile(b, n) /\ ~blk[b].flushing /\ ~ioError
    /\ \/ b \notin placed /\ faults' = faults
       \/ faults < MaxFaults /\ faults' = faults + 1
    /\ UNCHANGED <<table, queue, nvme, ioError, stop, worker, gen>>

WriteLost(b, n) == call = NoCall /\ LockFree /\ LoadFails(b, n) /\ UNCHANGED call
WriteLostLate ==
    Resumes("write") /\ LoadFails(call.b, call.n) /\ call' = NoCall

-----------------------------------------------------------------------------
(* copy_k_gpu                                                               *)

\* The rows it copies once the block is not being flushed.
CanCopy(b, n) ==
    /\ b < nblk /\ blk[b].tokens >= n /\ ~blk[b].flushing
    /\ blk[b].ram # Empty \/ (blk[b].onNvme /\ b \in placed)
Copied(b) == IF blk[b].ram # Empty THEN blk[b].ram ELSE file[b]

ReadWait(b) ==
    /\ call = NoCall /\ LockFree /\ b < nblk /\ blk[b].flushing
    /\ call' = [NoCall EXCEPT !.op = "read", !.b = b, !.awake = FALSE]
    /\ UNCHANGED <<table, queue, nvme, ioError, stop, worker, gen, faults>>

ReadResume ==
    /\ Resumes("read")
    /\ IF blk[call.b].flushing THEN Sleep ELSE call' = NoCall
    /\ UNCHANGED <<table, queue, nvme, ioError, stop, worker, gen, faults>>

-----------------------------------------------------------------------------
(* wait_writes, truncate_to, invalidate_packed_from and clear               *)

Drained == q = <<>> /\ batch = <<>>

Truncated(p) ==
    LET keep == (p + BT - 1) \div BT
        tail == p % BT
    IN  /\ nblk' = Lower(nblk, keep)
        /\ placed' = IF p = 0 THEN {} ELSE {b \in placed : b < keep \/ b >= nblk}
        /\ blk' = [b \in Blocks |->
                     IF b >= keep THEN NewBlk
                     ELSE IF tail # 0 /\ b = keep - 1 /\ nblk' = keep
                     THEN [blk[b] EXCEPT !.tokens = Lower(@, tail)]
                     ELSE blk[b]]

\* Mutant of Invalidated: a dropped block stays marked as being on NVMe.
InvalidatedStale(p) ==
    LET keep(b) == IF b = p \div BT THEN p % BT ELSE 0
        hit(b)  == b >= p \div BT /\ b < nblk
    IN  /\ placed' = {b \in placed : ~hit(b) \/ keep(b) # 0}
        /\ blk' = [b \in Blocks |->
                     IF hit(b) THEN [blk[b] EXCEPT
                                       !.tokens = Lower(@, keep(b)),
                                       !.ram = IF keep(b) = 0 THEN Empty ELSE @]
                     ELSE blk[b]]
        /\ UNCHANGED nblk
Invalidated(p) ==
    LET keep(b) == IF b = p \div BT THEN p % BT ELSE 0
        hit(b)  == b >= p \div BT /\ b < nblk
    IN  /\ placed' = {b \in placed : ~hit(b) \/ keep(b) # 0}
        /\ blk' = [b \in Blocks |->
                     IF ~hit(b) THEN blk[b]
                     ELSE IF keep(b) = 0 THEN NewBlk
                     ELSE [blk[b] EXCEPT !.tokens = Lower(@, keep(b))]]
        /\ UNCHANGED nblk

\* What the call does after wait_writes; that throws once a write has failed.
AfterDrain(op, p) ==
    /\ CASE op = "truncate" /\ ~ioError   -> Truncated(p)
         [] op = "invalidate" /\ ~ioError -> Invalidated(p)
         [] OTHER -> UNCHANGED <<nblk, blk, placed>>
    /\ call' = NoCall
    /\ UNCHANGED <<queue, file, ioError, stop, worker, want, gen, faults>>

DrainBegin(op, p) ==
    /\ call = NoCall /\ LockFree
    /\ IF Drained THEN AfterDrain(op, p)
       ELSE /\ call' = [NoCall EXCEPT !.op = op, !.n = p, !.awake = FALSE]
            /\ UNCHANGED <<table, queue, nvme, ioError, stop, worker, gen,
                           faults>>

DrainResume(op) ==
    /\ Resumes(op)
    /\ IF Drained THEN AfterDrain(op, call.n)
       ELSE Sleep /\ UNCHANGED <<table, queue, nvme, ioError, stop, worker,
                                 gen, faults>>

-----------------------------------------------------------------------------
(* io_loop                                                                  *)

\* The top of the loop, with mu_ held.
WorkerTest ==
    /\ worker = "test"
    /\ CASE q # <<>> -> batch' = q /\ q' = <<>> /\ worker' = "place"
         [] q = <<>> /\ stop -> worker' = "exited" /\ UNCHANGED queue
         [] OTHER -> worker' = "blocking" /\ UNCHANGED queue
    /\ UNCHANGED <<table, nvme, ioError, stop, call, gen, faults>>

\* cv_.wait gives mu_ up and blocks.
WorkerBlock ==
    /\ worker = "blocking" /\ worker' = "blocked"
    /\ UNCHANGED <<table, queue, nvme, ioError, stop, call, gen, faults>>

JobBlocks(jobs) == {jobs[i].b : i \in DOMAIN jobs}
InBatch == JobBlocks(batch)

\* place_block for every job of the batch; it never evicts.
WorkerPlace ==
    /\ worker = "place" /\ Cardinality(placed \cup InBatch) <= NSlots
    /\ placed' = placed \cup InBatch
    /\ worker' = "write"
    /\ UNCHANGED <<table, queue, file, ioError, stop, call, gen, faults>>

\* write_spans: every span, in slot order.
WorkerWrite ==
    /\ worker = "write"
    /\ file' = [b \in Blocks |->
                  IF b \in InBatch
                  THEN batch[CHOOSE i \in DOMAIN batch : batch[i].b = b].data
                  ELSE file[b]]
    /\ worker' = "commit"
    /\ UNCHANGED <<table, queue, placed, ioError, stop, call, gen, faults>>

\* Mutant of NotifyAll: the waiting call is not woken.
NotifyNone == UNCHANGED call
\* cv_.notify_all, for the one thread that may be waiting.
NotifyAll == call' = [call EXCEPT !.awake = TRUE]

WorkerCommit ==
    /\ worker = "commit"
    /\ blk' = [b \in Blocks |->
                 IF b \in InBatch /\ b < nblk
                 THEN [blk[b] EXCEPT !.flushing = FALSE, !.onNvme = TRUE]
                 ELSE blk[b]]
    /\ batch' = <<>> /\ NotifyAll /\ worker' = "test"
    /\ UNCHANGED <<nblk, want, q, nvme, ioError, stop, gen, faults>>

\* Mutant of Restored: the flush stays pending.
RestoredFlushing(b, data) == [blk[b] EXCEPT !.onNvme = FALSE, !.ram = data]
Restored(b, data) ==
    [blk[b] EXCEPT !.flushing = FALSE, !.onNvme = FALSE,
                   !.ram = IF @ = Empty THEN data ELSE @]

\* The file is full, or write_spans fails with any of the spans half written:
\* the rows go back to RAM and the error stays for good.
WorkerFails ==
    /\ \/ /\ worker = "place" /\ Cardinality(placed \cup InBatch) > NSlots
          /\ \E k \in DOMAIN batch :
               LET some == {batch[i].b : i \in 1 .. k - 1}
               IN  /\ Cardinality(placed \cup some) = NSlots
                   /\ batch[k].b \notin placed \cup some
                   /\ placed' = placed \cup some
          /\ UNCHANGED <<file, faults>>
       \/ /\ worker = "write" /\ faults < MaxFaults /\ faults' = faults + 1
          /\ \E torn \in SUBSET InBatch :
               file' = [b \in Blocks |-> IF b \in torn THEN Zeros ELSE file[b]]
          /\ UNCHANGED placed
    /\ blk' = [b \in Blocks |->
                 IF b \in InBatch /\ b < nblk
                 THEN Restored(b, batch[CHOOSE i \in DOMAIN batch :
                                          batch[i].b = b].data)
                 ELSE blk[b]]
    /\ ioError' = TRUE
    /\ batch' = <<>> /\ NotifyAll /\ worker' = "test"
    /\ UNCHANGED <<nblk, want, q, stop, gen>>

-----------------------------------------------------------------------------
(* ~RawKvStore: stop_io_ is set and cv_ notified without mu_, then join.     *)

Destroy ==
    /\ call = NoCall /\ stop' = TRUE
    /\ worker' = IF worker = "blocked" THEN "test" ELSE worker
    /\ call' = [NoCall EXCEPT !.op = "join"]
    /\ UNCHANGED <<table, queue, nvme, ioError, gen, faults>>

Joined ==
    /\ call.op = "join" /\ worker = "exited"
    /\ call' = [call EXCEPT !.op = "destroyed"]
    /\ UNCHANGED <<table, queue, nvme, ioError, stop, worker, gen, faults>>

-----------------------------------------------------------------------------
Worker ==
    \/ WorkerTest \/ WorkerBlock \/ WorkerPlace \/ WorkerWrite
    \/ WorkerCommit \/ WorkerFails

Calls ==
    \/ \E b \in Blocks, off \in Rows, n \in 1 .. BT : WriteBegin(b, off, n)
    \/ \E b \in Blocks, n \in 1 .. BT : WriteLost(b, n)
    \/ \E b \in Blocks : ReadWait(b)
    \/ \E op \in {"truncate", "invalidate"}, p \in 0 .. MaxBlocks * BT :
          DrainBegin(op, p)
    \/ Destroy

Returns ==
    \/ WriteResume \/ WriteLostLate \/ EnqueueResume \/ ReadResume
    \/ \E op \in {"truncate", "invalidate"} : DrainResume(op)
    \/ Joined

Next == Calls \/ Returns \/ Worker

Spec == Init /\ [][Next]_vars

\* Both threads are scheduled; which of the calls is made is left open.
FairSpec == Spec /\ WF_vars(Worker) /\ WF_vars(Returns)

-----------------------------------------------------------------------------
(* Properties                                                               *)

CallType == [op : {"none", "write", "enqueue", "read", "truncate",
                   "invalidate", "join", "destroyed"},
             b : Blocks, off : Rows, n : Nat, data : {Empty} \cup Data,
             awake : BOOLEAN]
BlkType == [tokens : 0 .. BT, ram : {Empty} \cup Data, onNvme : BOOLEAN,
            flushing : BOOLEAN]
JobType == [b : Blocks, data : Data]

\* Every variable has its type.
TypeOK ==
    /\ nblk \in 0 .. MaxBlocks /\ blk \in [Blocks -> BlkType]
    /\ q \in Seq(JobType) /\ batch \in Seq(JobType)
    /\ file \in [Blocks -> Data] /\ placed \subseteq Blocks
    /\ ioError \in BOOLEAN /\ stop \in BOOLEAN
    /\ worker \in {"test", "blocking", "blocked", "place", "write", "commit",
                   "exited"}
    /\ call \in CallType
    /\ want \in [Blocks -> Data]
    /\ gen \in 0 .. MaxWrites /\ faults \in 0 .. MaxFaults

\* copy_k_gpu answers with the last rows written, wherever the flush, a
\* failed flush, a re-write or a truncation has left them.
CopyIsCurrent ==
    \A b \in Blocks, n \in 1 .. BT :
      CanCopy(b, n) => \A r \in 0 .. n - 1 : Copied(b)[r] = want[b][r]

\* The jobs of block b: queued, with the worker, or with the waiting call.
Held(b) == {i \in DOMAIN Jobs : Jobs[i].b = b}
Waiting(b) == call.op = "enqueue" /\ call.b = b

\* A block is marked as being flushed exactly while one job carries its
\* bytes, and that job carries the last rows written: a mark without a job
\* would block its readers for good, two jobs could land out of order.
FlushMarkHasJob ==
    \A b \in Blocks :
      IF b < nblk /\ blk[b].flushing
      THEN /\ Cardinality(Held(b)) = IF Waiting(b) THEN 0 ELSE 1
           /\ \A i \in Held(b) : Jobs[i].data = want[b]
           /\ Waiting(b) => call.data = want[b]
      ELSE Held(b) = {} /\ ~Waiting(b)

\* A block marked as being on NVMe has a slot in the file, and has_k_gpu is
\* true of its rows only if they are somewhere: a block that is harvested is
\* never harvested again, so its rows would be gone.
MarkedBlocksStored ==
    \A b \in Blocks :
      /\ blk[b].onNvme => b \in placed /\ b < nblk
      /\ blk[b].tokens > 0 =>
           blk[b].ram # Empty \/ blk[b].onNvme \/ blk[b].flushing

\* The queue and the worker never hold more than the limit.
QueueBounded == Pending <= QueueMax

\* The inductive strengthening of the three properties above.  A block's rows
\* are in one place: in RAM, in the file, or in the one job that flushes it.
BlkInv(b) ==
    /\ b >= nblk => blk[b] = NewBlk
    /\ blk[b].onNvme => /\ b \in placed /\ blk[b].ram = Empty
                       /\ ~blk[b].flushing
                       /\ \A r \in Rows : r < blk[b].tokens =>
                            file[b][r] = want[b][r]
    /\ blk[b].flushing => blk[b].ram = Empty /\ blk[b].tokens = BT
    /\ blk[b].ram # Empty =>
         \A r \in Rows : r < blk[b].tokens => blk[b].ram[r] = want[b][r]
    /\ blk[b].tokens > 0 =>
         blk[b].ram # Empty \/ blk[b].onNvme \/ blk[b].flushing

\* Every job carries the last rows of a block marked as being flushed.
CarriesRows(b, data) == b < nblk /\ blk[b].flushing /\ data = want[b]
JobsInv(jobs) ==
    /\ \A i \in DOMAIN jobs : CarriesRows(jobs[i].b, jobs[i].data)
    /\ \A i, j \in DOMAIN jobs : jobs[i].b = jobs[j].b => i = j
FlushInv ==
    /\ JobsInv(q) /\ JobsInv(batch) /\ JobBlocks(q) \cap JobBlocks(batch) = {}
    /\ \A b \in Blocks : blk[b].flushing =>
         b \in JobBlocks(q) \cup JobBlocks(batch) \/ Waiting(b)
    /\ call.op = "enqueue" =>
         /\ CarriesRows(call.b, call.data)
         /\ call.b \notin JobBlocks(q) \cup JobBlocks(batch)

\* The worker holds a batch only between taking it and reporting on it; a
\* waiting write keeps to the rows the block had when the call began.
ControlInv ==
    /\ worker \notin {"place", "write", "commit"} => batch = <<>>
    /\ worker \in {"write", "commit"} => InBatch \subseteq placed
    /\ worker = "commit" =>
         \A i \in DOMAIN batch : file[batch[i].b] = batch[i].data
    /\ call.op = "write" =>
         /\ call.b < nblk /\ call.off <= blk[call.b].tokens
         /\ call.n >= 1 /\ call.off + call.n <= BT /\ gen < MaxWrites
StoreInv ==
    /\ TypeOK /\ ControlInv /\ FlushInv
    /\ \A b \in Blocks : BlkInv(b)

\* As long as no write has failed, every call but the destructor returns.
CallReturns ==
    call.op \notin {"none", "join", "destroyed"} ~>
      call.op \in {"none", "join", "destroyed"} \/ ioError

\* Every call but the destructor returns or throws.
CallReturnsOrThrows ==
    call.op \notin {"none", "join", "destroyed"} ~>
      call.op \in {"none", "join", "destroyed"}

\* The destructor returns.
DestructorReturns == call.op = "join" ~> call.op = "destroyed"
=============================================================================

------------------------- MODULE RawKvStoreIOProofs -------------------------
(* The flush protocol of RawKvStore, for every size of block, history, file *)
(* and queue.  StoreInv, the inductive invariant, is in RawKvStoreIO.       *)
EXTENDS RawKvStoreIO, FiniteSetTheorems, TLAPS

-----------------------------------------------------------------------------
(* Jobs of a queue.                                                         *)

\* A job names a block and carries a block's rows.
LEMMA JobTypes ==
    ASSUME NEW s \in Seq(JobType)
    PROVE  /\ \A i \in DOMAIN s : s[i].b \in Blocks /\ s[i].data \in Data
           /\ JobBlocks(s) \subseteq Blocks
<1>1. \A i \in DOMAIN s : s[i] \in JobType
  OBVIOUS
<1>2. \A i \in DOMAIN s : s[i].b \in Blocks /\ s[i].data \in Data
  BY <1>1 DEF JobType
<1>3. QED
  BY <1>2 DEF JobBlocks

\* push_back adds the new job's block to those of the queue.
LEMMA JobBlocksPush ==
    ASSUME NEW s \in Seq(JobType), NEW b \in Blocks, NEW data \in Data
    PROVE  /\ Append(s, Job(b, data)) \in Seq(JobType)
           /\ JobBlocks(Append(s, Job(b, data))) = JobBlocks(s) \cup {b}
           /\ JobBlocks(<<>>) = {}
<1> DEFINE t == Append(s, Job(b, data))
<1>1. Job(b, data) \in JobType
  BY DEF Job, JobType
<1>2. /\ t \in Seq(JobType) /\ Len(t) = Len(s) + 1 /\ DOMAIN s = 1 .. Len(s)
      /\ DOMAIN t = 1 .. Len(t) /\ Len(s) \in Nat
      /\ \A i \in 1 .. Len(s) : t[i] = s[i]
      /\ t[Len(s) + 1] = Job(b, data)
  BY <1>1
<1>3. Job(b, data).b = b
  BY DEF Job
<1>4. JobBlocks(t) \subseteq JobBlocks(s) \cup {b}
  BY <1>2, <1>3 DEF JobBlocks
<1>5. JobBlocks(s) \cup {b} \subseteq JobBlocks(t)
  <2>1. \A i \in DOMAIN s : i \in DOMAIN t /\ s[i].b = t[i].b
    BY <1>2
  <2>2. Len(s) + 1 \in DOMAIN t
    BY <1>2
  <2>3. QED
    BY <2>1, <2>2, <1>2, <1>3 DEF JobBlocks
<1>6. JobBlocks(<<>>) = {}
  BY DEF JobBlocks
<1>7. QED
  BY <1>2, <1>4, <1>5, <1>6

\* A job for a block that has none keeps the jobs of a queue apart.
LEMMA JobsApartPush ==
    ASSUME NEW s \in Seq(JobType), NEW b \in Blocks, NEW data \in Data,
           \A i, j \in DOMAIN s : s[i].b = s[j].b => i = j,
           b \notin JobBlocks(s)
    PROVE  LET t == Append(s, Job(b, data)) IN
           /\ \A i, j \in DOMAIN t : t[i].b = t[j].b => i = j
           /\ \A i \in DOMAIN t : \/ i \in DOMAIN s /\ t[i] = s[i]
                                  \/ t[i].b = b /\ t[i].data = data
<1> DEFINE t == Append(s, Job(b, data))
<1>1. Job(b, data) \in JobType /\ Job(b, data).b = b /\ Job(b, data).data = data
  BY DEF Job, JobType
<1>2. /\ DOMAIN s = 1 .. Len(s) /\ Len(s) \in Nat
      /\ DOMAIN t = 1 .. (Len(s) + 1)
      /\ \A i \in 1 .. Len(s) : t[i] = s[i]
      /\ t[Len(s) + 1] = Job(b, data)
  BY <1>1
<1>3. \A i \in 1 .. Len(s) : s[i].b # b
  BY <1>2 DEF JobBlocks
<1>4. \A i \in DOMAIN t : i \in 1 .. Len(s) \/ i = Len(s) + 1
  BY <1>2
<1>5. QED
  BY <1>1, <1>2, <1>3, <1>4

-----------------------------------------------------------------------------
(* The initial state.                                                       *)

LEMMA NoCallType == NoCall \in CallType
BY IOAssumption DEF NoCall, CallType, Blocks, Rows, Empty

LEMMA NewBlkType == NewBlk \in BlkType
BY IOAssumption DEF NewBlk, BlkType, Empty

LEMMA ZerosType == Zeros \in Data
BY IOAssumption DEF Zeros, Data

LEMMA InitStore == Init => StoreInv /\ QueueBounded
<1> SUFFICES ASSUME Init PROVE StoreInv /\ QueueBounded
  OBVIOUS
<1>1. blk \in [Blocks -> BlkType] /\ file \in [Blocks -> Data]
      /\ want \in [Blocks -> Data] /\ call \in CallType
  BY NewBlkType, ZerosType, NoCallType DEF Init
<1>2. q \in Seq(JobType) /\ batch \in Seq(JobType)
  BY DEF Init
<1>3. TypeOK
  <2>1. nblk \in 0 .. MaxBlocks /\ gen \in 0 .. MaxWrites /\ faults \in 0 .. MaxFaults
    BY IOAssumption DEF Init
  <2>2. /\ placed \subseteq Blocks /\ ioError \in BOOLEAN /\ stop \in BOOLEAN
        /\ worker \in {"test", "blocking", "blocked", "place", "write", "commit",
                       "exited"}
    BY DEF Init
  <2>3. QED
    BY <1>1, <1>2, <2>1, <2>2 DEF TypeOK
<1>4. call.op = "none" /\ JobBlocks(q) = {} /\ JobBlocks(batch) = {}
  BY DEF Init, NoCall, JobBlocks
<1>5. ControlInv
  BY <1>4 DEF Init, ControlInv
<1>6. \A b \in Blocks : blk[b] = NewBlk /\ blk[b].tokens = 0 /\ ~blk[b].flushing
                        /\ ~blk[b].onNvme /\ blk[b].ram = Empty
  BY DEF Init, NewBlk
<1>7. JobsInv(q) /\ JobsInv(batch)
  BY DEF Init, JobsInv
<1>8. FlushInv
  BY <1>4, <1>6, <1>7 DEF FlushInv
<1>9. \A b \in Blocks : BlkInv(b)
  BY <1>6 DEF BlkInv
<1>10. QueueBounded
  BY IOAssumption DEF Init, QueueBounded, Pending, Jobs
<1>11. QED
  BY <1>3, <1>5, <1>8, <1>9, <1>10 DEF StoreInv

-----------------------------------------------------------------------------
(* write_layer_k_gpu                                                        *)

\* The rows a write leaves behind are its own and, below the row count, those
\* written before.
LEMMA WrittenRows ==
    ASSUME TypeOK, NEW b \in Blocks, BlkInv(b), NEW off \in Rows,
           NEW n \in 1 .. BT, off <= blk[b].tokens, off + n <= BT,
           ~blk[b].flushing,
           NEW data, data = [r \in Rows |-> IF r >= off /\ r < off + n
                                            THEN gen + 1 ELSE Before(b)[r]],
           NEW w, w = [r \in Rows |-> IF r >= off /\ r < off + n
                                      THEN gen + 1 ELSE want[b][r]],
           gen < MaxWrites
    PROVE  /\ data \in Data /\ w \in Data
           /\ Higher(blk[b].tokens, off + n) \in 1 .. BT
           /\ \A r \in Rows : r < Higher(blk[b].tokens, off + n) =>
                data[r] = w[r]
<1>1. blk[b] \in BlkType /\ want[b] \in Data /\ file[b] \in Data /\ gen \in Nat
      /\ gen + 1 \in -1 .. MaxWrites /\ BT \in Nat
  BY IOAssumption DEF TypeOK
<1>2. /\ blk[b].tokens \in 0 .. BT
      /\ blk[b].ram \in {Empty} \cup Data
      /\ off \in Nat /\ off < BT /\ n \in Nat /\ n > 0
  BY <1>1 DEF BlkType, Rows
<1>3. Before(b) \in Data
  BY <1>1, <1>2, ZerosType DEF Before
<1>4. /\ \A r \in Rows : Before(b)[r] \in -1 .. MaxWrites
      /\ \A r \in Rows : want[b][r] \in -1 .. MaxWrites
  BY <1>1, <1>3 DEF Data
<1>5. data \in Data /\ w \in Data
  BY <1>1, <1>4 DEF Data
<1>6. Higher(blk[b].tokens, off + n) \in 1 .. BT
  BY <1>1, <1>2 DEF Higher
<1>7. ASSUME NEW r \in Rows, r < blk[b].tokens
      PROVE  Before(b)[r] = want[b][r]
  <2>1. blk[b].tokens > 0
    BY <1>2, <1>7 DEF Rows
  <2>2. blk[b].ram # Empty \/ (blk[b].ram = Empty /\ blk[b].onNvme)
    BY <2>1 DEF BlkInv
  <2>3. QED
    BY <1>7, <2>2 DEF BlkInv, Before
<1>8. ASSUME NEW r \in Rows, r < Higher(blk[b].tokens, off + n),
             ~(r >= off /\ r < off + n)
      PROVE  r < blk[b].tokens
  BY <1>2, <1>8 DEF Higher, Rows
<1>9. QED
  BY <1>5, <1>6, <1>7, <1>8

\* Queueing the rows of a marked block that has no job leaves every mark with
\* one job.
LEMMA PushFlush ==
    ASSUME q \in Seq(JobType), batch \in Seq(JobType),
           NEW b \in Blocks, NEW data \in Data, Push(b, data), UNCHANGED batch,
           b < nblk' /\ blk'[b].flushing /\ data = want'[b],
           \A i \in DOMAIN q : LET c == q[i].b IN
             c < nblk' /\ blk'[c].flushing /\ q[i].data = want'[c],
           \A i, j \in DOMAIN q : q[i].b = q[j].b => i = j,
           b \notin JobBlocks(q) \cup JobBlocks(batch),
           JobBlocks(q) \cap JobBlocks(batch) = {}, JobsInv(batch)',
           \A c \in Blocks : blk'[c].flushing =>
             c \in JobBlocks(q) \cup JobBlocks(batch) \cup {b}
    PROVE  FlushInv' /\ q' \in Seq(JobType)
<1>1. q' = Append(q, Job(b, data)) /\ call'.op = "none"
  BY DEF Push, NoCall
<1>2. q' \in Seq(JobType) /\ JobBlocks(q') = JobBlocks(q) \cup {b}
  BY <1>1, JobBlocksPush
<1>3. /\ \A i, j \in DOMAIN q' : q'[i].b = q'[j].b => i = j
      /\ \A i \in DOMAIN q' : \/ i \in DOMAIN q /\ q'[i] = q[i]
                              \/ q'[i].b = b /\ q'[i].data = data
  BY <1>1, JobsApartPush
<1>4. JobsInv(q)'
  BY <1>3 DEF JobsInv, CarriesRows
<1>5. JobBlocks(q)' = JobBlocks(q) \cup {b} /\ JobBlocks(batch)' = JobBlocks(batch)
  <2>1. JobBlocks(q)' = JobBlocks(q') /\ JobBlocks(batch)' = JobBlocks(batch')
    BY DEF JobBlocks
  <2>2. JobBlocks(batch') = JobBlocks(batch)
    BY Zenon
  <2>3. QED
    BY <1>2, <2>1, <2>2
<1>6. QED
  BY <1>1, <1>2, <1>4, <1>5 DEF FlushInv

\* There is room for one more job.
LEMMA PushBounded ==
    ASSUME q \in Seq(JobType), batch \in Seq(JobType), HasRoom,
           NEW b \in Blocks, NEW data \in Data, Push(b, data), UNCHANGED batch
    PROVE  QueueBounded'
<1>1. Job(b, data) \in JobType
  BY DEF Job, JobType
<1>2. q' = Append(q, Job(b, data)) /\ batch' = batch
  BY DEF Push
<1>3. /\ Len(q') = Len(q) + 1 /\ q' \in Seq(JobType)
      /\ Len(q) \in Nat /\ Len(batch) \in Nat
  BY <1>1, <1>2
<1>4. Len(q \o batch) = Len(q) + Len(batch)
  OBVIOUS
<1>5. Len(q' \o batch') = Len(q) + 1 + Len(batch)
  BY <1>2, <1>3
<1>6. QED
  BY <1>3, <1>4, <1>5, IOAssumption DEF QueueBounded, HasRoom, Pending, Jobs

\* A write that need not wait keeps the invariant, whether it leaves the block
\* in RAM, queues it or has to wait for room.
LEMMA WriteRowsStore ==
    ASSUME StoreInv, QueueBounded,
           NEW b \in Blocks, NEW off \in Rows, NEW n \in 1 .. BT,
           off <= blk[b].tokens, off + n <= BT, ~blk[b].flushing,
           gen < MaxWrites, call.op # "enqueue",
           nblk' = Higher(nblk, b + 1),
           WriteRows(b, off, n),
           UNCHANGED <<batch, nvme, ioError, stop, faults>>
    PROVE  StoreInv' /\ QueueBounded'
<1> DEFINE data == [r \in Rows |-> IF r >= off /\ r < off + n
                                   THEN gen + 1 ELSE Before(b)[r]]
           w == [r \in Rows |-> IF r >= off /\ r < off + n
                                THEN gen + 1 ELSE want[b][r]]
           tokens == Higher(blk[b].tokens, off + n)
           full == tokens = BT
<1>1. BlkInv(b) /\ TypeOK /\ FlushInv /\ ControlInv
  BY DEF StoreInv
<1>2. /\ data \in Data /\ w \in Data /\ tokens \in 1 .. BT
      /\ \A r \in Rows : r < tokens => data[r] = w[r]
  BY <1>1, WrittenRows
<1> HIDE DEF data, w, tokens
<1>3. data # Empty
  <2>1. 0 \in DOMAIN data
    BY <1>2, IOAssumption DEF Data, Rows
  <2>2. QED
    BY <2>1 DEF Empty
<1>4. (blk[b].onNvme /\ ~(n = BT \/ (blk[b].ram = Empty /\ blk[b].onNvme))) = FALSE
  BY <1>1 DEF BlkInv
<1>5. /\ blk' = [blk EXCEPT ![b] = [tokens |-> tokens, onNvme |-> FALSE,
                     flushing |-> full, ram |-> IF full THEN Empty ELSE data]]
      /\ want' = [want EXCEPT ![b] = w]
      /\ gen' = gen + 1
  <2>1. blk[b] \in BlkType /\ want \in [Blocks -> Data]
    BY <1>1 DEF TypeOK
  <2>2. QED
    BY <1>4, <2>1 DEF WriteRows, Flushes, data, w, tokens
<1>6. b \notin JobBlocks(q) \cup JobBlocks(batch)
  BY <1>1 DEF FlushInv, JobsInv, CarriesRows, JobBlocks
<1>7. /\ nblk' \in 0 .. MaxBlocks /\ nblk <= nblk' /\ b < nblk' /\ nblk \in Nat
      /\ b \in Nat
  BY <1>1, IOAssumption DEF TypeOK, Higher, Blocks
<1>8. /\ \A c \in Blocks : c # b => blk'[c] = blk[c] /\ want'[c] = want[c]
      /\ blk'[b] = [tokens |-> tokens, onNvme |-> FALSE, flushing |-> full,
                    ram |-> IF full THEN Empty ELSE data]
      /\ want'[b] = w
  BY <1>1, <1>5 DEF TypeOK
<1>20. /\ blk'[b].tokens = tokens /\ blk'[b].onNvme = FALSE
      /\ blk'[b].flushing = full
      /\ blk'[b].ram = IF full THEN Empty ELSE data
  <2>1. blk'[b].tokens = tokens
    BY <1>8
  <2>2. blk'[b].onNvme = FALSE
    BY <1>8
  <2>3. blk'[b].flushing = full
    BY <1>8
  <2>4. blk'[b].ram = IF full THEN Empty ELSE data
    BY <1>8
  <2>5. QED
    BY <2>1, <2>2, <2>3, <2>4
<1>9. \A c \in Blocks : BlkInv(c)'
  <2>1. BlkInv(b)'
    <3>2. /\ blk'[b].flushing \/ blk'[b].ram # Empty
          /\ blk'[b].flushing => blk'[b].ram = Empty /\ blk'[b].tokens = BT
          /\ blk'[b].ram # Empty => blk'[b].ram = data
      BY <1>3, <1>20, Zenon
    <3>3. ~(b >= nblk')
      BY <1>7
    <3>4. QED
      BY <1>2, <1>8, <1>20, <3>2, <3>3 DEF BlkInv
  <2>2. ASSUME NEW c \in Blocks, c # b PROVE BlkInv(c)'
    <3>1. BlkInv(c) /\ c \in Nat
      BY DEF StoreInv, Blocks
    <3>2. QED
      BY <2>2, <3>1, <1>7, <1>8 DEF BlkInv, nvme
  <2>3. QED
    BY <2>1, <2>2
<1>10. /\ blk' \in [Blocks -> BlkType] /\ want' \in [Blocks -> Data]
       /\ gen' \in 0 .. MaxWrites
  <2>1. [tokens |-> tokens, onNvme |-> FALSE, flushing |-> full,
         ram |-> IF full THEN Empty ELSE data] \in BlkType
    BY <1>2 DEF BlkType
  <2>2. QED
    BY <1>1, <1>2, <1>5, <2>1, IOAssumption DEF TypeOK
\* The write leaves the block in RAM, queues it, or waits with it.
<1>11. \/ ~full /\ call' = NoCall /\ UNCHANGED <<q, worker>>
       \/ full /\ EnqueueReady /\ Push(b, data)
       \/ full /\ WaitForRoom(b, data)
  BY <1>4 DEF WriteRows, Flushes, data, tokens
<1>12. \A c \in JobBlocks(q) \cup JobBlocks(batch) : \A d :
          CarriesRows(c, d) => c < nblk' /\ blk'[c].flushing /\ d = want'[c]
  <2>1. JobBlocks(q) \subseteq Blocks /\ JobBlocks(batch) \subseteq Blocks
    BY <1>1, JobTypes DEF TypeOK
  <2>2. QED
    BY <2>1, <1>6, <1>7, <1>8 DEF CarriesRows, Blocks
<1>13. JobsInv(batch)'
  BY <1>1, <1>12 DEF FlushInv, JobsInv, CarriesRows, JobBlocks
<1>14. /\ \A i \in DOMAIN q : LET c == q[i].b IN
              c # b /\ c < nblk' /\ blk'[c].flushing /\ q[i].data = want'[c]
       /\ \A i, j \in DOMAIN q : q[i].b = q[j].b => i = j
  BY <1>1, <1>6, <1>12 DEF FlushInv, JobsInv, CarriesRows, JobBlocks
<1>15. \A c \in Blocks : blk'[c].flushing /\ c # b =>
          c \in JobBlocks(q) \cup JobBlocks(batch)
  BY <1>1, <1>8 DEF FlushInv, Waiting
<1>16. q \in Seq(JobType) /\ batch \in Seq(JobType) /\ call \in CallType
  BY <1>1 DEF TypeOK
<1>17. full => blk'[b].flushing /\ data = want'[b]
  <2>1. full => \A r \in Rows : data[r] = w[r]
    BY <1>2 DEF Rows
  <2>2. full => data = w
    BY <1>2, <2>1 DEF Data
  <2>3. QED
    BY <2>2, <1>8, <1>20
<1>18. CASE ~full /\ call' = NoCall /\ UNCHANGED <<q, worker>>
  <2>1. call'.op = "none" /\ call' \in CallType
    BY <1>18, NoCallType DEF NoCall
  <2>2. FlushInv'
    <3>1. JobsInv(q)'
      BY <1>14, <1>18 DEF JobsInv, CarriesRows
    <3>2. \A c \in Blocks : blk'[c].flushing =>
            c \in JobBlocks(q)' \cup JobBlocks(batch)'
      BY <1>15, <1>18, <1>20 DEF JobBlocks
    <3>3. (JobBlocks(q) \cap JobBlocks(batch) = {})'
      BY <1>1, <1>18 DEF FlushInv, JobBlocks
    <3>4. QED
      BY <2>1, <3>1, <3>2, <3>3, <1>13 DEF FlushInv
  <2>3. ControlInv'
    BY <1>1, <1>18, <2>1 DEF ControlInv, InBatch, JobBlocks, nvme
  <2>4. TypeOK'
    BY <1>1, <1>7, <1>10, <1>18, <2>1 DEF TypeOK, nvme
  <2>5. QueueBounded'
    BY <1>18 DEF QueueBounded, Pending, Jobs
  <2>6. QED
    BY <1>9, <2>2, <2>3, <2>4, <2>5 DEF StoreInv
<1>19. CASE full /\ EnqueueReady /\ Push(b, data)
  <2>1. call' = NoCall /\ call'.op = "none" /\ call' \in CallType
    BY <1>19, NoCallType DEF NoCall, Push
  <2>2. FlushInv' /\ q' \in Seq(JobType)
    <3>1. JobBlocks(q) \cap JobBlocks(batch) = {}
      BY <1>1 DEF FlushInv
    <3>2. UNCHANGED batch
      OBVIOUS
    <3>3. \A c \in Blocks : blk'[c].flushing =>
            c \in JobBlocks(q) \cup JobBlocks(batch) \cup {b}
      BY <1>15
    <3>4. b < nblk' /\ blk'[b].flushing /\ data = want'[b]
      BY <1>7, <1>17, <1>19
    <3>5. QED
      BY <1>2, <1>6, <1>13, <1>14, <1>16, <1>19, <3>1, <3>2, <3>3, <3>4, PushFlush
  <2>3. worker' \in {worker, "test"} /\ (worker' = "test" => worker \in {"test", "blocked"})
    BY <1>19 DEF Push
  <2>4. ControlInv'
    BY <1>1, <2>1, <2>3 DEF ControlInv, InBatch, JobBlocks, nvme
  <2>5. TypeOK'
    BY <1>1, <1>7, <1>10, <2>1, <2>2, <2>3 DEF TypeOK, nvme
  <2>6. QueueBounded'
    BY <1>2, <1>16, <1>19, PushBounded DEF EnqueueReady
  <2>7. QED
    BY <1>9, <2>2, <2>4, <2>5, <2>6 DEF StoreInv
<1>21. CASE full /\ WaitForRoom(b, data)
  <2>1. call' \in CallType /\ call'.op = "enqueue" /\ call'.b = b /\ call'.data = data
    BY <1>2, <1>21, NoCallType DEF WaitForRoom, NoCall, CallType
  <2>2. UNCHANGED <<q, worker>>
    BY <1>21 DEF WaitForRoom
  <2>3. FlushInv'
    <3>1. JobsInv(q)'
      BY <1>14, <2>2 DEF JobsInv, CarriesRows
    <3>2. JobBlocks(q)' = JobBlocks(q) /\ JobBlocks(batch)' = JobBlocks(batch)
      BY <2>2 DEF JobBlocks
    <3>3. \A c \in Blocks : blk'[c].flushing =>
            c \in JobBlocks(q)' \cup JobBlocks(batch)' \/ Waiting(c)'
      BY <1>15, <2>1, <3>2 DEF Waiting
    <3>4. CarriesRows(call.b, call.data)'
      BY <1>7, <1>17, <1>21, <2>1 DEF CarriesRows
    <3>5. QED
      BY <1>1, <1>6, <1>13, <2>1, <3>1, <3>2, <3>3, <3>4 DEF FlushInv
  <2>4. ControlInv'
    BY <1>1, <2>1, <2>2 DEF ControlInv, InBatch, JobBlocks, nvme
  <2>5. TypeOK'
    BY <1>1, <1>7, <1>10, <2>1, <2>2 DEF TypeOK, nvme
  <2>6. QueueBounded'
    BY <2>2 DEF QueueBounded, Pending, Jobs
  <2>7. QED
    BY <1>9, <2>3, <2>4, <2>5, <2>6 DEF StoreInv
<1>30. QED
  BY <1>11, <1>18, <1>19, <1>21

-----------------------------------------------------------------------------
(* Steps that leave the table, the queue and the file alone.                *)

Busy == {"place", "write", "commit"}

\* What the calling thread waits for does not disturb the blocks.
LEMMA QuietStore ==
    ASSUME StoreInv, QueueBounded, UNCHANGED <<table, queue, nvme, gen, ioError>>,
           stop' \in BOOLEAN, faults' \in 0 .. MaxFaults, call' \in CallType,
           worker' \in {"test", "blocking", "blocked", "place", "write",
                        "commit", "exited"},
           worker' = worker \/ (worker \notin Busy /\ worker' \notin Busy),
           call'.op = "enqueue" <=> call.op = "enqueue",
           call'.op = "enqueue" => call'.b = call.b /\ call'.data = call.data,
           call'.op = "write" =>
             /\ call'.b < nblk /\ call'.off <= blk[call'.b].tokens
             /\ call'.n >= 1 /\ call'.off + call'.n <= BT /\ gen < MaxWrites
    PROVE  StoreInv' /\ QueueBounded'
<1>1. UNCHANGED <<nblk, blk, want, q, batch, file, placed, gen, ioError>>
  BY DEF table, queue, nvme
<1>2. TypeOK /\ ControlInv /\ FlushInv /\ \A b \in Blocks : BlkInv(b)
  BY DEF StoreInv
<1>3. TypeOK'
  BY <1>1, <1>2 DEF TypeOK
<1>4. ControlInv'
  <2>1. worker' \in Busy => worker' = worker
    OBVIOUS
  <2>2. QED
    BY <1>1, <1>2, <2>1 DEF ControlInv, InBatch, JobBlocks, Busy
<1>5. \A b \in Blocks : BlkInv(b)'
  BY <1>1, <1>2 DEF BlkInv
<1>6. FlushInv'
  <2>1. JobsInv(q)' /\ JobsInv(batch)' /\ (JobBlocks(q) \cap JobBlocks(batch) = {})'
    <3>1. JobsInv(q)'
      BY <1>1, <1>2 DEF FlushInv, JobsInv, CarriesRows
    <3>2. JobsInv(batch)'
      BY <1>1, <1>2 DEF FlushInv, JobsInv, CarriesRows
    <3>3. (JobBlocks(q) \cap JobBlocks(batch) = {})'
      BY <1>1, <1>2 DEF FlushInv, JobBlocks
    <3>4. QED
      BY <3>1, <3>2, <3>3
  <2>2. JobBlocks(q)' = JobBlocks(q) /\ JobBlocks(batch)' = JobBlocks(batch)
    BY <1>1 DEF JobBlocks
  <2>3. \A b \in Blocks : Waiting(b) => Waiting(b)'
    BY DEF Waiting
  <2>4. QED
    BY <1>1, <1>2, <2>1, <2>2, <2>3 DEF FlushInv, CarriesRows
<1>7. QueueBounded'
  BY <1>1 DEF QueueBounded, Pending, Jobs
<1>8. QED
  BY <1>3, <1>4, <1>5, <1>6, <1>7 DEF StoreInv

\* write_layer_k_gpu, its first part: wait for the block's flush, or write.
LEMMA WriteBeginStore ==
    ASSUME StoreInv, QueueBounded, NEW b \in Blocks, NEW off \in Rows,
           NEW n \in 1 .. BT, WriteBegin(b, off, n)
    PROVE  StoreInv' /\ QueueBounded'
<1>1. TypeOK /\ BlkInv(b) /\ call = NoCall /\ call.op = "none"
  BY DEF StoreInv, WriteBegin, NoCall
<1>2. /\ off <= blk[b].tokens /\ off + n <= BT /\ gen < MaxWrites
      /\ nblk' = Higher(nblk, b + 1)
      /\ UNCHANGED <<batch, nvme, ioError, stop, faults>>
  BY DEF WriteBegin
<1>3. CASE ~blk[b].flushing
  <2>1. WriteRows(b, off, n)
    BY <1>3 DEF WriteBegin
  <2>2. QED
    BY <1>1, <1>2, <1>3, <2>1, WriteRowsStore
<1>4. CASE blk[b].flushing
  <2>1. b < nblk /\ nblk' = nblk
    <3>1. b < nblk
      BY <1>1, <1>4 DEF BlkInv, NewBlk, TypeOK, Blocks
    <3>2. QED
      BY <1>1, <1>2, <3>1 DEF Higher, TypeOK, Blocks
  <2>2. call' = [NoCall EXCEPT !.op = "write", !.b = b, !.off = off, !.n = n,
                               !.awake = FALSE]
        /\ UNCHANGED <<blk, want, gen, q, worker>>
    BY <1>4 DEF WriteBegin
  <2>3. call' \in CallType
    <3>1. call' = [op |-> "write", b |-> b, off |-> off, n |-> n,
                   data |-> Empty, awake |-> FALSE]
      BY <2>2 DEF NoCall
    <3>2. n \in Nat
      BY IOAssumption
    <3>3. QED
      BY <3>1, <3>2 DEF CallType
  <2>4. call'.op = "write" /\ call'.b = b /\ call'.off = off /\ call'.n = n
    BY <2>2 DEF NoCall
  <2>5. UNCHANGED <<table, queue, nvme, gen, ioError, stop, faults, worker>>
    BY <1>2, <2>1, <2>2 DEF table, queue
  <2>6. worker \in {"test", "blocking", "blocked", "place", "write", "commit",
                    "exited"} /\ stop \in BOOLEAN /\ faults \in 0 .. MaxFaults
    BY <1>1 DEF TypeOK
  <2>7. QED
    BY <1>1, <1>2, <2>1, <2>3, <2>4, <2>5, <2>6, QuietStore
<1>5. QED
  BY <1>3, <1>4

\* The types of the scalars, for the steps that leave them alone.
LEMMA QuietTypes ==
    ASSUME TypeOK
    PROVE  /\ worker \in {"test", "blocking", "blocked", "place", "write",
                          "commit", "exited"}
           /\ stop \in BOOLEAN /\ faults \in 0 .. MaxFaults
           /\ call \in CallType
BY DEF TypeOK

\* A call that ends without a write, or goes back to sleep.
LEMMA ReturnsStore ==
    ASSUME StoreInv, QueueBounded,
           UNCHANGED <<table, queue, nvme, gen, ioError, stop, worker>>,
           faults' \in 0 .. MaxFaults,
           Sleep \/ (call' = NoCall /\ call.op # "enqueue")
    PROVE  StoreInv' /\ QueueBounded'
<1>1. TypeOK /\ ControlInv
  BY DEF StoreInv
<1>2. CASE call' = NoCall /\ call.op # "enqueue"
  <2>1. call' \in CallType /\ call'.op = "none"
    BY <1>2, NoCallType DEF NoCall
  <2>2. QED
    BY <1>1, <1>2, <2>1, QuietTypes, QuietStore
<1>3. CASE Sleep
  <2>1. call \in CallType
    BY <1>1, QuietTypes
  <2>2. call' \in CallType /\ call'.op = call.op /\ call'.b = call.b
        /\ call'.off = call.off /\ call'.n = call.n /\ call'.data = call.data
    BY <1>3, <2>1 DEF CallType, Sleep
  <2>3. QED
    BY <1>1, <2>2, QuietTypes, QuietStore DEF ControlInv
<1>4. QED
  BY <1>2, <1>3

\* The same call after it was woken.
LEMMA WriteResumeStore ==
    ASSUME StoreInv, QueueBounded, WriteResume
    PROVE  StoreInv' /\ QueueBounded'
<1>1. TypeOK /\ ControlInv /\ call \in CallType /\ call.op = "write"
  BY QuietTypes DEF StoreInv, WriteResume, Resumes
<1>2. UNCHANGED <<nblk, batch, nvme, ioError, stop, faults>>
  BY DEF WriteResume
<1>3. CASE ioError \/ blk[call.b].flushing
  <2>1. UNCHANGED <<blk, want, gen, q, worker>>
    BY <1>3 DEF WriteResume
  <2>2. call' = NoCall \/ Sleep
    BY <1>3 DEF WriteResume
  <2>3. QED
    BY <1>1, <1>2, <2>1, <2>2, QuietTypes, ReturnsStore DEF table, queue
<1>4. CASE ~ioError /\ ~blk[call.b].flushing
  <2>1. WriteRows(call.b, call.off, call.n)
    BY <1>4 DEF WriteResume
  <2>2. call.b \in Blocks /\ call.off \in Rows /\ call.n \in Nat
    BY <1>1 DEF CallType
  <2>3. /\ call.b < nblk /\ call.off <= blk[call.b].tokens
        /\ call.n >= 1 /\ call.off + call.n <= BT /\ gen < MaxWrites
    BY <1>1 DEF ControlInv
  <2>4. call.n \in 1 .. BT
    BY <2>2, <2>3, IOAssumption DEF Rows
  <2>5. nblk' = Higher(nblk, call.b + 1)
    BY <1>1, <1>2, <2>2, <2>3 DEF Higher, TypeOK, Blocks
  <2>6. QED
    BY <1>1, <1>2, <1>4, <2>1, <2>2, <2>3, <2>4, <2>5, WriteRowsStore
<1>5. QED
  BY <1>3, <1>4

\* enqueue_flush after it was woken: the waiting rows become a job.
LEMMA EnqueueResumeStore ==
    ASSUME StoreInv, QueueBounded, EnqueueResume
    PROVE  StoreInv' /\ QueueBounded'
<1>1. /\ TypeOK /\ ControlInv /\ FlushInv /\ call \in CallType
      /\ call.op = "enqueue" /\ \A b \in Blocks : BlkInv(b)
  BY QuietTypes DEF StoreInv, EnqueueResume, Resumes
<1>2. UNCHANGED <<nblk, blk, want, batch, file, placed, nvme, ioError, stop, gen,
                  faults, table>>
  BY DEF EnqueueResume, table, nvme
<1>3. CASE ~EnqueueReady
  <2>1. UNCHANGED <<q, worker>> /\ Sleep
    BY <1>3 DEF EnqueueResume
  <2>2. UNCHANGED <<table, queue, nvme, gen, ioError, stop, worker>>
    BY <1>2, <2>1 DEF queue
  <2>3. faults' \in 0 .. MaxFaults
    BY <1>1, <1>2 DEF TypeOK
  <2>4. QED
    BY <2>1, <2>2, <2>3, ReturnsStore
<1>4. CASE EnqueueReady
  <2>1. Push(call.b, call.data)
    BY <1>4 DEF EnqueueResume
  <2>2. call.b \in Blocks /\ CarriesRows(call.b, call.data)
        /\ call.b \notin JobBlocks(q) \cup JobBlocks(batch)
    BY <1>1 DEF CallType, FlushInv
  <2>3. call.data \in Data
    BY <1>1, <2>2 DEF CarriesRows, TypeOK
  <2>4. q \in Seq(JobType) /\ batch \in Seq(JobType)
    BY <1>1 DEF TypeOK
  <2>5. call' = NoCall /\ call'.op = "none" /\ call' \in CallType
    BY <2>1, NoCallType DEF NoCall, Push
  <2>6. worker' \in {worker, "test"} /\ (worker' = "test" => worker \in {"test", "blocked"})
    BY <2>1 DEF Push
  <2>7. FlushInv' /\ q' \in Seq(JobType)
    <3>1. /\ \A i \in DOMAIN q : LET c == q[i].b IN
               c < nblk' /\ blk'[c].flushing /\ q[i].data = want'[c]
          /\ \A i, j \in DOMAIN q : q[i].b = q[j].b => i = j
      BY <1>1, <1>2 DEF FlushInv, JobsInv, CarriesRows
    <3>2. JobsInv(batch)'
      BY <1>1, <1>2 DEF FlushInv, JobsInv, CarriesRows
    <3>3. \A c \in Blocks : blk'[c].flushing =>
            c \in JobBlocks(q) \cup JobBlocks(batch) \cup {call.b}
      BY <1>1, <1>2 DEF FlushInv, Waiting
    <3>4. call.b < nblk' /\ blk'[call.b].flushing /\ call.data = want'[call.b]
      BY <1>2, <2>2 DEF CarriesRows
    <3>5. JobBlocks(q) \cap JobBlocks(batch) = {} /\ UNCHANGED batch
      BY <1>1, <1>2 DEF FlushInv
    <3>6. QED
      BY <2>1, <2>2, <2>3, <2>4, <3>1, <3>2, <3>3, <3>4, <3>5, PushFlush
  <2>8. ControlInv'
    BY <1>1, <1>2, <2>5, <2>6 DEF ControlInv, InBatch, JobBlocks
  <2>9. TypeOK'
    BY <1>1, <1>2, <2>5, <2>6, <2>7 DEF TypeOK
  <2>10. \A b \in Blocks : BlkInv(b)'
    BY <1>1, <1>2 DEF BlkInv
  <2>11. QueueBounded'
    BY <1>2, <1>4, <2>1, <2>2, <2>3, <2>4, PushBounded DEF EnqueueReady
  <2>12. QED
    BY <2>7, <2>8, <2>9, <2>10, <2>11 DEF StoreInv
<1>5. QED
  BY <1>3, <1>4

\* A write that cannot read the block back returns without a trace.
LEMMA WriteLostStore ==
    ASSUME StoreInv, QueueBounded,
           (\E b \in Blocks, n \in 1 .. BT : WriteLost(b, n)) \/ WriteLostLate
    PROVE  StoreInv' /\ QueueBounded'
<1>1. TypeOK /\ ControlInv
  BY DEF StoreInv
<1>2. ASSUME NEW b, NEW n, LoadFails(b, n)
      PROVE  /\ UNCHANGED <<table, queue, nvme, gen, ioError, stop, worker>>
             /\ faults' \in 0 .. MaxFaults
  <2>1. faults' = faults \/ (faults < MaxFaults /\ faults' = faults + 1)
    BY <1>2 DEF LoadFails
  <2>2. faults' \in 0 .. MaxFaults
    BY <1>1, <2>1, IOAssumption DEF TypeOK
  <2>3. QED
    BY <1>2, <2>2 DEF LoadFails
<1>3. ASSUME NEW b \in Blocks, NEW n \in 1 .. BT, WriteLost(b, n)
      PROVE  StoreInv' /\ QueueBounded'
  <2>1. LoadFails(b, n) /\ call = NoCall /\ call' = NoCall /\ call.op # "enqueue"
    BY <1>3 DEF WriteLost, NoCall
  <2>2. QED
    BY <1>2, <2>1, ReturnsStore
<1>4. ASSUME WriteLostLate
      PROVE  StoreInv' /\ QueueBounded'
  <2>1. LoadFails(call.b, call.n) /\ call' = NoCall /\ call.op # "enqueue"
    BY <1>4 DEF WriteLostLate, Resumes
  <2>2. QED
    BY <1>2, <2>1, ReturnsStore
<1>5. QED
  BY <1>3, <1>4

\* copy_k_gpu waiting for a block's flush.
LEMMA ReadStore ==
    ASSUME StoreInv, QueueBounded,
           (\E b \in Blocks : ReadWait(b)) \/ ReadResume
    PROVE  StoreInv' /\ QueueBounded'
<1>1. TypeOK
  BY DEF StoreInv
<1>2. ASSUME NEW b \in Blocks, ReadWait(b)
      PROVE  StoreInv' /\ QueueBounded'
  <2>1. call = NoCall /\ call.op = "none"
    BY <1>2 DEF ReadWait, NoCall
  <2>2. call' = [NoCall EXCEPT !.op = "read", !.b = b, !.awake = FALSE]
    BY <1>2 DEF ReadWait
  <2>3. call' \in CallType /\ call'.op = "read"
    BY <2>2, NoCallType DEF CallType, NoCall
  <2>4. UNCHANGED <<table, queue, nvme, gen, ioError, stop, worker, faults>>
    BY <1>2 DEF ReadWait
  <2>5. QED
    BY <1>1, <2>1, <2>3, <2>4, QuietTypes, QuietStore
<1>3. ASSUME ReadResume
      PROVE  StoreInv' /\ QueueBounded'
  <2>1. UNCHANGED <<table, queue, nvme, gen, ioError, stop, worker, faults>>
        /\ call.op # "enqueue"
    BY <1>3 DEF ReadResume, Resumes
  <2>2. call' = NoCall \/ Sleep
    BY <1>3 DEF ReadResume
  <2>3. QED
    BY <1>1, <2>1, <2>2, QuietTypes, ReturnsStore
<1>4. QED
  BY <1>2, <1>3

\* The destructor, and a worker that finds nothing to do.
LEMMA IdleStore ==
    ASSUME StoreInv, QueueBounded, Destroy \/ Joined \/ WorkerBlock
    PROVE  StoreInv' /\ QueueBounded'
<1>1. TypeOK /\ ControlInv /\ call \in CallType
  BY QuietTypes DEF StoreInv
<1>2. CASE Destroy
  <2>1. call.op = "none" /\ call' = [NoCall EXCEPT !.op = "join"]
    BY <1>2 DEF Destroy, NoCall
  <2>2. call' \in CallType /\ call'.op = "join"
    BY <2>1, NoCallType DEF CallType, NoCall
  <2>3. /\ UNCHANGED <<table, queue, nvme, gen, ioError, faults>> /\ stop' = TRUE
        /\ worker' = worker \/ (worker = "blocked" /\ worker' = "test")
    BY <1>2 DEF Destroy
  <2>4. QED
    BY <1>1, <2>1, <2>2, <2>3, QuietTypes, QuietStore DEF Busy
<1>3. CASE Joined
  <2>1. call.op = "join" /\ call' = [call EXCEPT !.op = "destroyed"]
    BY <1>3 DEF Joined
  <2>2. call' \in CallType /\ call'.op = "destroyed"
    BY <1>1, <2>1 DEF CallType
  <2>3. UNCHANGED <<table, queue, nvme, gen, ioError, stop, worker, faults>>
    BY <1>3 DEF Joined
  <2>4. QED
    BY <1>1, <2>1, <2>2, <2>3, QuietTypes, QuietStore
<1>4. CASE WorkerBlock
  <2>1. /\ UNCHANGED <<table, queue, nvme, gen, ioError, stop, call, faults>>
        /\ worker = "blocking" /\ worker' = "blocked"
    BY <1>4 DEF WorkerBlock
  <2>2. QED
    BY <1>1, <2>1, QuietTypes, QuietStore DEF Busy, ControlInv
<1>5. QED
  BY <1>2, <1>3, <1>4

-----------------------------------------------------------------------------
(* wait_writes, truncate_to and invalidate_packed_from                      *)

\* Nothing is flushing once the queue is drained.
LEMMA DrainedMarks ==
    ASSUME FlushInv, Drained, call.op # "enqueue"
    PROVE  /\ \A b \in Blocks : ~blk[b].flushing
           /\ JobBlocks(q) = {} /\ JobBlocks(batch) = {}
<1>1. JobBlocks(q) = {} /\ JobBlocks(batch) = {}
  BY DEF Drained, JobBlocks
<1>2. QED
  BY <1>1 DEF FlushInv, Waiting

\* Lowering the row count of a block, with its bytes left where they are.
LEMMA LoweredBlk ==
    ASSUME NEW b \in Blocks, BlkInv(b), blk[b] \in BlkType, ~blk[b].flushing,
           NEW k \in Nat
    PROVE  LET u == [blk[b] EXCEPT !.tokens = Lower(@, k)] IN
           /\ u \in BlkType /\ u.tokens <= blk[b].tokens /\ u.tokens \in Nat
           /\ u.ram = blk[b].ram /\ u.onNvme = blk[b].onNvme /\ u.flushing = FALSE
<1> DEFINE u == [blk[b] EXCEPT !.tokens = Lower(@, k)]
<1>1. blk[b].tokens \in 0 .. BT
  BY DEF BlkType
<1>2. Lower(blk[b].tokens, k) \in 0 .. BT /\ Lower(blk[b].tokens, k) <= blk[b].tokens
  BY <1>1, IOAssumption DEF Lower
<1>3. u \in BlkType
  BY <1>2 DEF BlkType
<1>4. u.tokens = Lower(blk[b].tokens, k)
  BY DEF BlkType
<1>5. u.ram = blk[b].ram
  BY DEF BlkType
<1>6. u.onNvme = blk[b].onNvme
  BY DEF BlkType
<1>7. u.flushing = blk[b].flushing
  BY DEF BlkType
<1>8. blk[b].flushing \in BOOLEAN
  BY DEF BlkType
<1>9. QED
  BY <1>1, <1>2, <1>3, <1>4, <1>5, <1>6, <1>7, <1>8, IOAssumption

\* A call that only resets blocks, lowers row counts and gives up the slots of
\* reset blocks keeps the invariant once the queue is drained.
LEMMA ResetStore ==
    ASSUME StoreInv, QueueBounded, Drained, call.op # "enqueue",
           nblk' \in 0 .. MaxBlocks, blk' \in [Blocks -> BlkType],
           placed' \subseteq Blocks, call' = NoCall,
           UNCHANGED <<queue, file, ioError, stop, worker, want, gen, faults>>,
           \A b \in Blocks :
             \/ blk'[b] = NewBlk
             \/ /\ b < nblk' /\ (b \in placed => b \in placed')
                /\ blk'[b].tokens <= blk[b].tokens /\ blk'[b].ram = blk[b].ram
                /\ blk'[b].onNvme = blk[b].onNvme /\ blk'[b].flushing = FALSE
    PROVE  StoreInv' /\ QueueBounded'
<1>1. /\ TypeOK /\ ControlInv /\ FlushInv /\ \A b \in Blocks : BlkInv(b)
      /\ UNCHANGED <<q, batch, file, want, gen, worker>>
  BY DEF StoreInv, queue
<1>2. call'.op = "none" /\ call' \in CallType
  BY NoCallType DEF NoCall
<1>3. q = <<>> /\ batch = <<>>
  BY DEF Drained
<1>4. TypeOK'
  BY <1>1, <1>2 DEF TypeOK
<1>5. ControlInv'
  <2>1. InBatch' = {} /\ DOMAIN batch' = {}
    BY <1>1, <1>3 DEF InBatch, JobBlocks
  <2>2. QED
    BY <1>1, <1>2, <1>3, <2>1 DEF ControlInv
<1>6. \A b \in Blocks : ~blk'[b].flushing
  BY DEF NewBlk
<1>7. FlushInv'
  <2>1. JobsInv(q)' /\ JobsInv(batch)'
    BY <1>1, <1>3 DEF JobsInv
  <2>2. (JobBlocks(q) \cap JobBlocks(batch) = {})'
    BY <1>1, <1>3 DEF JobBlocks
  <2>3. QED
    BY <1>2, <1>6, <2>1, <2>2 DEF FlushInv
<1>8. ASSUME NEW b \in Blocks PROVE BlkInv(b)'
  <2>1. CASE blk'[b] = NewBlk
    BY <2>1 DEF BlkInv, NewBlk
  <2>2. CASE blk'[b] # NewBlk
    <3>1. BlkInv(b) /\ ~(b >= nblk') /\ blk[b] \in BlkType /\ blk'[b] \in BlkType
      BY <1>1, <2>2 DEF TypeOK, Blocks
    <3>2. blk[b].tokens \in Nat /\ blk'[b].tokens \in Nat
      BY <3>1, IOAssumption DEF BlkType
    <3>3. ~blk[b].flushing
      BY <1>1, DrainedMarks
    <3>4. QED
      BY <1>1, <1>6, <2>2, <3>1, <3>2, <3>3 DEF BlkInv, Rows
  <2>3. QED
    BY <2>1, <2>2
<1>9. QueueBounded'
  BY <1>1 DEF QueueBounded, Pending, Jobs
<1>10. QED
  BY <1>4, <1>5, <1>7, <1>8, <1>9 DEF StoreInv

\* truncate_to(p) and invalidate_packed_from(p), after wait_writes.
LEMMA AfterDrainStore ==
    ASSUME StoreInv, QueueBounded, Drained, call.op # "enqueue",
           NEW op, NEW p \in Nat, AfterDrain(op, p)
    PROVE  StoreInv' /\ QueueBounded'
<1>1. /\ TypeOK /\ FlushInv /\ \A b \in Blocks : BlkInv(b)
      /\ call' = NoCall
      /\ UNCHANGED <<queue, file, ioError, stop, worker, want, gen, faults>>
  BY DEF StoreInv, AfterDrain
<1>2. \A b \in Blocks : blk[b] \in BlkType /\ ~blk[b].flushing /\ b \in Nat
  BY <1>1, DrainedMarks DEF TypeOK, Blocks
<1>8. \A b \in Blocks : blk[b].tokens <= blk[b].tokens /\ blk[b].flushing = FALSE
  BY <1>2, IOAssumption DEF BlkType
<1>3. /\ nblk \in 0 .. MaxBlocks /\ placed \subseteq Blocks
      /\ blk \in [Blocks -> BlkType]
  BY <1>1 DEF TypeOK
<1>4. CASE UNCHANGED <<nblk, blk, placed>>
  <2>1. \A b \in Blocks : \/ blk'[b] = NewBlk
             \/ /\ b < nblk' /\ (b \in placed => b \in placed')
                /\ blk'[b].tokens <= blk[b].tokens /\ blk'[b].ram = blk[b].ram
                /\ blk'[b].onNvme = blk[b].onNvme /\ blk'[b].flushing = FALSE
    <3>1. \A b \in Blocks : b < nblk \/ blk[b] = NewBlk
      BY <1>1, <1>2, <1>3 DEF BlkInv
    <3>2. \A b \in Blocks : blk[b].tokens <= blk[b].tokens /\ blk[b].flushing = FALSE
      BY <1>2, IOAssumption DEF BlkType
    <3>3. QED
      BY <1>4, <3>1, <3>2
  <2>2. QED
    BY <1>1, <1>3, <1>4, <2>1, ResetStore
<1>5. CASE Truncated(p)
  <2> DEFINE keep == (p + BT - 1) \div BT
             tail == p % BT
  <2>1. keep \in Nat /\ tail \in Nat /\ (p = 0 => keep = 0)
    BY IOAssumption
  <2> HIDE DEF keep, tail
  <2>2. /\ nblk' = Lower(nblk, keep)
        /\ placed' = IF p = 0 THEN {} ELSE {b \in placed : b < keep \/ b >= nblk}
        /\ blk' = [b \in Blocks |->
                     IF b >= keep THEN NewBlk
                     ELSE IF tail # 0 /\ b = keep - 1 /\ nblk' = keep
                     THEN [blk[b] EXCEPT !.tokens = Lower(@, tail)]
                     ELSE blk[b]]
    BY <1>5 DEF Truncated, keep, tail
  <2>3. nblk' \in 0 .. MaxBlocks /\ placed' \subseteq Blocks
    BY <1>3, <2>1, <2>2, IOAssumption DEF Lower
  <2>4. ASSUME NEW b \in Blocks
        PROVE  /\ blk'[b] \in BlkType
               /\ \/ blk'[b] = NewBlk
                  \/ /\ b < nblk' /\ (b \in placed => b \in placed')
                     /\ blk'[b].tokens <= blk[b].tokens /\ blk'[b].ram = blk[b].ram
                     /\ blk'[b].onNvme = blk[b].onNvme /\ blk'[b].flushing = FALSE
    <3>1. CASE b >= keep
      BY <2>2, <3>1, NewBlkType
    <3>2. CASE b < keep /\ b >= nblk
      <4>1. blk[b] = NewBlk /\ nblk' # keep
        BY <1>1, <1>2, <1>3, <2>1, <2>2, <3>2 DEF BlkInv, Lower
      <4>2. QED
        BY <1>2, <2>1, <2>2, <3>2, <4>1, NewBlkType
    <3>3. CASE b < keep /\ b < nblk
      <4>1. b < nblk' /\ (b \in placed => b \in placed')
        BY <1>2, <1>3, <2>1, <2>2, <3>3 DEF Lower
      <4>2. CASE blk'[b] = blk[b]
        BY <1>2, <1>8, <4>1, <4>2
      <4>3. CASE blk'[b] = [blk[b] EXCEPT !.tokens = Lower(@, tail)]
        <5>1. BlkInv(b) /\ blk[b] \in BlkType /\ ~blk[b].flushing /\ tail \in Nat
          BY <1>1, <1>2, <2>1
        <5>2. QED
          BY <4>1, <4>3, <5>1, LoweredBlk
      <4>4. blk'[b] = blk[b]
              \/ blk'[b] = [blk[b] EXCEPT !.tokens = Lower(@, tail)]
        BY <2>2, <3>3, <1>2, <2>1
      <4>5. QED
        BY <4>2, <4>3, <4>4
    <3>4. b >= keep \/ (b < keep /\ b >= nblk) \/ (b < keep /\ b < nblk)
      BY <1>2, <1>3, <2>1, IOAssumption
    <3>5. QED
      BY <3>1, <3>2, <3>3, <3>4
  <2>5. blk' \in [Blocks -> BlkType]
    BY <2>2, <2>4
  <2>6. QED
    BY <1>1, <2>3, <2>4, <2>5, ResetStore
<1>6. CASE Invalidated(p)
  <2> DEFINE keep(b) == IF b = p \div BT THEN p % BT ELSE 0
             hit(b)  == b >= p \div BT /\ b < nblk
  <2>1. \A b \in Blocks : keep(b) \in Nat
    BY IOAssumption
  <2> HIDE DEF keep, hit
  <2>2. /\ nblk' = nblk
        /\ placed' = {b \in placed : ~hit(b) \/ keep(b) # 0}
        /\ blk' = [b \in Blocks |->
                     IF ~hit(b) THEN blk[b]
                     ELSE IF keep(b) = 0 THEN NewBlk
                     ELSE [blk[b] EXCEPT !.tokens = Lower(@, keep(b))]]
    BY <1>6 DEF Invalidated, keep, hit
  <2>3. nblk' \in 0 .. MaxBlocks /\ placed' \subseteq Blocks
    BY <1>3, <2>2
  <2>4. ASSUME NEW b \in Blocks
        PROVE  /\ blk'[b] \in BlkType
               /\ \/ blk'[b] = NewBlk
                  \/ /\ b < nblk' /\ (b \in placed => b \in placed')
                     /\ blk'[b].tokens <= blk[b].tokens /\ blk'[b].ram = blk[b].ram
                     /\ blk'[b].onNvme = blk[b].onNvme /\ blk'[b].flushing = FALSE
    <3>1. CASE hit(b) /\ keep(b) = 0
      BY <2>2, <3>1, NewBlkType
    <3>2. CASE ~hit(b)
      <4>1. blk'[b] = blk[b] /\ (b \in placed => b \in placed')
        BY <2>2, <3>2
      <4>2. b < nblk \/ blk[b] = NewBlk
        BY <1>1, <1>2, <1>3 DEF BlkInv
      <4>3. QED
        BY <1>2, <2>2, <4>1, <4>2, IOAssumption DEF BlkType
    <3>3. CASE hit(b) /\ keep(b) # 0
      <4>1. blk'[b] = [blk[b] EXCEPT !.tokens = Lower(@, keep(b))]
        BY <2>2, <3>3
      <4>2. b < nblk' /\ (b \in placed => b \in placed')
        BY <2>2, <3>3 DEF hit
      <4>3. QED
        BY <1>1, <1>2, <2>1, <4>1, <4>2, LoweredBlk
    <3>4. QED
      BY <3>1, <3>2, <3>3
  <2>5. blk' \in [Blocks -> BlkType]
    BY <2>2, <2>4
  <2>6. QED
    BY <1>1, <2>3, <2>4, <2>5, ResetStore
<1>7. QED
  BY <1>4, <1>5, <1>6 DEF AfterDrain

\* A call that must wait for the queue, and one that has waited.
LEMMA DrainStore ==
    ASSUME StoreInv, QueueBounded,
           NEW op \in {"truncate", "invalidate"},
           (\E p \in 0 .. MaxBlocks * BT : DrainBegin(op, p)) \/ DrainResume(op)
    PROVE  StoreInv' /\ QueueBounded'
<1>1. TypeOK /\ call \in CallType
  BY QuietTypes DEF StoreInv
<1>2. ASSUME NEW p \in 0 .. MaxBlocks * BT, DrainBegin(op, p)
      PROVE  StoreInv' /\ QueueBounded'
  <2>1. call = NoCall /\ call.op = "none"
    BY <1>2 DEF DrainBegin, NoCall
  <2>2. p \in Nat
    BY IOAssumption
  <2>3. CASE Drained
    BY <1>2, <2>1, <2>2, <2>3, AfterDrainStore DEF DrainBegin
  <2>4. CASE ~Drained
    <3>1. call' = [NoCall EXCEPT !.op = op, !.n = p, !.awake = FALSE]
          /\ UNCHANGED <<table, queue, nvme, ioError, stop, worker, gen, faults>>
      BY <1>2, <2>4 DEF DrainBegin
    <3>2. call' \in CallType /\ call'.op = op
      BY <2>2, <3>1, NoCallType DEF CallType, NoCall
    <3>3. QED
      BY <1>1, <2>1, <3>1, <3>2, QuietTypes, QuietStore
  <2>5. QED
    BY <2>3, <2>4
<1>3. ASSUME DrainResume(op)
      PROVE  StoreInv' /\ QueueBounded'
  <2>1. call.op = op /\ call.op # "enqueue" /\ call.n \in Nat
    BY <1>1, <1>3 DEF DrainResume, Resumes, CallType
  <2>2. CASE Drained
    BY <1>3, <2>1, <2>2, AfterDrainStore DEF DrainResume
  <2>3. CASE ~Drained
    BY <1>1, <1>3, <2>1, <2>3, QuietTypes, ReturnsStore DEF DrainResume
  <2>4. QED
    BY <2>2, <2>3
<1>4. QED
  BY <1>2, <1>3

-----------------------------------------------------------------------------
(* io_loop                                                                  *)

\* Taking the queue as a batch.
LEMMA WorkerTestStore ==
    ASSUME StoreInv, QueueBounded, WorkerTest
    PROVE  StoreInv' /\ QueueBounded'
<1>1. /\ TypeOK /\ ControlInv /\ FlushInv /\ \A b \in Blocks : BlkInv(b)
      /\ worker = "test" /\ batch = <<>>
      /\ UNCHANGED <<table, nvme, ioError, stop, call, gen, faults>>
  BY DEF StoreInv, WorkerTest, ControlInv
<1>2. CASE q = <<>>
  <2>1. UNCHANGED queue /\ worker' \in {"exited", "blocking"}
    BY <1>2 DEF WorkerTest
  <2>2. QED
    BY <1>1, <2>1, QuietTypes, QuietStore DEF Busy, ControlInv
<1>3. CASE q # <<>>
  <2>1. batch' = q /\ q' = <<>> /\ worker' = "place"
    BY <1>3 DEF WorkerTest
  <2>2. UNCHANGED <<nblk, blk, want, file, placed>>
    BY <1>1 DEF table, nvme
  <2>3. TypeOK'
    BY <1>1, <2>1, <2>2 DEF TypeOK
  <2>4. ControlInv'
    BY <1>1, <2>1, <2>2 DEF ControlInv
  <2>5. \A b \in Blocks : BlkInv(b)'
    BY <1>1, <2>2 DEF BlkInv
  <2>6. FlushInv'
    <3>1. JobBlocks(batch)' = JobBlocks(q) /\ JobBlocks(q)' = {} /\ JobBlocks(batch) = {}
      BY <1>1, <2>1 DEF JobBlocks
    <3>2. JobsInv(batch)'
      BY <1>1, <2>1, <2>2 DEF FlushInv, JobsInv, CarriesRows
    <3>3. JobsInv(q)'
      BY <2>1 DEF JobsInv
    <3>4. QED
      BY <1>1, <2>2, <3>1, <3>2, <3>3 DEF FlushInv, CarriesRows, Waiting
  <2>7. QueueBounded'
    <3>1. q \in Seq(JobType)
      BY <1>1 DEF TypeOK
    <3>2. q \o <<>> = q /\ <<>> \o q = q
      BY <3>1
    <3>3. QED
      BY <1>1, <2>1, <3>2 DEF QueueBounded, Pending, Jobs
  <2>8. QED
    BY <2>3, <2>4, <2>5, <2>6, <2>7 DEF StoreInv
<1>4. QED
  BY <1>2, <1>3

\* Placing and writing a batch touches the file only, and there only the blocks
\* of the batch, which nobody reads while they are marked.
LEMMA WorkerFileStore ==
    ASSUME StoreInv, QueueBounded, WorkerPlace \/ WorkerWrite
    PROVE  StoreInv' /\ QueueBounded'
<1>1. /\ TypeOK /\ ControlInv /\ FlushInv /\ \A b \in Blocks : BlkInv(b)
      /\ batch \in Seq(JobType)
  BY DEF StoreInv, TypeOK
<1>2. UNCHANGED <<nblk, blk, want, q, batch, ioError, stop, call, gen, faults>>
  BY DEF WorkerPlace, WorkerWrite, table, queue
<1>3. InBatch \subseteq Blocks /\ InBatch = JobBlocks(batch)
  BY <1>1, JobTypes DEF InBatch
<1>4. \A b \in InBatch : blk[b].flushing
  BY <1>1 DEF FlushInv, JobsInv, CarriesRows, InBatch, JobBlocks
<1>5. FlushInv'
  <2>1. JobsInv(q)'
    BY <1>1, <1>2 DEF FlushInv, JobsInv, CarriesRows
  <2>2. JobsInv(batch)'
    BY <1>1, <1>2 DEF FlushInv, JobsInv, CarriesRows
  <2>3. JobBlocks(q)' = JobBlocks(q) /\ JobBlocks(batch)' = JobBlocks(batch)
    BY <1>2 DEF JobBlocks
  <2>4. QED
    BY <1>1, <1>2, <2>1, <2>2, <2>3 DEF FlushInv, CarriesRows, Waiting
<1>6. QueueBounded'
  BY <1>2 DEF QueueBounded, Pending, Jobs
<1>7. InBatch' = InBatch
  BY <1>2 DEF InBatch, JobBlocks
<1>8. CASE WorkerPlace
  <2>1. placed' = placed \cup InBatch /\ file' = file /\ worker' = "write"
    BY <1>8 DEF WorkerPlace
  <2>2. TypeOK'
    BY <1>1, <1>2, <1>3, <2>1 DEF TypeOK
  <2>3. ControlInv'
    BY <1>1, <1>2, <1>7, <2>1 DEF ControlInv
  <2>4. \A b \in Blocks : BlkInv(b)'
    BY <1>1, <1>2, <2>1 DEF BlkInv
  <2>5. QED
    BY <1>5, <1>6, <2>2, <2>3, <2>4 DEF StoreInv
<1>9. CASE WorkerWrite
  <2>1. /\ worker = "write" /\ worker' = "commit" /\ placed' = placed
        /\ file' = [b \in Blocks |->
                     IF b \in InBatch
                     THEN batch[CHOOSE i \in DOMAIN batch : batch[i].b = b].data
                     ELSE file[b]]
    BY <1>9 DEF WorkerWrite
  <2>2. ASSUME NEW b \in InBatch
        PROVE  /\ (CHOOSE i \in DOMAIN batch : batch[i].b = b) \in DOMAIN batch
               /\ batch[CHOOSE i \in DOMAIN batch : batch[i].b = b].b = b
    BY DEF InBatch, JobBlocks
  <2>3. \A b \in InBatch :
          batch[CHOOSE i \in DOMAIN batch : batch[i].b = b].data \in Data
    BY <1>1, <2>2, JobTypes
  <2>4. file' \in [Blocks -> Data]
    BY <1>1, <2>1, <2>3 DEF TypeOK
  <2>5. \A i \in DOMAIN batch : file'[batch[i].b] = batch[i].data
    <3>1. SUFFICES ASSUME NEW i \in DOMAIN batch
                   PROVE  file'[batch[i].b] = batch[i].data
      OBVIOUS
    <3>2. batch[i].b \in InBatch
      BY DEF InBatch, JobBlocks
    <3>3. \A j \in DOMAIN batch : batch[j].b = batch[i].b => j = i
      BY <1>1 DEF FlushInv, JobsInv
    <3>4. (CHOOSE j \in DOMAIN batch : batch[j].b = batch[i].b) = i
      BY <2>2, <3>2, <3>3
    <3>5. QED
      BY <1>3, <2>1, <3>2, <3>4
  <2>6. TypeOK'
    BY <1>1, <1>2, <2>1, <2>4 DEF TypeOK
  <2>7. ControlInv'
    BY <1>1, <1>2, <1>7, <2>1, <2>5 DEF ControlInv
  <2>8. \A b \in Blocks : BlkInv(b)'
    <3>1. \A b \in Blocks : blk[b].onNvme => file'[b] = file[b]
      BY <1>1, <1>4, <2>1 DEF BlkInv
    <3>2. QED
      BY <1>1, <1>2, <2>1, <3>1 DEF BlkInv
  <2>9. QED
    BY <1>5, <1>6, <2>6, <2>7, <2>8 DEF StoreInv
<1>10. QED
  BY <1>8, <1>9

\* The batch is reported: its blocks lose their marks, whether their rows are in
\* the file or back in RAM.
LEMMA BatchDone ==
    ASSUME StoreInv, QueueBounded, batch' = <<>>, worker' = "test", NotifyAll,
           UNCHANGED <<nblk, want, q, stop, gen>>, ioError' \in BOOLEAN,
           faults' \in 0 .. MaxFaults, placed \subseteq placed',
           placed' \subseteq Blocks, file' \in [Blocks -> Data],
           \A b \in Blocks \ InBatch : blk'[b] = blk[b] /\ file'[b] = file[b],
           \A b \in InBatch : /\ blk'[b] \in BlkType /\ BlkInv(b)'
                              /\ ~blk'[b].flushing /\ blk'[b].tokens = blk[b].tokens,
           blk' \in [Blocks -> BlkType]
    PROVE  StoreInv' /\ QueueBounded'
<1>1. /\ TypeOK /\ ControlInv /\ FlushInv /\ \A b \in Blocks : BlkInv(b)
      /\ batch \in Seq(JobType) /\ q \in Seq(JobType) /\ call \in CallType
  BY DEF StoreInv, TypeOK
<1>2. InBatch \subseteq Blocks /\ InBatch = JobBlocks(batch)
  BY <1>1, JobTypes DEF InBatch
<1>3. /\ call' \in CallType /\ call'.op = call.op /\ call'.b = call.b
      /\ call'.off = call.off /\ call'.n = call.n /\ call'.data = call.data
  BY <1>1 DEF NotifyAll, CallType
<1>4. TypeOK'
  BY <1>1, <1>3 DEF TypeOK
<1>5. ControlInv'
  <2>1. call.op = "write" => call.b \in Blocks /\ blk'[call.b].tokens = blk[call.b].tokens
    BY <1>1 DEF CallType
  <2>2. QED
    BY <1>1, <1>3, <2>1 DEF ControlInv
<1>6. \A b \in Blocks : BlkInv(b)'
  BY <1>1 DEF BlkInv
<1>7. FlushInv'
  <2>1. JobBlocks(q)' = JobBlocks(q) /\ JobBlocks(batch)' = {}
    BY DEF JobBlocks
  <2>2. JobBlocks(q) \cap InBatch = {} /\ JobBlocks(q) \subseteq Blocks
    BY <1>1, <1>2, JobTypes DEF FlushInv
  <2>3. \A i \in DOMAIN q : q[i].b \in Blocks \ InBatch
    BY <2>2 DEF JobBlocks
  <2>4. JobsInv(q)'
    BY <1>1, <2>3 DEF FlushInv, JobsInv, CarriesRows
  <2>5. JobsInv(batch)'
    BY DEF JobsInv
  <2>6. \A b \in Blocks : blk'[b].flushing => b \in JobBlocks(q) \/ Waiting(b)'
    BY <1>1, <1>2, <1>3 DEF FlushInv, Waiting
  <2>7. call'.op = "enqueue" =>
          CarriesRows(call.b, call.data)' /\ call'.b \notin JobBlocks(q)
    <3>1. SUFFICES ASSUME call.op = "enqueue"
                   PROVE  CarriesRows(call.b, call.data)' /\ call'.b \notin JobBlocks(q)
      BY <1>3
    <3>2. call.b \in Blocks \ InBatch /\ CarriesRows(call.b, call.data)
          /\ call.b \notin JobBlocks(q)
      BY <1>1, <1>2, <3>1 DEF FlushInv, CallType
    <3>3. QED
      BY <1>3, <3>2 DEF CarriesRows
  <2>8. QED
    BY <2>1, <2>4, <2>5, <2>6, <2>7 DEF FlushInv
<1>8. QueueBounded'
  <2>1. Len(q \o batch) = Len(q) + Len(batch) /\ Len(q) \in Nat /\ Len(batch) \in Nat
    BY <1>1
  <2>2. q \o <<>> = q
    BY <1>1
  <2>3. QED
    BY <2>1, <2>2, IOAssumption DEF QueueBounded, Pending, Jobs
<1>9. QED
  BY <1>4, <1>5, <1>6, <1>7, <1>8 DEF StoreInv

\* A block of the batch is marked, out of RAM, and its job has its last rows.
LEMMA BatchBlock ==
    ASSUME StoreInv, NEW b \in InBatch
    PROVE  LET i == CHOOSE i \in DOMAIN batch : batch[i].b = b IN
           /\ i \in DOMAIN batch /\ batch[i].b = b
           /\ batch[i].data = want[b] /\ want[b] \in Data
           /\ b \in Blocks /\ b \in Nat /\ b < nblk
           /\ blk[b] \in BlkType /\ blk[b].flushing /\ blk[b].ram = Empty
           /\ blk[b].tokens = BT
<1> DEFINE i == CHOOSE i \in DOMAIN batch : batch[i].b = b
<1>1. i \in DOMAIN batch /\ batch[i].b = b
  BY DEF InBatch, JobBlocks
<1>2. TypeOK /\ FlushInv /\ \A c \in Blocks : BlkInv(c)
  BY DEF StoreInv
<1>3. CarriesRows(b, batch[i].data)
  BY <1>1, <1>2 DEF FlushInv, JobsInv
<1>4. b \in Blocks /\ b \in Nat
  BY <1>1, <1>2, JobTypes DEF TypeOK, Blocks
<1>5. BlkInv(b) /\ blk[b] \in BlkType /\ want[b] \in Data
  BY <1>2, <1>4 DEF TypeOK
<1>6. QED
  BY <1>1, <1>3, <1>4, <1>5 DEF CarriesRows, BlkInv

\* The batch is in the file.
LEMMA WorkerCommitStore ==
    ASSUME StoreInv, QueueBounded, WorkerCommit
    PROVE  StoreInv' /\ QueueBounded'
<1>1. /\ TypeOK /\ ControlInv /\ worker = "commit" /\ batch' = <<>>
      /\ worker' = "test" /\ NotifyAll
      /\ UNCHANGED <<nblk, want, q, file, placed, ioError, stop, gen, faults>>
      /\ blk' = [b \in Blocks |->
                   IF b \in InBatch /\ b < nblk
                   THEN [blk[b] EXCEPT !.flushing = FALSE, !.onNvme = TRUE]
                   ELSE blk[b]]
  BY DEF StoreInv, WorkerCommit, nvme
<1>2. ASSUME NEW b \in InBatch
      PROVE  /\ blk'[b] \in BlkType /\ BlkInv(b)'
             /\ ~blk'[b].flushing /\ blk'[b].tokens = blk[b].tokens
  <2> DEFINE i == CHOOSE i \in DOMAIN batch : batch[i].b = b
  <2>1. /\ i \in DOMAIN batch /\ batch[i].b = b /\ batch[i].data = want[b]
        /\ b \in Blocks /\ b \in Nat /\ b < nblk /\ blk[b] \in BlkType
        /\ blk[b].ram = Empty /\ blk[b].tokens = BT
    BY BatchBlock
  <2>2. file[b] = want[b] /\ b \in placed
    BY <1>1, <2>1 DEF ControlInv
  <2> HIDE DEF i
  <2>3. blk'[b] = [blk[b] EXCEPT !.flushing = FALSE, !.onNvme = TRUE]
    BY <1>1, <2>1
  <2>4. blk'[b] = [tokens |-> BT, ram |-> Empty, onNvme |-> TRUE, flushing |-> FALSE]
    BY <2>1, <2>3 DEF BlkType
  <2>5. blk'[b] \in BlkType
    BY <2>4, IOAssumption DEF BlkType
  <2>6. BlkInv(b)'
    <3>1. /\ blk'[b].tokens = BT /\ blk'[b].ram = Empty
          /\ blk'[b].onNvme = TRUE /\ blk'[b].flushing = FALSE
      BY <2>4
    <3>2. b \in placed' /\ file'[b] = want'[b] /\ nblk' = nblk
      BY <1>1, <2>2
    <3>3. nblk \in Nat
      <4>1. nblk \in 0 .. MaxBlocks
        BY <1>1 DEF TypeOK
      <4>2. QED
        BY <4>1, IOAssumption
    <3>4. \A r \in Rows : r < blk'[b].tokens => file'[b][r] = want'[b][r]
      BY <3>2
    <3>5. ~(b >= nblk)
      BY <2>1, <3>3
    <3>6. QED
      BY <3>1, <3>2, <3>4, <3>5 DEF BlkInv
  <2>7. QED
    BY <2>1, <2>4, <2>5, <2>6
<1>3. \A b \in Blocks \ InBatch : blk'[b] = blk[b] /\ file'[b] = file[b]
  BY <1>1
<1>4. InBatch \subseteq Blocks
  BY <1>1, JobTypes DEF InBatch, TypeOK
<1>5. blk' \in [Blocks -> BlkType]
  <2>1. \A b \in Blocks : blk'[b] \in BlkType
    BY <1>1, <1>2, <1>3 DEF TypeOK
  <2>2. QED
    BY <1>1, <2>1
<1>6. ioError' \in BOOLEAN /\ faults' \in 0 .. MaxFaults /\ placed' \subseteq Blocks
      /\ file' \in [Blocks -> Data] /\ placed \subseteq placed'
  BY <1>1 DEF TypeOK
<1>7. QED
  BY <1>1, <1>2, <1>3, <1>5, <1>6, BatchDone

\* The batch is lost: its rows are in RAM again.
LEMMA WorkerFailsStore ==
    ASSUME StoreInv, QueueBounded, WorkerFails
    PROVE  StoreInv' /\ QueueBounded'
<1>1. /\ TypeOK /\ batch' = <<>> /\ worker' = "test" /\ NotifyAll /\ ioError' = TRUE
      /\ UNCHANGED <<nblk, want, q, stop, gen>>
      /\ blk' = [b \in Blocks |->
                   IF b \in InBatch /\ b < nblk
                   THEN Restored(b, batch[CHOOSE i \in DOMAIN batch :
                                            batch[i].b = b].data)
                   ELSE blk[b]]
  BY DEF StoreInv, WorkerFails
<1>2. InBatch \subseteq Blocks
  BY <1>1, JobTypes DEF InBatch, TypeOK
<1>3. /\ faults' \in 0 .. MaxFaults /\ placed \subseteq placed'
      /\ placed' \subseteq Blocks /\ file' \in [Blocks -> Data]
      /\ \A b \in Blocks \ InBatch : file'[b] = file[b]
  <2>1. CASE worker = "place" /\ UNCHANGED <<file, faults>>
             /\ \E k \in DOMAIN batch :
                  placed' = placed \cup {batch[i].b : i \in 1 .. k - 1}
    <3>1. PICK k \in DOMAIN batch :
                 placed' = placed \cup {batch[i].b : i \in 1 .. k - 1}
      BY <2>1
    <3>2. batch \in Seq(JobType)
      BY <1>1 DEF TypeOK
    <3>3. \A i \in 1 .. k - 1 : i \in DOMAIN batch
      BY <3>2
    <3>4. {batch[i].b : i \in 1 .. k - 1} \subseteq Blocks
      BY <3>2, <3>3, JobTypes
    <3>5. QED
      BY <1>1, <2>1, <3>1, <3>4 DEF TypeOK
  <2>2. CASE /\ worker = "write" /\ faults < MaxFaults /\ faults' = faults + 1
             /\ UNCHANGED placed
             /\ \E torn \in SUBSET InBatch :
                  file' = [b \in Blocks |-> IF b \in torn THEN Zeros ELSE file[b]]
    <3>1. PICK torn \in SUBSET InBatch :
                 file' = [b \in Blocks |-> IF b \in torn THEN Zeros ELSE file[b]]
      BY <2>2
    <3>2. file' \in [Blocks -> Data] /\ \A b \in Blocks \ InBatch : file'[b] = file[b]
      BY <1>1, <3>1, ZerosType DEF TypeOK
    <3>3. faults' \in 0 .. MaxFaults
      BY <1>1, <2>2, IOAssumption DEF TypeOK
    <3>4. QED
      BY <1>1, <2>2, <3>2, <3>3 DEF TypeOK
  <2>3. QED
    BY <2>1, <2>2 DEF WorkerFails
<1>4. ASSUME NEW b \in InBatch
      PROVE  /\ blk'[b] \in BlkType /\ BlkInv(b)'
             /\ ~blk'[b].flushing /\ blk'[b].tokens = blk[b].tokens
  <2> DEFINE i == CHOOSE i \in DOMAIN batch : batch[i].b = b
  <2>1. /\ batch[i].data = want[b] /\ want[b] \in Data
        /\ b \in Blocks /\ b \in Nat /\ b < nblk /\ blk[b] \in BlkType
        /\ blk[b].ram = Empty /\ blk[b].tokens = BT
    BY BatchBlock
  <2>2. blk'[b] = Restored(b, batch[i].data)
    BY <1>1, <2>1
  <2> HIDE DEF i
  <2>3. blk'[b] = [tokens |-> BT, ram |-> want[b], onNvme |-> FALSE, flushing |-> FALSE]
    BY <2>1, <2>2 DEF BlkType, Restored
  <2>4. blk'[b] \in BlkType
    BY <2>1, <2>3, IOAssumption DEF BlkType
  <2>5. want[b] # Empty
    <3>1. 0 \in DOMAIN want[b]
      BY <2>1, IOAssumption DEF Data, Rows
    <3>2. QED
      BY <3>1 DEF Empty
  <2>6. nblk \in Nat
    BY <1>1, IOAssumption DEF TypeOK
  <2>7. BlkInv(b)'
    <3>1. /\ blk'[b].tokens = BT /\ blk'[b].ram = want[b]
          /\ blk'[b].onNvme = FALSE /\ blk'[b].flushing = FALSE
      BY <2>3
    <3>2. want'[b] = want[b] /\ nblk' = nblk
      BY <1>1
    <3>3. ~(b >= nblk)
      BY <2>1, <2>6
    <3>4. \A r \in Rows : r < blk'[b].tokens => blk'[b].ram[r] = want'[b][r]
      BY <3>1, <3>2
    <3>5. QED
      BY <2>5, <3>1, <3>2, <3>3, <3>4 DEF BlkInv
  <2>8. QED
    BY <2>1, <2>3, <2>4, <2>7
<1>5. \A b \in Blocks \ InBatch : blk'[b] = blk[b]
  BY <1>1
<1>6. blk' \in [Blocks -> BlkType]
  <2>1. \A b \in Blocks : blk'[b] \in BlkType
    BY <1>1, <1>4, <1>5 DEF TypeOK
  <2>2. QED
    BY <1>1, <2>1
<1>7. QED
  BY <1>1, <1>3, <1>4, <1>5, <1>6, BatchDone

-----------------------------------------------------------------------------
(* Theorems.                                                                *)

LEMMA NextStore ==
    ASSUME StoreInv, QueueBounded, [Next]_vars
    PROVE  StoreInv' /\ QueueBounded'
<1>1. CASE UNCHANGED vars
  <2>1. UNCHANGED <<table, queue, nvme, ioError, stop, worker, call, gen, faults>>
    BY <1>1 DEF vars
  <2>2. TypeOK /\ ControlInv
    BY DEF StoreInv
  <2>3. QED
    BY <2>1, <2>2, QuietTypes, QuietStore DEF ControlInv
<1>2. CASE Calls
  BY <1>2, WriteBeginStore, WriteLostStore, ReadStore, DrainStore, IdleStore
  DEF Calls
<1>3. CASE Returns
  BY <1>3, WriteResumeStore, WriteLostStore, EnqueueResumeStore, ReadStore,
     DrainStore, IdleStore DEF Returns
<1>4. CASE Worker
  BY <1>4, WorkerTestStore, IdleStore, WorkerFileStore, WorkerCommitStore,
     WorkerFailsStore DEF Worker
<1>5. QED
  BY <1>1, <1>2, <1>3, <1>4 DEF Next

\* The inductive invariant of the flush protocol, and the bound on the queue.
THEOREM StoreInvariant == Spec => [](StoreInv /\ QueueBounded)
<1>1. Init => StoreInv /\ QueueBounded
  BY InitStore
<1>2. (StoreInv /\ QueueBounded) /\ [Next]_vars => (StoreInv /\ QueueBounded)'
  BY NextStore
<1>3. QED
  BY <1>1, <1>2, PTL DEF Spec

\* Every variable of the store has its type.
THEOREM StoreTypeCorrect == Spec => []TypeOK
<1>1. StoreInv => TypeOK
  BY DEF StoreInv
<1>2. QED
  BY <1>1, StoreInvariant, PTL

\* copy_k_gpu answers with the last rows written, through any interleaving of
\* writes, re-writes, truncations, flushes and failed flushes.
THEOREM CopiesAreCurrent == Spec => []CopyIsCurrent
<1>1. StoreInv => CopyIsCurrent
  <2> SUFFICES ASSUME StoreInv, NEW b \in Blocks, NEW n \in 1 .. BT,
                      CanCopy(b, n), NEW r \in 0 .. n - 1
               PROVE  Copied(b)[r] = want[b][r]
    BY DEF CopyIsCurrent
  <2>1. BlkInv(b) /\ blk[b] \in BlkType
    BY DEF StoreInv, TypeOK
  <2>2. r \in Rows /\ r < blk[b].tokens
    BY <2>1, IOAssumption DEF CanCopy, Rows, BlkType
  <2>3. QED
    BY <2>1, <2>2 DEF CanCopy, Copied, BlkInv
<1>2. QED
  BY <1>1, StoreInvariant, PTL

\* A block has a slot while it is marked as being on NVMe, and its rows are
\* somewhere as long as it counts any.
THEOREM MarkedBlocksAreStored == Spec => []MarkedBlocksStored
<1>1. StoreInv => MarkedBlocksStored
  <2> SUFFICES ASSUME StoreInv, NEW b \in Blocks
               PROVE  /\ blk[b].onNvme => b \in placed /\ b < nblk
                      /\ blk[b].tokens > 0 =>
                           blk[b].ram # Empty \/ blk[b].onNvme \/ blk[b].flushing
    BY DEF MarkedBlocksStored
  <2>1. BlkInv(b) /\ b \in Nat /\ nblk \in Nat
    BY IOAssumption DEF StoreInv, TypeOK, Blocks
  <2>2. b >= nblk => ~blk[b].onNvme
    BY <2>1 DEF BlkInv, NewBlk
  <2>3. QED
    BY <2>1, <2>2 DEF BlkInv
<1>2. QED
  BY <1>1, StoreInvariant, PTL

\* The queue, with the worker's batch, never exceeds its limit.
THEOREM QueueStaysBounded == Spec => []QueueBounded
BY StoreInvariant, PTL

\* The jobs of q and batch by their place in q_, then in the batch.
LEMMA JobsOf ==
    ASSUME q \in Seq(JobType), batch \in Seq(JobType)
    PROVE  /\ DOMAIN Jobs = 1 .. Len(q) + Len(batch)
           /\ DOMAIN q = 1 .. Len(q) /\ DOMAIN batch = 1 .. Len(batch)
           /\ Len(q) \in Nat /\ Len(batch) \in Nat
           /\ \A i \in 1 .. Len(q) : Jobs[i] = q[i]
           /\ \A i \in 1 .. Len(batch) : Jobs[i + Len(q)] = batch[i]
           /\ \A i \in 1 .. Len(q) + Len(batch) :
                i > Len(q) => /\ i - Len(q) \in 1 .. Len(batch)
                              /\ Jobs[i] = batch[i - Len(q)]
  BY DEF Jobs

\* A block has at most one job, and its job carries its rows.
LEMMA HeldJobs ==
    ASSUME StoreInv, NEW b \in Blocks
    PROVE  /\ \A i \in Held(b) : CarriesRows(b, Jobs[i].data)
           /\ \A i, j \in Held(b) : i = j
           /\ Held(b) # {} <=> b \in JobBlocks(q) \cup JobBlocks(batch)
<1>1. FlushInv /\ q \in Seq(JobType) /\ batch \in Seq(JobType)
  BY DEF StoreInv, TypeOK
<1> DEFINE m == Len(q)
<1>2. /\ DOMAIN Jobs = 1 .. m + Len(batch)
      /\ DOMAIN q = 1 .. m /\ DOMAIN batch = 1 .. Len(batch)
      /\ m \in Nat /\ Len(batch) \in Nat
      /\ \A i \in 1 .. m : Jobs[i] = q[i]
      /\ \A i \in 1 .. Len(batch) : Jobs[i + m] = batch[i]
      /\ \A i \in 1 .. m + Len(batch) :
           i > m => i - m \in 1 .. Len(batch) /\ Jobs[i] = batch[i - m]
  BY <1>1, JobsOf
<1> HIDE DEF m
<1>3. ASSUME NEW i \in Held(b)
      PROVE  \/ i \in DOMAIN q /\ Jobs[i] = q[i] /\ q[i].b = b
             \/ /\ i > m /\ i - m \in DOMAIN batch /\ Jobs[i] = batch[i - m]
                /\ batch[i - m].b = b
  <2>1. i \in 1 .. m + Len(batch) /\ Jobs[i].b = b
    BY <1>2 DEF Held
  <2>2. CASE i > m
    BY <1>2, <2>1, <2>2
  <2>3. CASE ~(i > m)
    <3>1. i \in 1 .. m
      BY <1>2, <2>1, <2>3
    <3>2. QED
      BY <1>2, <2>1, <3>1
  <2>4. QED
    BY <2>2, <2>3
<1>4. \A i \in Held(b) : CarriesRows(b, Jobs[i].data)
  BY <1>1, <1>3 DEF FlushInv, JobsInv
<1>5. ASSUME NEW i \in Held(b), NEW j \in Held(b)
      PROVE  i = j
  <2>1. i \in Nat /\ j \in Nat
    BY <1>2 DEF Held
  <2>2. \/ i \in DOMAIN q /\ q[i].b = b
        \/ i - m \in DOMAIN batch /\ batch[i - m].b = b
    BY <1>3
  <2>3. \/ j \in DOMAIN q /\ q[j].b = b
        \/ j - m \in DOMAIN batch /\ batch[j - m].b = b
    BY <1>3
  <2>4. ~(b \in JobBlocks(q) /\ b \in JobBlocks(batch))
    BY <1>1 DEF FlushInv
  <2>5. \/ i \in DOMAIN q /\ j \in DOMAIN q /\ q[i].b = q[j].b
        \/ /\ i - m \in DOMAIN batch /\ j - m \in DOMAIN batch
           /\ batch[i - m].b = batch[j - m].b
    BY <2>2, <2>3, <2>4 DEF JobBlocks
  <2>6. i = j \/ i - m = j - m
    BY <1>1, <2>5 DEF FlushInv, JobsInv
  <2>7. QED
    BY <1>2, <2>1, <2>6
<1>6. Held(b) # {} => b \in JobBlocks(q) \cup JobBlocks(batch)
  BY <1>3 DEF JobBlocks
<1>7. b \in JobBlocks(q) => Held(b) # {}
  <2> SUFFICES ASSUME NEW i \in DOMAIN q, q[i].b = b
               PROVE  i \in Held(b)
    BY DEF JobBlocks
  <2>1. i \in DOMAIN Jobs
    BY <1>2
  <2>2. QED
    BY <1>2, <2>1 DEF Held
<1>8. b \in JobBlocks(batch) => Held(b) # {}
  <2> SUFFICES ASSUME NEW i \in DOMAIN batch, batch[i].b = b
               PROVE  i + m \in Held(b)
    BY DEF JobBlocks
  <2>1. i + m \in DOMAIN Jobs
    BY <1>2
  <2>2. QED
    BY <1>2, <2>1 DEF Held
<1>9. QED
  BY <1>4, <1>5, <1>6, <1>7, <1>8

\* A block is marked as being flushed exactly while one job, queued, with the
\* worker or with the waiting call, carries its last rows.
THEOREM FlushMarksHaveJobs == Spec => []FlushMarkHasJob
<1>1. StoreInv => FlushMarkHasJob
  <2> SUFFICES ASSUME StoreInv, NEW b \in Blocks
               PROVE  IF b < nblk /\ blk[b].flushing
                      THEN /\ Cardinality(Held(b)) = IF Waiting(b) THEN 0 ELSE 1
                           /\ \A i \in Held(b) : Jobs[i].data = want[b]
                           /\ Waiting(b) => call.data = want[b]
                      ELSE Held(b) = {} /\ ~Waiting(b)
    BY DEF FlushMarkHasJob
  <2>1. /\ \A i \in Held(b) : CarriesRows(b, Jobs[i].data)
        /\ \A i, j \in Held(b) : i = j
        /\ Held(b) # {} <=> b \in JobBlocks(q) \cup JobBlocks(batch)
    BY HeldJobs
  <2>2. Waiting(b) => /\ CarriesRows(b, call.data)
                      /\ b \notin JobBlocks(q) \cup JobBlocks(batch)
    BY DEF StoreInv, FlushInv, Waiting
  <2>3. CASE b < nblk /\ blk[b].flushing
    <3>1. Held(b) # {} \/ Waiting(b)
      BY <2>1, <2>3 DEF StoreInv, FlushInv
    <3>2. CASE Waiting(b)
      <4>1. Held(b) = {}
        BY <2>1, <2>2, <3>2
      <4>2. Cardinality(Held(b)) = 0
        BY <4>1, FS_EmptySet
      <4>3. QED
        BY <2>2, <2>3, <3>2, <4>1, <4>2 DEF CarriesRows
    <3>3. CASE ~Waiting(b)
      <4>1. PICK i \in Held(b) : TRUE
        BY <3>1, <3>3
      <4>2. Held(b) = {i}
        BY <2>1, <4>1
      <4>3. Cardinality(Held(b)) = 1
        BY <4>2, FS_Singleton
      <4>4. QED
        BY <2>1, <2>3, <3>3, <4>3 DEF CarriesRows
    <3>4. QED
      BY <3>2, <3>3
  <2>4. CASE ~(b < nblk /\ blk[b].flushing)
    BY <2>1, <2>2, <2>4 DEF CarriesRows
  <2>5. QED
    BY <2>3, <2>4
<1>2. QED
  BY <1>1, StoreInvariant, PTL
=============================================================================

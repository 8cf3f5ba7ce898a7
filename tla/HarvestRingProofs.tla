------------------------- MODULE HarvestRingProofs -------------------------
(* The harvest ring, for batches of any size and any number of ubatches.    *)
(*                                                                          *)
(* Both streams are short: the compute thread submits a slot only when the  *)
(* slot is free, and launches a graph only when the one before has run.  So *)
(* what is queued on a stream is the end of a known sequence, and its       *)
(* length says which copies are done.  Operations are counted from the end  *)
(* of a queue, where they stay in place while the stream takes the front.   *)
(*                                                                          *)
(* RingInv holds until a submission fails: harvest_capture then reads the   *)
(* tensors out of order.  One graph at a time holds in any case.            *)
EXTENDS HarvestRing, FiniteSetTheorems, SequenceTheorems, TLAPS

-----------------------------------------------------------------------------
(* Types.                                                                   *)

Mains == {"idle", "batch", "commit_other", "submit", "snap", "barrier", "capture",
          "sched_sync", "turn", "stop", "join", "gone"}
Ops == [op : {"graph", "wait_snap", "wait_graph", "d2d", "snap", "d2h", "done"}, arg : Nat]

RingTypes ==
    /\ mode \in {"fence", "sync", "old"} /\ main \in Mains
    /\ compute \in Seq(Ops) /\ harvest \in Seq(Ops)
    /\ tensor \in Nat /\ gpu \in [Slots -> Nat] /\ pin \in [Slots -> Nat]
    /\ slots \in [Slots -> [inflight : BOOLEAN, pos : Nat]]
    /\ next \in Slots /\ posq \in Seq(Nat) /\ wq \in Seq(Slots)
    /\ worker \in {Waiting, Stopped} \cup ({"copy", "pack", "free"} \X Slots)
    /\ curPos \in Nat /\ ub \in Nat /\ turn \in Nat /\ faults \in Nat
    /\ packed \subseteq Nat \X Nat /\ qsum \subseteq Nat
    /\ main \in {"commit_other", "submit"} => posq # <<>>


LEMMA InitTypes == Init => RingTypes
BY DEF Init, RingTypes, Mains, Slots, NewSlot, Waiting, Stopped, None

LEMMA ComputeTypes ==
    ASSUME RingTypes, ComputeStep, UNCHANGED <<mode, host, ub, turn, packed, qsum, faults>>
                      PROVE  RingTypes'
<1>1. Head(compute) \in Ops /\ Tail(compute) \in Seq(Ops)
  BY DEF ComputeStep, RingTypes
<1>2. QED
  BY <1>1 DEF ComputeStep, RingTypes, host, Ops

LEMMA HarvestTypes ==
    ASSUME RingTypes, HarvestStep, UNCHANGED <<mode, host, ub, turn, packed, qsum, faults>>
                      PROVE  RingTypes'
<1>1. Head(harvest) \in Ops /\ Tail(harvest) \in Seq(Ops)
  BY DEF HarvestStep, RingTypes
<1>2. gpu' \in [Slots -> Nat] /\ pin' \in [Slots -> Nat]
  <2>1. CASE Head(harvest).op = "d2d"
    BY <2>1, <1>1 DEF HarvestStep, RingTypes
  <2>2. CASE Head(harvest).op = "d2h"
    BY <2>2, <1>1 DEF HarvestStep, RingTypes
  <2>3. CASE Head(harvest).op \notin {"d2d", "d2h"}
    BY <2>3 DEF HarvestStep, RingTypes
  <2>4. QED
    BY <2>1, <2>2, <2>3
<1>3. QED
  BY <1>1, <1>2 DEF HarvestStep, RingTypes, host

LEMMA PackTypes == ASSUME RingTypes, NEW p \in Nat, NEW b \in Nat, Pack(p, b)
                   PROVE  packed' \subseteq Nat \X Nat /\ qsum' \subseteq Nat
<1>1. <<p, b>> \in Nat \X Nat
  OBVIOUS
<1>2. packed' = packed \cup {<<p, b>>} /\ qsum' = qsum \cup {b}
  BY DEF Pack
<1>3. packed \subseteq Nat \X Nat /\ qsum \subseteq Nat
  BY DEF RingTypes
<1>4. QED
  BY <1>1, <1>2, <1>3, Zenon

LEMMA WorkerTypes == ASSUME RingTypes, Worker PROVE RingTypes'
<1>1. CASE WorkerTake
  <2>1. Head(wq) \in Slots /\ Tail(wq) \in Seq(Slots)
    BY <1>1 DEF WorkerTake, RingTypes
  <2>2. QED
    BY <1>1, <2>1 DEF WorkerTake, RingTypes, streams
<1>2. CASE WorkerStart
  <2>1. PICK s \in Slots : worker = <<"copy", s>> /\ curPos' = slots[s].pos /\ worker' = <<"pack", s>>
    BY <1>2 DEF WorkerStart
  <2>2. QED
    BY <1>2, <2>1 DEF WorkerStart, RingTypes, streams
<1>3. CASE WorkerPack
  <2>1. PICK s \in Slots : worker = <<"pack", s>> /\ Pack(curPos, pin[s]) /\ worker' = <<"free", s>>
    BY <1>3 DEF WorkerPack
  <2>2. pin[s] \in Nat /\ curPos \in Nat
    BY <2>1 DEF RingTypes
  <2>3. packed' \subseteq Nat \X Nat /\ qsum' \subseteq Nat
    BY <2>1, <2>2, PackTypes
  <2>4. QED
    BY <1>3, <2>1, <2>3 DEF WorkerPack, RingTypes, streams
<1>4. CASE WorkerRelease
  <2>1. PICK s \in Slots : worker = <<"free", s>> /\ Release(s) /\ worker' = Waiting
    BY <1>4 DEF WorkerRelease
  <2>2. slots' \in [Slots -> [inflight : BOOLEAN, pos : Nat]]
    BY <2>1 DEF RingTypes, Release, NewSlot, None
  <2>3. QED
    BY <1>4, <2>1, <2>2 DEF WorkerRelease, RingTypes, streams
<1>5. CASE WorkerStops
  BY <1>5 DEF WorkerStops, RingTypes, streams
<1>6. QED
  BY <1>1, <1>2, <1>3, <1>4, <1>5 DEF Worker

\* What a commit without a worker leaves.
LEMMA InlineTypes ==
    ASSUME RingTypes, NEW s \in Slots, InlineCommit(s)
    PROVE  /\ curPos' \in Nat /\ packed' \subseteq Nat \X Nat /\ qsum' \subseteq Nat
           /\ slots' \in [Slots -> [inflight : BOOLEAN, pos : Nat]]
<1>1. CASE slots[s].inflight
  <2>1. slots[s].pos \in Nat /\ pin[s] \in Nat
    BY DEF RingTypes
  <2>2. packed' \subseteq Nat \X Nat /\ qsum' \subseteq Nat
    BY <1>1, <2>1, PackTypes DEF InlineCommit
  <2>3. slots' \in [Slots -> [inflight : BOOLEAN, pos : Nat]]
    <3>1. slots' = [slots EXCEPT ![s] = NewSlot]
      BY <1>1 DEF InlineCommit, Release
    <3>2. QED
      BY <3>1 DEF RingTypes, NewSlot, None
  <2>4. QED
    BY <1>1, <2>1, <2>2, <2>3 DEF InlineCommit
<1>2. CASE ~slots[s].inflight
  BY <1>2 DEF InlineCommit, RingTypes
<1>3. QED
  BY <1>1, <1>2

LEMMA NextSlot == ASSUME RingTypes PROVE 1 - next \in Slots /\ next \in Slots
BY DEF RingTypes, Slots

LEMMA PosqTypes ==
    ASSUME RingTypes, main \in {"commit_other", "submit"}
    PROVE  posq \in Seq(Nat) /\ posq # <<>> /\ Head(posq) \in Nat /\ Tail(posq) \in Seq(Nat)
<1>1. posq \in Seq(Nat) /\ posq # <<>>
  BY DEF RingTypes
<1>2. QED
  BY <1>1

LEMMA MainTypes == ASSUME RingTypes, Main PROVE RingTypes'
<1>. USE RingAssumption
<1>1. CASE Launch
  <2>1. Op("graph", ub + 1) \in Ops /\ Len(posq) # 0
    BY <1>1 DEF Op, Ops, RingTypes, Launch
  <2>2. compute' \in Seq(Ops)
    BY <1>1, <2>1 DEF Launch, RingTypes
  <2>3. posq # <<>> /\ ub' \in Nat /\ main' \in Mains
    BY <1>1 DEF Launch, RingTypes, Mains
  <2>4. QED
    BY <1>1, <2>2, <2>3 DEF Launch, RingTypes
<1>2. CASE CommitOther
  BY <1>2, InlineTypes, NextSlot DEF CommitOther, RingTypes, Mains, streams
<1>3. CASE SubmitFence
  <2>1. Head(posq) \in Nat /\ Tail(posq) \in Seq(Nat)
    BY <1>3, PosqTypes DEF SubmitFence
  <2>2. /\ Op("wait_snap", ub) \in Ops /\ Op("wait_graph", ub) \in Ops /\ Op("snap", ub) \in Ops
        /\ Op("d2d", next) \in Ops /\ Op("d2h", next) \in Ops /\ Op("done", next) \in Ops
    BY DEF Op, Ops, RingTypes, Slots
  <2>3. compute' \in Seq(Ops) /\ harvest' \in Seq(Ops)
    BY <1>3, <2>2 DEF SubmitFence, FenceWork, RingTypes
  <2>4. slots' \in [Slots -> [inflight : BOOLEAN, pos : Nat]]
    <3>1. slots' = [slots EXCEPT ![next] = [inflight |-> TRUE, pos |-> Head(posq)]]
      BY <1>3 DEF SubmitFence
    <3>2. QED
      BY <2>1, <3>1 DEF RingTypes
  <2>5. wq' \in Seq(Slots)
    <3>1. wq' = Append(wq, next)
      BY <1>3 DEF SubmitFence
    <3>2. wq \in Seq(Slots) /\ next \in Slots
      BY DEF RingTypes
    <3>3. QED
      BY <3>1, <3>2
  <2>6. QED
    BY <1>3, <2>1, <2>3, <2>4, <2>5 DEF SubmitFence, RingTypes, Mains
<1>4. CASE SubmitSync
  <2>1. Head(posq) \in Nat /\ Tail(posq) \in Seq(Nat)
    BY <1>4, PosqTypes DEF SubmitSync
  <2>2. Op("d2d", next) \in Ops
    BY DEF Op, Ops, RingTypes, Slots
  <2>3. slots[next].pos \in Nat /\ pin[next] \in Nat
    BY DEF RingTypes
  <2>4. curPos' \in Nat /\ packed' \subseteq Nat \X Nat /\ qsum' \subseteq Nat
    <3>1. CASE curPos' = slots[next].pos /\ Pack(slots[next].pos, pin[next])
      BY <3>1, <2>3, PackTypes DEF RingTypes
    <3>2. CASE UNCHANGED <<curPos, packed, qsum>>
      BY <3>2 DEF RingTypes
    <3>3. QED
      BY <1>4, <3>1, <3>2 DEF SubmitSync
  <2>5. slots' \in [Slots -> [inflight : BOOLEAN, pos : Nat]]
    BY <1>4, <2>1 DEF SubmitSync, RingTypes
  <2>6. harvest' \in Seq(Ops)
    BY <1>4, <2>2 DEF SubmitSync, RingTypes
  <2>7. QED
    BY <1>4, <2>1, <2>4, <2>5, <2>6 DEF SubmitSync, RingTypes, Mains
<1>5. CASE SnapDone
  <2>1. Op("d2h", next) \in Ops /\ Op("done", next) \in Ops
    BY DEF Op, Ops, RingTypes, Slots
  <2>2. slots' \in [Slots -> [inflight : BOOLEAN, pos : Nat]]
    BY <1>5 DEF SnapDone, RingTypes
  <2>3. wq' \in Seq(Slots)
    BY <1>5 DEF SnapDone, RingTypes
  <2>4. harvest' \in Seq(Ops)
    BY <1>5, <2>1 DEF SnapDone
  <2>5. QED
    BY <1>5, <2>2, <2>3, <2>4 DEF SnapDone, RingTypes, Mains
<1>6. CASE Barrier
  BY <1>6, NextSlot DEF Barrier, RingTypes, Mains, streams
<1>7. CASE SubmitFails
  <2>1. Head(posq) \in Nat /\ Tail(posq) \in Seq(Nat)
    BY <1>7, PosqTypes DEF SubmitFails
  <2>2. curPos' \in Nat /\ posq' \in Seq(Nat) /\ faults' \in Nat
    BY <1>7, <2>1 DEF SubmitFails, RingTypes
  <2>3. QED
    BY <1>7, <2>2 DEF SubmitFails, RingTypes, Mains, streams
<1>8. CASE SubmitFailsLate
  <2>1. posq[2] \in Nat /\ Tail(posq) \in Seq(Nat) /\ Tail(posq) # <<>>
    <3>1. posq \in Seq(Nat) /\ Len(posq) > 1
      BY <1>8 DEF SubmitFailsLate, RingTypes
    <3>2. posq[2] \in Nat
      BY <3>1
    <3>3. Tail(posq) \in Seq(Nat) /\ Len(Tail(posq)) = Len(posq) - 1
      BY <3>1
    <3>4. Len(Tail(posq)) > 0
      BY <3>1, <3>3
    <3>5. Tail(posq) # <<>>
      BY <3>3, <3>4
    <3>6. QED
      BY <3>2, <3>3, <3>5
  <2>2. Tail(Tail(posq)) \in Seq(Nat)
    <3>. DEFINE q == Tail(posq)
    <3>1. q \in Seq(Nat) /\ q # <<>>
      BY <2>1
    <3>. HIDE DEF q
    <3>2. Tail(q) \in Seq(Nat)
      BY <3>1
    <3>3. QED
      BY <3>2 DEF q
  <2>3. curPos' \in Nat /\ posq' \in Seq(Nat) /\ faults' \in Nat
    BY <1>8, <2>1, <2>2 DEF SubmitFailsLate, RingTypes
  <2>4. QED
    BY <1>8, <2>3 DEF SubmitFailsLate, RingTypes, Mains, streams
<1>9. CASE Capture
  BY <1>9 DEF Capture, Pack, RingTypes, Mains, streams
<1>10. CASE SchedSync
  BY <1>10 DEF SchedSync, RingTypes, Mains, streams
<1>11. CASE FlushInline
  <2>1. PICK s \in Slots : InlineCommit(s)
    BY <1>11, NextSlot DEF FlushInline
  <2>2. QED
    BY <1>11, <2>1, InlineTypes DEF FlushInline, RingTypes, streams
<1>12. CASE NewTurn
  BY <1>12 DEF NewTurn, RingTypes, Mains, streams
<1>13. CASE Join
  BY <1>13 DEF Join, RingTypes, Mains, streams
<1>14. CASE Joined
  BY <1>14 DEF Joined, RingTypes, Mains, streams
<1>15. QED
  BY <1>1, <1>2, <1>3, <1>4, <1>5, <1>6, <1>7, <1>8, <1>9, <1>10, <1>11, <1>12,
     <1>13, <1>14 DEF Main

LEMMA CallTypes == ASSUME RingTypes, Calls PROVE RingTypes'
<1>1. ASSUME NEW n \in 1 .. BatchSize, Prepare(n) PROVE RingTypes'
  <2>1. posq' \in Seq(Nat)
    <3>1. n \in Nat /\ \A i \in 1 .. n : ub + i \in Nat
      BY <1>1, RingAssumption DEF RingTypes
    <3>2. QED
      BY <1>1, <3>1 DEF Prepare
  <2>2. QED
    BY <1>1, <2>1 DEF Prepare, RingTypes, Mains, streams
<1>2. ASSUME NEW then \in {"turn", "stop"}, FlushCall(then) PROVE RingTypes'
  BY <1>2 DEF FlushCall, RingTypes, Mains, streams
<1>3. QED
  BY <1>1, <1>2 DEF Calls

LEMMA NextTypes == ASSUME RingTypes, [Next]_vars PROVE RingTypes'
<1>1. CASE GPU
  BY <1>1, ComputeTypes, HarvestTypes DEF GPU
<1>2. CASE UNCHANGED vars
  BY <1>2 DEF vars, streams, host, RingTypes
<1>3. QED
  BY <1>1, <1>2, WorkerTypes, MainTypes, CallTypes DEF Next

\* The streams, the queues, the slots and both threads keep their types.
THEOREM TypesCorrect == Spec => []RingTypes
BY InitTypes, NextTypes, PTL DEF Spec

-----------------------------------------------------------------------------
(* One graph at a time.                                                     *)

IsGraph(i) == compute[i].op = "graph"

\* The one queued graph is that of the last ubatch, and the compute thread
\* has not passed its barrier.
GraphInv ==
    /\ \A i \in DOMAIN compute : IsGraph(i) =>
          /\ compute[i] = Op("graph", ub)
          /\ main \in {"commit_other", "submit", "barrier", "capture", "sched_sync"}
    /\ \A i, j \in DOMAIN compute : IsGraph(i) /\ IsGraph(j) => i = j


LEMMA InitGraph == Init => GraphInv
BY DEF Init, GraphInv

\* A step that keeps the compute stream and the place of the compute thread.
LEMMA GraphStays ==
    ASSUME RingTypes, GraphInv, UNCHANGED <<compute, ub>>,
           main' = main \/ \A i \in DOMAIN compute : ~IsGraph(i)
                          \/ main' \in {"commit_other", "submit", "barrier", "capture", "sched_sync"}
    PROVE  GraphInv'
BY DEF GraphInv, IsGraph

LEMMA NoGraphQueued ==
    ASSUME GraphInv,
           main \notin {"commit_other", "submit", "barrier", "capture", "sched_sync"}
    PROVE  \A i \in DOMAIN compute : ~IsGraph(i)
BY DEF GraphInv

LEMMA NextGraph == ASSUME RingTypes, RingTypes', GraphInv, [Next]_vars PROVE GraphInv'
<1>0. compute \in Seq(Ops) /\ ub \in Nat
  BY DEF RingTypes
<1>1. CASE ComputeStep /\ UNCHANGED <<mode, host, ub, turn, packed, qsum, faults>>
  <2>1. /\ compute # <<>> /\ compute' = Tail(compute) /\ UNCHANGED <<ub, main>>
    BY <1>1 DEF ComputeStep, host
  <2>2. /\ Len(compute') = Len(compute) - 1 /\ compute' \in Seq(Ops)
        /\ \A i \in 1 .. Len(compute) - 1 : compute'[i] = compute[i + 1]
    BY <1>0, <2>1
  <2>3. DOMAIN compute = 1 .. Len(compute) /\ DOMAIN compute' = 1 .. Len(compute')
        /\ Len(compute) \in Nat
    BY <1>0, <2>2
  <2>4. \A i \in DOMAIN compute' : i + 1 \in DOMAIN compute /\ compute'[i] = compute[i + 1]
    BY <2>2, <2>3
  <2>5. QED
    BY <2>1, <2>3, <2>4 DEF GraphInv, IsGraph
<1>2. CASE HarvestStep /\ UNCHANGED <<mode, host, ub, turn, packed, qsum, faults>>
  BY <1>2, GraphStays DEF HarvestStep, host
<1>3. CASE Worker
  BY <1>3, GraphStays DEF Worker, WorkerTake, WorkerStart, WorkerPack, WorkerRelease,
                          WorkerStops, streams
<1>4. CASE Calls
  <2>1. main = "idle" /\ UNCHANGED <<compute, ub>>
    BY <1>4 DEF Calls, Prepare, FlushCall, streams
  <2>2. QED
    BY <2>1, GraphStays, NoGraphQueued
<1>5. CASE Launch
  <2>1. \A i \in DOMAIN compute : ~IsGraph(i)
    BY <1>5, NoGraphQueued DEF Launch
  <2>2. /\ compute' = Append(compute, Op("graph", ub + 1)) /\ ub' = ub + 1
        /\ main' \in {"commit_other", "submit"}
    BY <1>5 DEF Launch
  <2>3. /\ DOMAIN compute = 1 .. Len(compute) /\ DOMAIN compute' = 1 .. Len(compute) + 1
        /\ Len(compute) \in Nat
        /\ compute'[Len(compute) + 1] = Op("graph", ub')
        /\ \A i \in 1 .. Len(compute) : compute'[i] = compute[i]
    BY <1>0, <2>2 DEF Ops, Op
  <2>4. \A i \in DOMAIN compute' : compute'[i].op = "graph" => i = Len(compute) + 1
    BY <2>1, <2>3 DEF IsGraph
  <2>5. QED
    BY <2>2, <2>3, <2>4 DEF GraphInv, IsGraph
<1>6. CASE SubmitFence
  <2>1. /\ compute' = compute \o <<Op("wait_snap", ub)>> /\ ub' = ub
        /\ main' = "barrier" /\ main = "submit"
    BY <1>6 DEF SubmitFence, FenceWork
  <2>2. /\ DOMAIN compute = 1 .. Len(compute) /\ DOMAIN compute' = 1 .. Len(compute) + 1
        /\ Len(compute) \in Nat
        /\ compute'[Len(compute) + 1] = Op("wait_snap", ub)
        /\ \A i \in 1 .. Len(compute) : compute'[i] = compute[i]
    BY <1>0, <2>1 DEF Ops, Op
  <2>3. \A i \in DOMAIN compute' : compute'[i].op = "graph" =>
            i \in DOMAIN compute /\ compute'[i] = compute[i]
    BY <2>2 DEF Op
  <2>4. QED
    BY <2>1, <2>3 DEF GraphInv, IsGraph
<1>7. CASE SubmitSync \/ SnapDone \/ SchedSync
  <2>1. CASE SnapDone
    BY <2>1, GraphStays, NoGraphQueued DEF SnapDone
  <2>2. CASE SubmitSync \/ SchedSync
    BY <2>2 DEF SubmitSync, SchedSync, Synced, GraphInv, IsGraph, streams
  <2>3. QED
    BY <1>7, <2>1, <2>2
<1>8. CASE Barrier
  <2>1. ~Contains(compute, Op("graph", ub)) /\ UNCHANGED <<compute, ub>>
    BY <1>8 DEF Barrier, GraphDone, streams
  <2>2. \A i \in DOMAIN compute : compute[i] # Op("graph", ub)
    BY <1>0, <2>1 DEF Contains
  <2>3. \A i \in DOMAIN compute : ~IsGraph(i)
    BY <2>2 DEF GraphInv
  <2>4. QED
    BY <2>1, <2>3, GraphStays
<1>9. CASE CommitOther \/ SubmitFails \/ SubmitFailsLate \/ Capture
  BY <1>9, GraphStays DEF CommitOther, SubmitFails, SubmitFailsLate, Capture, streams
<1>10. CASE FlushInline \/ NewTurn \/ Join \/ Joined
  BY <1>10, GraphStays, NoGraphQueued DEF FlushInline, NewTurn, Join, Joined, streams
<1>11. CASE UNCHANGED vars
  BY <1>11, GraphStays DEF vars, streams, host
<1>12. QED
  BY <1>1, <1>2, <1>3, <1>4, <1>5, <1>6, <1>7, <1>8, <1>9, <1>10, <1>11
     DEF Next, GPU, Main

\* The inputs of an ubatch are set when the graph before has run: there is never
\* a second graph in the compute stream, failed submissions included.
THEOREM GraphBeforeInputs == Spec => []InputsAfterGraph
<1>1. RingTypes /\ GraphInv => InputsAfterGraph
  <2>. SUFFICES ASSUME GraphInv PROVE InputsAfterGraph
    OBVIOUS
  <2>. DEFINE G == {i \in DOMAIN compute : compute[i].op = "graph"}
  <2>1. CASE G = {}
    BY <2>1, FS_EmptySet DEF InputsAfterGraph
  <2>2. CASE G # {}
    <3>1. PICK i \in G : TRUE
      BY <2>2
    <3>2. G = {i}
      BY <3>1 DEF GraphInv, IsGraph
    <3>3. Cardinality(G) = 1
      BY <3>2, FS_Singleton
    <3>4. QED
      BY <3>3 DEF InputsAfterGraph
  <2>3. QED
    BY <2>1, <2>2
<1>2. RingTypes /\ GraphInv /\ [Next]_vars => GraphInv'
  BY NextGraph, NextTypes
<1>3. QED
  BY <1>1, <1>2, InitGraph, TypesCorrect, PTL DEF Spec

-----------------------------------------------------------------------------
(* The ring, as long as no submission failed.                               *)

\* The last ubatch is launched and its rows are still in the queue.
Launched == main \in {"commit_other", "submit"}
\* The last ubatch handed over, and the slots of it and of the one before.
Lu == IF Launched \/ main = "snap" THEN ub - 1 ELSE ub
Latest == IF main = "barrier" THEN next ELSE 1 - next
Earlier == 1 - Latest

PosInv ==
    /\ main \notin {"capture", "sched_sync"}
    /\ \A i \in 1 .. Len(posq) : posq[i] = (IF Launched THEN ub - 1 ELSE ub) + i
    /\ main \in {"idle", "turn", "stop", "join", "gone"} => posq = <<>>
    /\ mode = "fence" => main \notin {"snap", "commit_other"}
    /\ mode = "sync" => main # "commit_other"
    /\ turn \in 1 .. ub + 1
    /\ Launched \/ main \in {"snap", "barrier"} => ub > 0 /\ turn <= ub

\* Operation i of the compute stream, counted from the end of
\* <<wait_snap(ub - 1), graph(ub), wait_snap(ub)>>.
FromEndC(i) == Len(compute) + 1 - i + (IF Launched THEN 1 ELSE 0)
Queued == FromEndC(1)      \* of the first, when there is one
GraphQueued == compute # <<>> /\ Queued >= 2

ComputeInv ==
    /\ compute # <<>> => Queued <= 3
    /\ ~Launched /\ main # "barrier" => Queued <= 1
    /\ mode # "fence" => (compute # <<>> => Launched /\ Queued = 2)
    /\ \A i \in DOMAIN compute :
          /\ FromEndC(i) = 3 => compute[i] = Op("wait_snap", ub - 1)
          /\ FromEndC(i) = 2 => compute[i] = Op("graph", ub)
          /\ FromEndC(i) = 1 => compute[i] = Op("wait_snap", ub)
    /\ tensor = IF GraphQueued THEN ub - 1 ELSE ub

SlotInv ==
    /\ slots[Latest].inflight => slots[Latest].pos = Lu
    /\ slots[Earlier].inflight => slots[Earlier].pos = Lu - 1
    /\ \A s \in Slots : slots[s].inflight => slots[s].pos > 0 /\ slots[s].pos >= turn
    /\ main = "snap" => ~slots[next].inflight /\ slots[next].pos = ub

\* Operation i of the harvest stream, counted from the end.
FromEndH(i) == Len(harvest) + 1 - i
InHarvest   == Len(harvest)

\* With the fence: the work of the last two ubatches handed over.
FenceInv ==
    /\ InHarvest <= 10
    /\ InHarvest >= 1 => slots[Latest].inflight
    /\ InHarvest >= 6 => slots[Earlier].inflight
    /\ \A i \in DOMAIN harvest :
          /\ FromEndH(i) = 1 => harvest[i] = Op("done", Latest)
          /\ FromEndH(i) = 2 => harvest[i] = Op("d2h", Latest)
          /\ FromEndH(i) = 3 => harvest[i] = Op("snap", Lu)
          /\ FromEndH(i) = 4 => harvest[i] = Op("d2d", Latest)
          /\ FromEndH(i) = 5 => harvest[i] = Op("wait_graph", Lu)
          /\ FromEndH(i) = 6 => harvest[i] = Op("done", Earlier)
          /\ FromEndH(i) = 7 => harvest[i] = Op("d2h", Earlier)
          /\ FromEndH(i) = 8 => harvest[i] = Op("snap", Lu - 1)
          /\ FromEndH(i) = 9 => harvest[i] = Op("d2d", Earlier)
          /\ FromEndH(i) = 10 => harvest[i] = Op("wait_graph", Lu - 1)
    \* a snapshot to be taken holds the next graph back
    /\ InHarvest >= 3 => compute # <<>> /\ (Launched => Queued = 3)
    /\ InHarvest >= 8 => main = "barrier" /\ Queued = 3
    /\ main = "barrier" /\ InHarvest <= 4 => ~GraphQueued
    \* the bytes
    /\ InHarvest \in {2, 3} => gpu[Latest] = Lu
    /\ InHarvest \in {7, 8} => gpu[Earlier] = Lu - 1
    /\ InHarvest <= 1 /\ slots[Latest].inflight => pin[Latest] = Lu
    /\ InHarvest <= 6 /\ slots[Earlier].inflight => pin[Earlier] = Lu - 1

\* Without it: a copy to the host, and in a snapshot the copy from the tensors.
InSnap == IF main = "snap" THEN 0 ELSE 1
SyncInv ==
    /\ InHarvest + InSnap <= 3
    /\ InHarvest >= 1 /\ InHarvest + InSnap >= 2 => slots[Latest].inflight
    /\ \A i \in DOMAIN harvest :
          /\ FromEndH(i) + InSnap = 1 => harvest[i] = Op("d2d", next)
          /\ FromEndH(i) + InSnap = 2 => harvest[i] = Op("done", Latest)
          /\ FromEndH(i) + InSnap = 3 => harvest[i] = Op("d2h", Latest)
    /\ main = "snap" /\ harvest = <<>> => gpu[next] = ub
    /\ InHarvest + InSnap = 3 => gpu[Latest] = Lu
    /\ InHarvest + InSnap <= 2 /\ slots[Latest].inflight => pin[Latest] = Lu
    /\ slots[Earlier].inflight => pin[Earlier] = Lu - 1

HarvestInv == IF mode = "fence" THEN FenceInv ELSE SyncInv

At(s) == {<<"copy", s>>, <<"pack", s>>, <<"free", s>>}
WorkerInv ==
    /\ ~Threaded => worker = Waiting /\ wq = <<>>
    /\ \A i \in DOMAIN wq : slots[wq[i]].inflight /\ worker \notin At(wq[i])
    /\ \A i, j \in DOMAIN wq : wq[i] = wq[j] => i = j
    /\ \A s \in Slots : worker \in At(s) =>
          /\ slots[s].inflight
          /\ worker # <<"copy", s>> => CopyDone(s)
          /\ worker = <<"pack", s>> => curPos = slots[s].pos
          /\ worker = <<"free", s>> => <<slots[s].pos, slots[s].pos>> \in packed

PackInv ==
    /\ \A x \in packed : x[1] = x[2] /\ x[1] \in 1 .. Lu
    /\ \A u \in 1 .. Lu : <<u, u>> \in packed
                          \/ \E s \in Slots : slots[s].inflight /\ slots[s].pos = u
    /\ \A u \in qsum : u >= turn

RingInv == PosInv /\ ComputeInv /\ SlotInv /\ HarvestInv /\ WorkerInv /\ PackInv
IInv == RingTypes /\ (faults = 0 => RingInv)
LEMMA InitRing == Init => RingInv
<1>. SUFFICES ASSUME Init PROVE RingInv
  OBVIOUS
<1>. USE DEF Init, NewSlot, None, Waiting
<1>1. PosInv
  BY DEF PosInv, Launched
<1>2. ComputeInv
  BY DEF ComputeInv, GraphQueued, Queued, FromEndC, Launched
<1>3. SlotInv
  BY DEF SlotInv, Slots, Latest, Earlier, Lu
<1>4. HarvestInv
  BY DEF HarvestInv, FenceInv, SyncInv, Slots, Latest, Earlier, Lu, InHarvest, InSnap, GraphQueued
<1>5. WorkerInv
  BY DEF WorkerInv, At
<1>6. PackInv
  BY DEF PackInv, Lu, Launched
<1>7. QED
  BY <1>1, <1>2, <1>3, <1>4, <1>5, <1>6 DEF RingInv

\* The compute thread is on the same side of a launch, a snapshot and a barrier.
SameStage == /\ (main' = "barrier") = (main = "barrier") /\ (main' = "snap") = (main = "snap")
             /\ (main' \in {"commit_other", "submit"}) = (main \in {"commit_other", "submit"})
             /\ UNCHANGED <<mode, next, ub>>

LEMMA SameRing ==
    ASSUME SameStage
    PROVE  /\ Launched' = Launched /\ Lu' = Lu /\ Latest' = Latest /\ Earlier' = Earlier
           /\ InSnap' = InSnap
BY DEF SameStage, Launched, Lu, Latest, Earlier, InSnap

LEMMA SameCompute ==
    ASSUME ComputeInv, SameStage, UNCHANGED <<compute, tensor>>
    PROVE  /\ ComputeInv' /\ Queued' = Queued /\ GraphQueued' = GraphQueued
           /\ \A i : FromEndC(i)' = FromEndC(i)
BY SameRing DEF ComputeInv, SameStage, FromEndC, Queued, GraphQueued

LEMMA SameSlots ==
    ASSUME SlotInv, SameStage, UNCHANGED <<slots, turn>>
    PROVE  SlotInv'
BY SameRing DEF SlotInv, SameStage

LEMMA SameHarvest ==
    ASSUME HarvestInv, ComputeInv, SameStage, UNCHANGED <<harvest, slots, compute, tensor, gpu, pin>>
    PROVE  HarvestInv'
BY SameRing, SameCompute DEF HarvestInv, FenceInv, SyncInv, SameStage, FromEndH, InHarvest

\* Where the worker is.
LEMMA Places ==
    /\ \A s : Waiting \notin At(s) /\ Stopped \notin At(s)
    /\ \A s, t \in Slots : s # t => At(s) \cap At(t) = {}
    /\ \A s : /\ <<"copy", s>> # <<"pack", s>> /\ <<"copy", s>> # <<"free", s>>
             /\ <<"pack", s>> # <<"free", s>>
             /\ <<"copy", s>> \in At(s) /\ <<"pack", s>> \in At(s) /\ <<"free", s>> \in At(s)
BY DEF At, Waiting, Stopped, Slots

LEMMA SameWorker ==
    ASSUME WorkerInv, UNCHANGED <<mode, wq, worker, slots, harvest, packed>>,
           Threaded => curPos' = curPos
    PROVE  WorkerInv'
<1>1. Threaded' = Threaded /\ \A s \in Slots : CopyDone(s)' = CopyDone(s) /\ At(s)' = At(s)
  BY DEF Threaded, CopyDone, At
<1>2. ~Threaded => \A s \in Slots : worker \notin At(s)
  BY Places DEF WorkerInv
<1>3. QED
  BY <1>1, <1>2 DEF WorkerInv

LEMMA SamePacked ==
    ASSUME PackInv, Lu' = Lu, UNCHANGED <<packed, slots, qsum, turn>>
    PROVE  PackInv'
BY DEF PackInv

\* What a slot's copies leave in its pinned buffer when they are done.
LEMMA PinHolds ==
    ASSUME RingTypes, PosInv, SlotInv, HarvestInv, NEW s \in Slots,
           slots[s].inflight, CopyDone(s)
    PROVE  /\ pin[s] = slots[s].pos
           /\ s = Latest => InHarvest + InSnap <= 1 \/ InHarvest = 0
           /\ s = Latest /\ mode = "fence" => InHarvest = 0
           /\ s = Earlier /\ mode = "fence" => InHarvest <= 5
<1>1. s = Latest \/ s = Earlier
  BY DEF Slots, Latest, Earlier, RingTypes
<1>2. Latest # Earlier /\ Latest \in Slots /\ Earlier \in Slots
  BY DEF Slots, Latest, Earlier, RingTypes
<1>3. harvest \in Seq(Ops) /\ InHarvest \in Nat /\ DOMAIN harvest = 1 .. InHarvest
  BY DEF RingTypes, InHarvest
<1>4. \A i \in 1 .. InHarvest : harvest[i] # Op("done", s)
  BY <1>3 DEF CopyDone, Contains, InHarvest
<1>5. CASE mode = "fence"
  <2>1. CASE s = Latest
    <3>1. InHarvest = 0
      <4>1. SUFFICES ASSUME InHarvest >= 1 PROVE FALSE
        BY <1>3
      <4>2. InHarvest \in 1 .. InHarvest /\ FromEndH(InHarvest) = 1
        BY <1>3, <4>1 DEF FromEndH, InHarvest
      <4>3. QED
        BY <1>3, <1>4, <1>5, <2>1, <4>2 DEF HarvestInv, FenceInv
    <3>2. QED
      BY <1>2, <1>5, <2>1, <3>1 DEF HarvestInv, FenceInv, SlotInv
  <2>2. CASE s = Earlier
    <3>1. InHarvest <= 5
      <4>1. SUFFICES ASSUME InHarvest >= 6 PROVE FALSE
        BY <1>3
      <4>2. InHarvest - 5 \in 1 .. InHarvest /\ FromEndH(InHarvest - 5) = 6
        BY <1>3, <4>1 DEF FromEndH, InHarvest
      <4>3. QED
        BY <1>3, <1>4, <1>5, <2>2, <4>2 DEF HarvestInv, FenceInv
    <3>2. QED
      BY <1>2, <1>3, <1>5, <2>2, <3>1 DEF HarvestInv, FenceInv, SlotInv
  <2>3. QED
    BY <1>1, <2>1, <2>2
<1>6. CASE mode # "fence"
  <2>1. CASE s = Latest
    <3>1. InHarvest + InSnap <= 1 \/ InHarvest = 0
      <4>1. SUFFICES ASSUME InHarvest >= 1, InHarvest + InSnap >= 2 PROVE FALSE
        BY <1>3 DEF InSnap
      <4>2. PICK i \in 1 .. InHarvest : FromEndH(i) + InSnap = 2
        <5>1. CASE main = "snap"
          <6>1. InHarvest - 1 \in 1 .. InHarvest /\ FromEndH(InHarvest - 1) + InSnap = 2
            BY <1>3, <4>1, <5>1 DEF FromEndH, InHarvest, InSnap
          <6>2. QED
            BY <6>1
        <5>2. CASE main # "snap"
          <6>1. InHarvest \in 1 .. InHarvest /\ FromEndH(InHarvest) + InSnap = 2
            BY <1>3, <4>1, <5>2 DEF FromEndH, InHarvest, InSnap
          <6>2. QED
            BY <6>1
        <5>3. QED
          BY <5>1, <5>2
      <4>3. QED
        BY <1>3, <1>4, <1>6, <2>1, <4>2 DEF HarvestInv, SyncInv
    <3>2. QED
      BY <1>2, <1>3, <1>6, <2>1, <3>1 DEF HarvestInv, SyncInv, SlotInv, InSnap
  <2>2. CASE s = Earlier
    BY <1>2, <1>6, <2>2 DEF HarvestInv, SyncInv, SlotInv
  <2>3. QED
    BY <1>1, <2>1, <2>2
<1>7. QED
  BY <1>5, <1>6

-----------------------------------------------------------------------------
(* The streams keep the ring.                                               *)

LEMMA TailFacts ==
    ASSUME NEW S, NEW q \in Seq(S), q # <<>>
    PROVE  /\ Len(q) \in Nat \ {0} /\ DOMAIN q = 1 .. Len(q) /\ 1 \in DOMAIN q
           /\ Len(Tail(q)) = Len(q) - 1 /\ DOMAIN Tail(q) = 1 .. Len(q) - 1
           /\ \A i \in DOMAIN Tail(q) : i + 1 \in DOMAIN q /\ Tail(q)[i] = q[i + 1]
           /\ Head(q) = q[1]
           /\ Tail(q) = <<>> <=> Len(q) = 1
<1>1. Len(q) \in Nat \ {0} /\ DOMAIN q = 1 .. Len(q) /\ Head(q) = q[1]
  OBVIOUS
<1>2. Tail(q) \in Seq(S) /\ Len(Tail(q)) = Len(q) - 1
  OBVIOUS
<1>3. DOMAIN Tail(q) = 1 .. Len(q) - 1
  <2>. DEFINE t == Tail(q)
  <2>1. t \in Seq(S) /\ Len(t) = Len(q) - 1
    BY <1>2
  <2>. HIDE DEF t
  <2>2. DOMAIN t = 1 .. Len(t)
    BY <2>1
  <2>3. QED
    BY <2>1, <2>2 DEF t
<1>4. \A i \in 1 .. Len(q) - 1 : Tail(q)[i] = q[i + 1]
  BY <1>1
<1>5. Tail(q) = <<>> <=> Len(Tail(q)) = 0
  <2>. DEFINE t == Tail(q)
  <2>1. t \in Seq(S)
    BY <1>2
  <2>. HIDE DEF t
  <2>2. t = <<>> <=> Len(t) = 0
    BY <2>1
  <2>3. QED
    BY <2>2 DEF t
<1>6. QED
  BY <1>1, <1>2, <1>3, <1>4, <1>5

GPUFrame == UNCHANGED <<mode, host, ub, turn, packed, qsum, faults>>

LEMMA ComputeKeeps ==
    ASSUME RingTypes, RingTypes', RingInv, ComputeStep, GPUFrame
    PROVE  RingInv'
<1>1. /\ UNCHANGED <<mode, main, next, ub, turn, posq, wq, worker, slots, curPos, packed, qsum,
                     harvest, gpu, pin>>
      /\ compute # <<>> /\ compute' = Tail(compute)
  BY DEF ComputeStep, GPUFrame, host
<1>2. SameStage
  BY <1>1 DEF SameStage
<1>3. /\ compute \in Seq(Ops) /\ ub \in Nat /\ Len(compute) \in Nat \ {0}
      /\ DOMAIN compute = 1 .. Len(compute)
      /\ Len(compute') = Len(compute) - 1 /\ DOMAIN compute' = 1 .. Len(compute) - 1
      /\ \A i \in DOMAIN compute' : i + 1 \in DOMAIN compute /\ compute'[i] = compute[i + 1]
      /\ 1 \in DOMAIN compute /\ Head(compute) = compute[1]
      /\ compute' = <<>> <=> Len(compute) = 1
  <2>1. compute \in Seq(Ops) /\ ub \in Nat
    BY DEF RingTypes
  <2>2. QED
    BY <1>1, <2>1, TailFacts
<1>4. /\ Queued \in Nat \ {0} /\ Queued' = Queued - 1
      /\ \A i \in DOMAIN compute' : FromEndC(i)' = FromEndC(i + 1)
      /\ Launched' = Launched /\ Len(compute) = Queued - (IF Launched THEN 1 ELSE 0)
  <2>1. Launched' = Launched
    BY <1>2, SameRing
  <2>2. QED
    BY <1>3, <2>1 DEF Queued, FromEndC
<1>5. PosInv' /\ SlotInv' /\ WorkerInv' /\ PackInv'
  BY <1>1, <1>2, SameRing, SameSlots, SameWorker, SamePacked DEF RingInv, PosInv
<1>6. /\ Queued = 3 => Head(compute) = Op("wait_snap", ub - 1)
      /\ Queued = 2 => Head(compute) = Op("graph", ub)
      /\ Queued = 1 => Head(compute) = Op("wait_snap", ub)
      /\ Queued \in 1 .. 3
  BY <1>3, <1>4 DEF RingInv, ComputeInv, Queued
<1>7. /\ Queued = 2 => tensor' = ub
      /\ Queued # 2 => tensor' = tensor /\ ~Contains(harvest, Op("snap", Head(compute).arg))
  BY <1>6 DEF ComputeStep, Op
<1>8. ComputeInv'
  <2>1. (\A i \in DOMAIN compute :
          /\ FromEndC(i) = 3 => compute[i] = Op("wait_snap", ub - 1)
          /\ FromEndC(i) = 2 => compute[i] = Op("graph", ub)
          /\ FromEndC(i) = 1 => compute[i] = Op("wait_snap", ub))'
    BY <1>1, <1>3, <1>4 DEF RingInv, ComputeInv
  <2>2. (tensor = IF GraphQueued THEN ub - 1 ELSE ub)'
    <3>1. CASE Queued = 3
      BY <1>1, <1>3, <1>4, <1>7, <3>1 DEF RingInv, ComputeInv, GraphQueued
    <3>2. CASE Queued # 3
      BY <1>1, <1>3, <1>4, <1>6, <1>7, <3>2 DEF RingInv, ComputeInv, GraphQueued
    <3>3. QED
      BY <3>1, <3>2
  <2>3. /\ compute' # <<>> => Queued' <= 3
        /\ ~Launched' /\ main' # "barrier" => Queued' <= 1
    BY <1>1, <1>3, <1>4, <1>6 DEF RingInv, ComputeInv
  <2>4. mode' # "fence" => compute' = <<>>
    BY <1>1, <1>3, <1>4 DEF RingInv, ComputeInv
  <2>5. QED
    BY <2>1, <2>2, <2>3, <2>4 DEF ComputeInv
<1>9. HarvestInv'
  <2>0. /\ harvest \in Seq(Ops) /\ InHarvest \in Nat /\ DOMAIN harvest = 1 .. InHarvest
        /\ InHarvest' = InHarvest /\ \A i : FromEndH(i)' = FromEndH(i)
    BY <1>1 DEF RingTypes, InHarvest, FromEndH
  <2>1. CASE mode = "fence"
    <3>0. FenceInv
      BY <2>1 DEF RingInv, HarvestInv
    <3>1. InHarvest >= 3 /\ ~Contains(harvest, Op("snap", ub)) => Launched
      <4>1. SUFFICES ASSUME InHarvest >= 3, ~Launched PROVE Contains(harvest, Op("snap", ub))
        OBVIOUS
      <4>2. InHarvest - 2 \in 1 .. InHarvest /\ FromEndH(InHarvest - 2) = 3
        BY <2>0, <4>1 DEF FromEndH, InHarvest
      <4>3. Lu = ub
        BY <2>1, <4>1 DEF Lu, RingInv, PosInv
      <4>4. QED
        BY <2>0, <3>0, <4>2, <4>3 DEF FenceInv, Contains, InHarvest
    <3>2. InHarvest >= 3 /\ ~Contains(harvest, Op("snap", ub - 1)) => ~Launched
      <4>1. SUFFICES ASSUME InHarvest >= 3, Launched PROVE Contains(harvest, Op("snap", ub - 1))
        OBVIOUS
      <4>2. InHarvest - 2 \in 1 .. InHarvest /\ FromEndH(InHarvest - 2) = 3
        BY <2>0, <4>1 DEF FromEndH, InHarvest
      <4>3. Lu = ub - 1
        BY <4>1 DEF Lu
      <4>4. QED
        BY <2>0, <3>0, <4>2, <4>3 DEF FenceInv, Contains, InHarvest
    <3>3. InHarvest >= 8 => Contains(harvest, Op("snap", ub - 1))
      <4>1. SUFFICES ASSUME InHarvest >= 8 PROVE Contains(harvest, Op("snap", ub - 1))
        OBVIOUS
      <4>2. InHarvest - 7 \in 1 .. InHarvest /\ FromEndH(InHarvest - 7) = 8
        BY <2>0, <4>1 DEF FromEndH, InHarvest
      <4>3. Lu = ub
        BY <3>0, <4>1 DEF Lu, FenceInv, Launched
      <4>4. QED
        BY <2>0, <3>0, <4>2, <4>3 DEF FenceInv, Contains, InHarvest
    <3>4. InHarvest >= 3 => compute' # <<>> /\ (Launched' => Queued' = 3)
      <4>1. SUFFICES ASSUME InHarvest >= 3 PROVE compute' # <<>> /\ (Launched => Queued - 1 = 3)
        BY <1>4
      <4>2. CASE Launched
        <5>1. Queued = 3
          BY <3>0, <4>1, <4>2 DEF FenceInv
        <5>2. Head(compute).arg = ub - 1
          BY <1>6, <5>1 DEF Op
        <5>3. QED
          BY <1>7, <3>2, <4>1, <4>2, <5>1, <5>2
      <4>3. CASE ~Launched
        <5>1. Queued = 1 => Head(compute).arg = ub
          BY <1>6 DEF Op
        <5>2. Queued # 1
          BY <1>7, <3>1, <4>1, <4>3, <5>1
        <5>3. QED
          BY <1>3, <1>4, <4>3, <5>2
      <4>4. QED
        BY <4>2, <4>3
    <3>5. InHarvest >= 8 => FALSE
      BY <1>6, <1>7, <3>0, <3>3 DEF FenceInv, Op
    <3>6. main = "barrier" /\ InHarvest <= 4 => ~GraphQueued'
      BY <1>3, <1>4, <3>0 DEF FenceInv, GraphQueued
    <3>7. FenceInv'
      BY <1>1, <1>2, <2>0, <3>0, <3>4, <3>5, <3>6, SameRing DEF FenceInv
    <3>8. QED
      BY <1>1, <2>1, <3>7 DEF HarvestInv
  <2>2. CASE mode # "fence"
    BY <1>1, <1>2, <2>0, <2>2, SameRing DEF RingInv, HarvestInv, SyncInv
  <2>3. QED
    BY <2>1, <2>2
<1>10. QED
  BY <1>5, <1>8, <1>9 DEF RingInv

LEMMA HarvestKeeps ==
    ASSUME RingTypes, RingTypes', RingInv, HarvestStep, GPUFrame
    PROVE  RingInv'
<1>1. /\ UNCHANGED <<mode, main, next, ub, turn, posq, wq, worker, slots, curPos, packed, qsum,
                     compute, tensor>>
      /\ harvest # <<>> /\ harvest' = Tail(harvest)
  BY DEF HarvestStep, GPUFrame, host
<1>2. SameStage
  BY <1>1 DEF SameStage
<1>3. /\ harvest \in Seq(Ops) /\ InHarvest \in Nat \ {0} /\ DOMAIN harvest = 1 .. InHarvest
      /\ InHarvest' = InHarvest - 1 /\ DOMAIN harvest' = 1 .. InHarvest - 1
      /\ \A i \in DOMAIN harvest' :
            /\ i + 1 \in DOMAIN harvest /\ harvest'[i] = harvest[i + 1]
            /\ FromEndH(i)' = FromEndH(i + 1)
      /\ 1 \in DOMAIN harvest /\ Head(harvest) = harvest[1] /\ FromEndH(1) = InHarvest
  <2>1. harvest \in Seq(Ops) /\ harvest # <<>> /\ harvest' = Tail(harvest)
    BY <1>1 DEF RingTypes
  <2>2. QED
    BY <2>1, TailFacts DEF InHarvest, FromEndH
<1>4. \A s \in Slots : CopyDone(s) => CopyDone(s)'
  BY <1>3 DEF CopyDone, Contains, InHarvest
<1>5. PosInv' /\ SlotInv' /\ ComputeInv' /\ PackInv'
  BY <1>1, <1>2, SameRing, SameSlots, SameCompute, SamePacked DEF RingInv, PosInv
<1>6. WorkerInv'
  <2>1. Threaded' = Threaded /\ \A s \in Slots : At(s)' = At(s)
    BY <1>1 DEF Threaded, At
  <2>2. QED
    BY <1>1, <1>4, <2>1 DEF RingInv, WorkerInv
<1>7. Latest \in Slots /\ Earlier \in Slots /\ Latest # Earlier /\ next \in Slots
      /\ (main = "snap" => next # Latest)
  BY DEF RingTypes, Latest, Earlier, Slots
<1>8. HarvestInv'
  <2>1. CASE mode = "fence"
    <3>0. FenceInv
      BY <2>1 DEF RingInv, HarvestInv
    <3>1. /\ InHarvest \in {4, 9} => tensor = IF InHarvest = 4 THEN Lu ELSE Lu - 1
          /\ InHarvest \in {1, 3, 5, 6, 8, 10} => UNCHANGED <<gpu, pin>>
          /\ InHarvest = 4 => gpu' = [gpu EXCEPT ![Latest] = tensor] /\ UNCHANGED pin
          /\ InHarvest = 9 => gpu' = [gpu EXCEPT ![Earlier] = tensor] /\ UNCHANGED pin
          /\ InHarvest = 2 => pin' = [pin EXCEPT ![Latest] = gpu[Latest]] /\ UNCHANGED gpu
          /\ InHarvest = 7 => pin' = [pin EXCEPT ![Earlier] = gpu[Earlier]] /\ UNCHANGED gpu
      <4>1. CASE InHarvest = 4
        <5>1. harvest[1] = Op("d2d", Latest)
          BY <1>3, <3>0, <4>1 DEF FenceInv
        <5>2. tensor = Lu
          <6>1. CASE Launched
            <7>1. GraphQueued
              BY <3>0, <4>1, <6>1 DEF FenceInv, GraphQueued
            <7>2. QED
              BY <6>1, <7>1 DEF RingInv, ComputeInv, Lu
          <6>2. CASE ~Launched
            <7>0. Queued \in Int
              BY DEF RingTypes, Queued, FromEndC
            <7>1. ~GraphQueued
              BY <3>0, <4>1, <6>2, <7>0 DEF FenceInv, GraphQueued, RingInv, ComputeInv
            <7>2. Lu = ub
              BY <2>1, <6>2 DEF Lu, RingInv, PosInv
            <7>3. QED
              BY <7>1, <7>2 DEF RingInv, ComputeInv
          <6>3. QED
            BY <6>1, <6>2
        <5>3. QED
          BY <1>3, <4>1, <5>1, <5>2 DEF HarvestStep, Op
      <4>2. CASE InHarvest = 9
        <5>1. harvest[1] = Op("d2d", Earlier)
          BY <1>3, <3>0, <4>2 DEF FenceInv
        <5>2. tensor = Lu - 1
          BY <3>0, <4>2 DEF FenceInv, RingInv, ComputeInv, Lu, GraphQueued, PosInv, Launched
        <5>3. QED
          BY <1>3, <4>2, <5>1, <5>2 DEF HarvestStep, Op
      <4>3. CASE InHarvest \in {2, 7}
        <5>1. harvest[1] = Op("d2h", IF InHarvest = 2 THEN Latest ELSE Earlier)
          BY <1>3, <3>0, <4>3 DEF FenceInv
        <5>2. QED
          BY <1>3, <4>3, <5>1 DEF HarvestStep, Op
      <4>4. CASE InHarvest \in {1, 3, 5, 6, 8, 10}
        <5>1. harvest[1].op \in {"done", "snap", "wait_graph"}
          BY <1>3, <3>0, <4>4 DEF FenceInv, Op
        <5>2. QED
          BY <1>3, <4>4, <5>1 DEF HarvestStep
      <4>5. QED
        BY <1>3, <3>0, <4>1, <4>2, <4>3, <4>4 DEF FenceInv
    <3>2. main = "barrier" /\ InHarvest = 5 => ~GraphQueued
      <4>1. SUFFICES ASSUME main = "barrier", InHarvest = 5, GraphQueued PROVE FALSE
        OBVIOUS
      <4>2. harvest[1] = Op("wait_graph", ub)
        BY <1>3, <3>0, <4>1 DEF FenceInv, Lu, Launched
      <4>3. ~Contains(compute, Op("graph", ub))
        BY <1>3, <4>2 DEF HarvestStep, Op
      <4>4. compute \in Seq(Ops) /\ Len(compute) \in Nat /\ Len(compute) = Queued
        BY <4>1 DEF RingTypes, Queued, FromEndC, Launched
      <4>5. Len(compute) - 1 \in 1 .. Len(compute) /\ FromEndC(Len(compute) - 1) = 2
        BY <4>1, <4>4 DEF FromEndC, Launched, GraphQueued
      <4>6. QED
        BY <4>3, <4>4, <4>5 DEF Contains, RingInv, ComputeInv
    <3>3. /\ InHarvest' \in {2, 3} => gpu'[Latest] = Lu
          /\ InHarvest' \in {7, 8} => gpu'[Earlier] = Lu - 1
          /\ InHarvest' <= 1 /\ slots[Latest].inflight => pin'[Latest] = Lu
          /\ InHarvest' <= 6 /\ slots[Earlier].inflight => pin'[Earlier] = Lu - 1
      <4>1. gpu \in [Slots -> Nat] /\ pin \in [Slots -> Nat]
        BY DEF RingTypes
      <4>2. InHarvest \in 1 .. 10
        BY <1>3, <3>0 DEF FenceInv
      <4>3. CASE InHarvest \in {4, 9}
        BY <1>3, <1>7, <3>0, <3>1, <4>1, <4>3 DEF FenceInv
      <4>4. CASE InHarvest \in {2, 7}
        BY <1>3, <1>7, <3>0, <3>1, <4>1, <4>4 DEF FenceInv
      <4>5. CASE InHarvest \in {1, 3, 5, 6, 8, 10}
        BY <1>3, <3>0, <3>1, <4>5 DEF FenceInv
      <4>6. QED
        BY <4>2, <4>3, <4>4, <4>5
    <3>4. (\A i \in DOMAIN harvest :
            /\ FromEndH(i) = 1 => harvest[i] = Op("done", Latest)
            /\ FromEndH(i) = 2 => harvest[i] = Op("d2h", Latest)
            /\ FromEndH(i) = 3 => harvest[i] = Op("snap", Lu)
            /\ FromEndH(i) = 4 => harvest[i] = Op("d2d", Latest)
            /\ FromEndH(i) = 5 => harvest[i] = Op("wait_graph", Lu)
            /\ FromEndH(i) = 6 => harvest[i] = Op("done", Earlier)
            /\ FromEndH(i) = 7 => harvest[i] = Op("d2h", Earlier)
            /\ FromEndH(i) = 8 => harvest[i] = Op("snap", Lu - 1)
            /\ FromEndH(i) = 9 => harvest[i] = Op("d2d", Earlier)
            /\ FromEndH(i) = 10 => harvest[i] = Op("wait_graph", Lu - 1))'
      BY <1>2, <1>3, <3>0, SameRing DEF FenceInv
    <3>5. FenceInv'
      BY <1>1, <1>2, <1>3, <1>5, <3>0, <3>2, <3>3, <3>4, SameRing, SameCompute
         DEF FenceInv, RingInv
    <3>6. QED
      BY <1>1, <2>1, <3>5 DEF HarvestInv
  <2>2. CASE mode # "fence"
    <3>0. SyncInv
      BY <2>2 DEF RingInv, HarvestInv
    <3>1. InSnap \in {0, 1} /\ (InSnap = 0 <=> main = "snap") /\ InHarvest + InSnap \in 1 .. 3
          /\ InSnap' = InSnap
      BY <1>2, <1>3, <3>0, SameRing DEF InSnap, SyncInv
    <3>9. (\A i \in DOMAIN harvest :
            /\ FromEndH(i) + InSnap = 1 => harvest[i] = Op("d2d", next)
            /\ FromEndH(i) + InSnap = 2 => harvest[i] = Op("done", Latest)
            /\ FromEndH(i) + InSnap = 3 => harvest[i] = Op("d2h", Latest))'
      BY <1>1, <1>2, <1>3, <3>0, <3>1, SameRing DEF SyncInv
    <3>10. /\ InHarvest' + InSnap' <= 3
           /\ InHarvest' >= 1 /\ InHarvest' + InSnap' >= 2 => slots[Latest].inflight
           /\ InHarvest' = 0 <=> harvest' = <<>>
      <4>1. harvest' = <<>> <=> InHarvest' = 0
        BY <1>1, <1>3, TailFacts DEF RingTypes, InHarvest
      <4>2. QED
        BY <1>3, <3>0, <3>1, <4>1 DEF SyncInv
    <3>11. gpu \in [Slots -> Nat] /\ pin \in [Slots -> Nat]
      BY DEF RingTypes
    <3>2. CASE InHarvest + InSnap = 1
      <4>1. harvest[1] = Op("d2d", next) /\ main = "snap"
        BY <1>3, <3>0, <3>1, <3>2 DEF SyncInv
      <4>2. tensor = ub
        BY <2>2, <4>1 DEF RingInv, ComputeInv, GraphQueued, Launched
      <4>3. gpu' = [gpu EXCEPT ![next] = ub] /\ UNCHANGED pin
        BY <1>3, <4>1, <4>2 DEF HarvestStep, Op
      <4>4. SyncInv'
        BY <1>1, <1>2, <1>3, <1>7, <3>0, <3>1, <3>2, <3>9, <3>10, <3>11, <4>3, SameRing DEF SyncInv
      <4>5. QED
        BY <1>1, <2>2, <4>4 DEF HarvestInv
    <3>3. CASE InHarvest + InSnap = 2
      <4>1. harvest[1] = Op("done", Latest)
        BY <1>3, <3>0, <3>1, <3>3 DEF SyncInv
      <4>2. UNCHANGED <<gpu, pin>>
        BY <1>3, <4>1 DEF HarvestStep, Op
      <4>3. main = "snap" => InHarvest' # 0
        BY <1>3, <3>1, <3>3
      <4>4. /\ ~(main' = "snap" /\ harvest' = <<>>)
            /\ InHarvest' + InSnap' = 1
            /\ slots[Latest].inflight => pin'[Latest] = Lu
            /\ slots[Earlier].inflight => pin'[Earlier] = Lu - 1
        BY <1>1, <1>3, <3>0, <3>1, <3>3, <3>10, <4>2, <4>3 DEF SyncInv
      <4>6. SyncInv'
        BY <1>1, <1>2, <3>9, <3>10, <4>4, SameRing DEF SyncInv
      <4>5. QED
        BY <1>1, <2>2, <4>6 DEF HarvestInv
    <3>4. CASE InHarvest + InSnap = 3
      <4>1. harvest[1] = Op("d2h", Latest)
        BY <1>3, <3>0, <3>1, <3>4 DEF SyncInv
      <4>2. pin' = [pin EXCEPT ![Latest] = gpu[Latest]] /\ UNCHANGED gpu /\ gpu[Latest] = Lu
        BY <1>3, <3>0, <3>4, <4>1 DEF HarvestStep, Op, SyncInv
      <4>3. main = "snap" => InHarvest' # 0
        BY <1>3, <3>1, <3>4
      <4>4. SyncInv'
        BY <1>1, <1>2, <1>3, <1>7, <3>0, <3>1, <3>4, <3>9, <3>10, <3>11, <4>2, <4>3, SameRing
           DEF SyncInv
      <4>5. QED
        BY <1>1, <2>2, <4>4 DEF HarvestInv
    <3>5. QED
      BY <3>1, <3>2, <3>3, <3>4
  <2>3. QED
    BY <2>1, <2>2
<1>9. QED
  BY <1>5, <1>6, <1>8 DEF RingInv

-----------------------------------------------------------------------------
(* Commits and the worker keep the ring.                                    *)

LEMMA SlotFacts ==
    ASSUME RingTypes
    PROVE  /\ Latest \in Slots /\ Earlier \in Slots /\ Latest # Earlier
           /\ \A s \in Slots : s = Latest \/ s = Earlier
           /\ \A s \in Slots : slots[s].pos \in Nat /\ slots[s].inflight \in BOOLEAN
           /\ Lu \in Int /\ turn \in Nat /\ ub \in Nat
BY DEF RingTypes, Latest, Earlier, Slots, Lu

LEMMA QueueFacts == ASSUME RingTypes PROVE \A i \in DOMAIN wq : wq[i] \in Slots
<1>1. wq \in Seq(Slots)
  BY DEF RingTypes
<1>2. QED
  BY <1>1

\* Only a slot whose copy is done is released, so no queued copy is its own.
LEMMA Released ==
    ASSUME RingTypes, RingInv, NEW s \in Slots, slots[s].inflight, CopyDone(s), Release(s),
           SameStage, UNCHANGED <<harvest, compute, tensor, gpu, pin, turn>>
    PROVE  SlotInv' /\ HarvestInv'
<1>1. /\ slots' = [slots EXCEPT ![s] = NewSlot]
      /\ ~slots'[s].inflight /\ slots[s].inflight
      /\ \A t \in Slots \ {s} : slots'[t] = slots[t]
  BY DEF Release, NewSlot, RingTypes
<1>2. SlotInv'
  <2>1. main = "snap" => s # next
    BY DEF RingInv, SlotInv
  <2>2. next \in Slots
    BY DEF RingTypes
  <2>3. QED
    BY <1>1, <2>1, <2>2, SameRing, SlotFacts DEF RingInv, SlotInv, SameStage
<1>3. /\ s = Latest => InHarvest + InSnap <= 1 \/ InHarvest = 0
      /\ s = Latest /\ mode = "fence" => InHarvest = 0
      /\ s = Earlier /\ mode = "fence" => InHarvest <= 5
  BY PinHolds DEF RingInv
<1>4. InHarvest' = InHarvest /\ InHarvest \in Nat /\ \A i : FromEndH(i)' = FromEndH(i)
  BY DEF InHarvest, FromEndH, RingTypes
<1>5. CASE mode = "fence"
  <2>1. /\ InHarvest >= 1 => slots'[Latest].inflight
        /\ InHarvest >= 6 => slots'[Earlier].inflight
        /\ slots'[Latest].inflight => slots[Latest].inflight
        /\ slots'[Earlier].inflight => slots[Earlier].inflight
    BY <1>1, <1>3, <1>4, <1>5, SlotFacts DEF RingInv, HarvestInv, FenceInv
  <2>2. FenceInv'
    BY <1>4, <1>5, <2>1, SameRing, SameCompute DEF RingInv, HarvestInv, FenceInv, SameStage
  <2>3. mode' = "fence"
    BY <1>5 DEF SameStage
  <2>4. QED
    BY <1>2, <2>2, <2>3 DEF HarvestInv
<1>6. CASE mode # "fence"
  <2>1. /\ InHarvest >= 1 /\ InHarvest + InSnap >= 2 => slots'[Latest].inflight
        /\ slots'[Latest].inflight => slots[Latest].inflight
        /\ slots'[Earlier].inflight => slots[Earlier].inflight
    BY <1>1, <1>3, <1>4, <1>6, SlotFacts DEF RingInv, HarvestInv, SyncInv, InSnap
  <2>2. SyncInv'
    BY <1>4, <1>6, <2>1, SameRing DEF RingInv, HarvestInv, SyncInv, SameStage
  <2>3. mode' # "fence"
    BY <1>6 DEF SameStage
  <2>4. QED
    BY <1>2, <2>2, <2>3 DEF HarvestInv
<1>7. QED
  BY <1>2, <1>5, <1>6

\* Packing a slot adds the rows it was submitted with, under their own bytes.
LEMMA Committed ==
    ASSUME RingTypes, RingInv, NEW s \in Slots, slots[s].inflight, CopyDone(s),
           Pack(slots[s].pos, pin[s]), Lu' = Lu, turn' = turn,
           \A t \in Slots \ {s} : slots'[t] = slots[t],
           slots'[s] = slots[s] \/ ~slots'[s].inflight
    PROVE  PackInv' /\ <<slots[s].pos, slots[s].pos>> \in packed'
<1>. DEFINE p == slots[s].pos
<1>1. packed' = packed \cup {<<p, p>>} /\ qsum' = qsum \cup {p}
  BY PinHolds DEF Pack, RingInv
<1>2. p \in 1 .. Lu /\ p >= turn
  BY SlotFacts DEF RingInv, SlotInv
<1>3. \A x \in packed' : x[1] = x[2] /\ x[1] \in 1 .. Lu
  BY <1>1, <1>2 DEF RingInv, PackInv
<1>4. ASSUME NEW u \in 1 .. Lu
      PROVE  <<u, u>> \in packed' \/ \E t \in Slots : slots'[t].inflight /\ slots'[t].pos = u
  <2>1. CASE u = p
    BY <1>1, <2>1
  <2>2. CASE u # p
    BY <1>1, <2>2 DEF RingInv, PackInv
  <2>3. QED
    BY <2>1, <2>2
<1>5. \A u \in qsum' : u >= turn
  BY <1>1, <1>2 DEF RingInv, PackInv
<1>6. QED
  BY <1>1, <1>3, <1>4, <1>5 DEF PackInv

LEMMA WorkerKeeps == ASSUME RingTypes, RingTypes', RingInv, Worker PROVE RingInv'
<1>0. /\ UNCHANGED <<mode, compute, harvest, tensor, gpu, pin, next, posq, main, ub, turn>>
      /\ SameStage
  BY DEF Worker, WorkerTake, WorkerStart, WorkerPack, WorkerRelease, WorkerStops, streams,
         SameStage
<1>1. PosInv' /\ ComputeInv'
  BY <1>0, SameRing, SameCompute DEF RingInv, PosInv
<1>2. /\ Threaded' = Threaded /\ \A s \in Slots : CopyDone(s)' = CopyDone(s)
      /\ Lu' = Lu
  BY <1>0, SameRing DEF Threaded, CopyDone
<1>3. worker # Waiting => Threaded
  BY DEF RingInv, WorkerInv
<1>4. CASE WorkerTake
  <2>1. /\ worker = Waiting /\ Threaded /\ worker' = <<"copy", Head(wq)>> /\ wq' = Tail(wq)
        /\ wq # <<>> /\ UNCHANGED <<slots, curPos, packed, qsum>>
    BY <1>4 DEF WorkerTake
  <2>2. /\ Head(wq) = wq[1] /\ wq[1] \in Slots /\ 1 \in DOMAIN wq
        /\ \A i \in DOMAIN wq' : i + 1 \in DOMAIN wq /\ wq'[i] = wq[i + 1] /\ i \in Nat \ {0}
        /\ \A i \in DOMAIN wq : wq[i] \in Slots
    <3>1. wq \in Seq(Slots)
      BY DEF RingTypes
    <3>2. QED
      BY <2>1, <3>1, TailFacts, QueueFacts
  <2>3. \A i \in DOMAIN wq' : wq'[i] # wq[1]
    BY <2>2 DEF RingInv, WorkerInv
  <2>4. \A i \in DOMAIN wq' : slots'[wq'[i]].inflight /\ worker' \notin At(wq'[i])
    <3>1. ASSUME NEW i \in DOMAIN wq' PROVE worker' \notin At(wq'[i])
      <4>1. wq'[i] \in Slots /\ wq'[i] # wq[1] /\ worker' \in At(wq[1])
        BY <2>1, <2>2, <2>3, Places
      <4>2. At(wq'[i]) \cap At(wq[1]) = {}
        BY <2>2, <4>1, Places
      <4>3. QED
        BY <4>1, <4>2
    <3>2. QED
      BY <2>1, <2>2, <3>1 DEF RingInv, WorkerInv
  <2>5. \A i, j \in DOMAIN wq' : wq'[i] = wq'[j] => i = j
    BY <2>2 DEF RingInv, WorkerInv
  <2>6. \A s \in Slots : worker' \in At(s) => s = wq[1]
    BY <2>1, <2>2, Places
  <2>7. slots[wq[1]].inflight
    BY <2>2 DEF RingInv, WorkerInv
  <2>8. WorkerInv'
    BY <1>2, <2>1, <2>2, <2>4, <2>5, <2>6, <2>7, Places DEF WorkerInv
  <2>9. QED
    BY <1>0, <1>1, <1>2, <2>1, <2>8, SameSlots, SameHarvest, SamePacked DEF RingInv
<1>5. CASE WorkerStart
  <2>1. PICK s \in Slots : /\ worker = <<"copy", s>> /\ CopyDone(s)
                           /\ curPos' = slots[s].pos /\ worker' = <<"pack", s>>
    BY <1>5 DEF WorkerStart
  <2>2. UNCHANGED <<slots, wq, packed, qsum>>
    BY <1>5 DEF WorkerStart
  <2>3. \A t \in Slots : worker' \in At(t) <=> worker \in At(t)
    BY <2>1, Places
  <2>4. \A t \in Slots : worker' \in At(t) => t = s
    BY <2>1, Places
  <2>5. \A i \in DOMAIN wq : wq[i] \in Slots
    BY QueueFacts
  <2>6. Threaded
    BY <1>3, <2>1, Places
  <2>7. worker' # <<"free", s>> /\ slots[s].inflight
    BY <2>1, Places DEF RingInv, WorkerInv
  <2>8. WorkerInv'
    BY <1>2, <2>1, <2>2, <2>3, <2>4, <2>5, <2>6, <2>7 DEF RingInv, WorkerInv
  <2>9. QED
    BY <1>0, <1>1, <1>2, <2>2, <2>8, SameSlots, SameHarvest, SamePacked DEF RingInv
<1>6. CASE WorkerPack
  <2>1. PICK s \in Slots : worker = <<"pack", s>> /\ Pack(curPos, pin[s]) /\ worker' = <<"free", s>>
    BY <1>6 DEF WorkerPack
  <2>2. UNCHANGED <<slots, wq, curPos>>
    BY <1>6 DEF WorkerPack
  <2>3. \A t \in Slots : worker' \in At(t) <=> worker \in At(t)
    BY <2>1, Places
  <2>4. \A t \in Slots : worker' \in At(t) => t = s
    BY <2>1, Places
  <2>5. \A i \in DOMAIN wq : wq[i] \in Slots
    BY QueueFacts
  <2>6. Threaded
    BY <1>3, <2>1, Places
  <2>7. slots[s].inflight /\ CopyDone(s) /\ curPos = slots[s].pos
    BY <2>1, Places DEF RingInv, WorkerInv
  <2>8. PackInv' /\ <<slots[s].pos, slots[s].pos>> \in packed'
    BY <1>0, <1>2, <2>1, <2>2, <2>7, Committed
  <2>9. worker' # <<"pack", s>>
    BY <2>1, Places
  <2>10. WorkerInv'
    BY <1>2, <2>2, <2>3, <2>4, <2>5, <2>6, <2>7, <2>8, <2>9 DEF RingInv, WorkerInv
  <2>11. QED
    BY <1>0, <1>1, <2>2, <2>8, <2>10, SameSlots, SameHarvest DEF RingInv
<1>7. CASE WorkerRelease
  <2>1. PICK s \in Slots : worker = <<"free", s>> /\ Release(s) /\ worker' = Waiting
    BY <1>7 DEF WorkerRelease
  <2>2. UNCHANGED <<wq, curPos, packed, qsum>>
    BY <1>7 DEF WorkerRelease
  <2>3. /\ slots[s].inflight /\ CopyDone(s) /\ worker \in At(s)
        /\ <<slots[s].pos, slots[s].pos>> \in packed
    BY <2>1, Places DEF RingInv, WorkerInv
  <2>4. SlotInv' /\ HarvestInv'
    BY <1>0, <2>1, <2>3, Released
  <2>5. \A t \in Slots \ {s} : slots'[t] = slots[t]
    BY <2>1 DEF Release, RingTypes
  <2>6. PackInv'
    BY <1>0, <1>2, <2>2, <2>3, <2>5 DEF RingInv, PackInv
  <2>7. \A i \in DOMAIN wq : wq[i] \in Slots
    BY QueueFacts
  <2>8. \A i \in DOMAIN wq : wq[i] # s
    BY <2>3, <2>7 DEF RingInv, WorkerInv
  <2>9. Threaded
    BY <1>3, <2>1 DEF Waiting
  <2>10. WorkerInv'
    BY <1>2, <2>1, <2>2, <2>5, <2>7, <2>8, <2>9, Places DEF RingInv, WorkerInv
  <2>11. QED
    BY <1>1, <2>4, <2>6, <2>10 DEF RingInv
<1>8. CASE WorkerStops
  <2>1. worker' = Stopped /\ wq = <<>> /\ Threaded /\ UNCHANGED <<wq, slots, curPos, packed, qsum>>
    BY <1>8 DEF WorkerStops
  <2>2. WorkerInv'
    BY <1>2, <2>1, Places DEF WorkerInv
  <2>3. QED
    BY <1>0, <1>1, <1>2, <2>1, <2>2, SameSlots, SameHarvest, SamePacked DEF RingInv
<1>9. QED
  BY <1>4, <1>5, <1>6, <1>7, <1>8 DEF Worker

-----------------------------------------------------------------------------
(* The compute thread keeps the ring.                                       *)

\* A step of the compute thread that touches none of the ring's state.
LEMMA MainMoves ==
    ASSUME RingInv, SameStage, PosInv',
           UNCHANGED <<compute, harvest, tensor, gpu, pin, slots, wq, curPos, worker, turn,
                       packed, qsum>>
    PROVE  RingInv'
<1>1. ComputeInv' /\ SlotInv' /\ HarvestInv'
  BY SameCompute, SameSlots, SameHarvest DEF RingInv
<1>2. WorkerInv' /\ PackInv'
  BY SameWorker, SamePacked, SameRing DEF RingInv, SameStage
<1>3. QED
  BY <1>1, <1>2 DEF RingInv

LEMMA CallsKeep == ASSUME RingTypes, RingInv, Calls PROVE RingInv'
<1>1. ASSUME NEW n \in 1 .. BatchSize, Prepare(n) PROVE RingInv'
  <2>1. /\ main = "idle" /\ main' = "batch" /\ posq' = [i \in 1 .. n |-> ub + i]
        /\ UNCHANGED <<mode, compute, harvest, tensor, gpu, pin, slots, next, wq, curPos, worker,
                       ub, turn, packed, qsum>>
    BY <1>1 DEF Prepare, streams
  <2>2. n \in Nat /\ ub \in Nat
    BY RingAssumption DEF RingTypes
  <2>3. Len(posq') = n
    BY <2>1, <2>2
  <2>4. SameStage
    BY <2>1 DEF SameStage
  <2>5. PosInv'
    BY <2>1, <2>2, <2>3 DEF RingInv, PosInv, Launched
  <2>6. QED
    BY <2>1, <2>4, <2>5, MainMoves
<1>2. ASSUME NEW then \in {"turn", "stop"}, FlushCall(then) PROVE RingInv'
  <2>1. /\ main = "idle" /\ main' = then
        /\ UNCHANGED <<mode, compute, harvest, tensor, gpu, pin, slots, next, posq, wq, curPos,
                       worker, ub, turn, packed, qsum>>
    BY <1>2 DEF FlushCall, streams
  <2>2. SameStage
    BY <2>1 DEF SameStage
  <2>3. PosInv'
    BY <2>1 DEF RingInv, PosInv, Launched
  <2>4. QED
    BY <2>1, <2>2, <2>3, MainMoves
<1>3. QED
  BY <1>1, <1>2 DEF Calls

LEMMA JoinKeeps == ASSUME RingTypes, RingInv, Join \/ Joined PROVE RingInv'
<1>1. /\ main \in {"stop", "join"} /\ main' \in {"join", "gone"}
      /\ UNCHANGED <<mode, compute, harvest, tensor, gpu, pin, slots, next, posq, wq, curPos,
                     worker, ub, turn, packed, qsum>>
  BY DEF Join, Joined, streams
<1>2. SameStage
  BY <1>1 DEF SameStage
<1>3. PosInv'
  BY <1>1 DEF RingInv, PosInv, Launched
<1>4. QED
  BY <1>1, <1>2, <1>3, MainMoves

LEMMA NewTurnKeeps == ASSUME RingTypes, RingInv, NewTurn PROVE RingInv'
<1>1. /\ main = "turn" /\ main' = "idle" /\ turn' = ub + 1 /\ qsum' = {}
      /\ \A s \in Slots : ~slots[s].inflight
      /\ UNCHANGED <<mode, compute, harvest, tensor, gpu, pin, slots, next, posq, wq, curPos,
                     worker, ub, packed>>
  BY DEF NewTurn, Flushed, streams
<1>2. SameStage
  BY <1>1 DEF SameStage
<1>3. PosInv'
  BY <1>1, SlotFacts DEF RingInv, PosInv, Launched
<1>4. ComputeInv' /\ HarvestInv'
  BY <1>1, <1>2, SameCompute, SameHarvest DEF RingInv
<1>5. WorkerInv'
  BY <1>1, SameWorker DEF RingInv
<1>6. SlotInv'
  BY <1>1, <1>2, SlotFacts, SameRing DEF RingInv, SlotInv
<1>7. PackInv'
  BY <1>1, <1>2, SameRing DEF RingInv, PackInv
<1>8. QED
  BY <1>3, <1>4, <1>5, <1>6, <1>7 DEF RingInv

\* A commit by the compute thread, where there is no worker.
LEMMA CommitKeeps ==
    ASSUME RingTypes, RingInv, NEW s \in Slots, InlineCommit(s), ~Threaded, SameStage, PosInv',
           UNCHANGED <<compute, harvest, tensor, gpu, pin, wq, worker, turn>>
    PROVE  RingInv'
<1>1. WorkerInv'
  <2>1. ~Threaded' /\ worker' = Waiting /\ wq' = <<>>
    BY DEF RingInv, WorkerInv, Threaded, SameStage
  <2>2. QED
    BY <2>1, Places DEF WorkerInv
<1>2. ComputeInv' /\ Lu' = Lu
  BY SameCompute, SameRing DEF RingInv
<1>3. CASE slots[s].inflight
  <2>1. CopyDone(s) /\ Pack(slots[s].pos, pin[s]) /\ Release(s)
    BY <1>3 DEF InlineCommit
  <2>2. SlotInv' /\ HarvestInv'
    BY <1>3, <2>1, Released
  <2>3. (\A t \in Slots \ {s} : slots'[t] = slots[t]) /\ ~slots'[s].inflight
    BY <2>1 DEF Release, RingTypes, NewSlot
  <2>4. PackInv'
    BY <1>2, <1>3, <2>1, <2>3, Committed
  <2>5. QED
    BY <1>1, <1>2, <2>2, <2>4 DEF RingInv
<1>4. CASE ~slots[s].inflight
  <2>1. UNCHANGED <<curPos, packed, qsum, slots>>
    BY <1>4 DEF InlineCommit
  <2>2. QED
    BY <2>1, MainMoves
<1>5. QED
  BY <1>3, <1>4

LEMMA CommitOtherKeeps == ASSUME RingTypes, RingInv, CommitOther PROVE RingInv'
<1>1. /\ main = "commit_other" /\ main' = "submit" /\ InlineCommit(1 - next)
      /\ UNCHANGED <<mode, compute, harvest, tensor, gpu, pin, next, posq, wq, worker, ub, turn>>
  BY DEF CommitOther, streams
<1>2. SameStage /\ 1 - next \in Slots
  BY <1>1 DEF SameStage, RingTypes, Slots
<1>3. PosInv' /\ ~Threaded
  BY <1>1 DEF RingInv, PosInv, Launched, Threaded, RingTypes
<1>4. QED
  BY <1>1, <1>2, <1>3, CommitKeeps

LEMMA FlushInlineKeeps == ASSUME RingTypes, RingInv, FlushInline PROVE RingInv'
<1>1. PICK s \in Slots : InlineCommit(s)
  BY DEF FlushInline, RingTypes, Slots
<1>2. /\ main \in {"turn", "stop"} /\ ~Threaded
      /\ UNCHANGED <<mode, compute, harvest, tensor, gpu, pin, next, posq, main, wq, worker, ub,
                     turn>>
  BY DEF FlushInline, streams
<1>3. SameStage /\ PosInv'
  BY <1>2 DEF SameStage, RingInv, PosInv, Launched
<1>4. QED
  BY <1>1, <1>2, <1>3, CommitKeeps

\* A launch: one more graph behind at most one wait.
LEMMA LaunchKeeps == ASSUME RingTypes, RingInv, Launch PROVE RingInv'
<1>1. /\ main = "batch" /\ posq # <<>> /\ ub' = ub + 1
      /\ compute' = Append(compute, Op("graph", ub + 1))
      /\ main' = IF Threaded THEN "submit" ELSE "commit_other"
      /\ UNCHANGED <<mode, harvest, tensor, gpu, pin, slots, next, posq, wq, curPos, worker, turn,
                     packed, qsum>>
  BY DEF Launch, streams
<1>2. /\ ~Launched /\ Launched' /\ main' # "snap" /\ main' # "barrier"
      /\ Lu' = ub /\ Lu = ub /\ Latest' = Latest /\ Earlier' = Earlier
      /\ InSnap' = InSnap /\ ub \in Nat
  BY <1>1 DEF Launched, Lu, Latest, Earlier, InSnap, RingTypes
<1>3. PosInv'
  BY <1>1, <1>2 DEF RingInv, PosInv, Launched, Threaded, RingTypes
<1>4. /\ compute \in Seq(Ops) /\ Op("graph", ub + 1) \in Ops
      /\ Len(compute) \in {0, 1} /\ Len(compute') = Len(compute) + 1
      /\ DOMAIN compute = 1 .. Len(compute) /\ DOMAIN compute' = 1 .. Len(compute) + 1
      /\ compute = <<>> <=> Len(compute) = 0
      /\ compute' # <<>>
  <2>1. compute \in Seq(Ops) /\ Op("graph", ub + 1) \in Ops
    BY <1>2 DEF RingTypes, Ops, Op
  <2>2. Len(compute) \in Nat /\ (compute = <<>> <=> Len(compute) = 0)
    BY <2>1
  <2>3. Len(compute) <= 1
    BY <1>1, <1>2, <2>2 DEF RingInv, ComputeInv, Queued, FromEndC
  <2>4. Len(compute') = Len(compute) + 1 /\ compute' \in Seq(Ops)
    BY <1>1, <2>1
  <2>5. DOMAIN compute = 1 .. Len(compute) /\ DOMAIN compute' = 1 .. Len(compute')
    BY <2>1, <2>4
  <2>6. compute' # <<>>
    BY <1>1, <2>1
  <2>7. QED
    BY <2>1, <2>2, <2>3, <2>4, <2>5, <2>6
<1>5. /\ compute'[Len(compute) + 1] = Op("graph", ub + 1)
      /\ Len(compute) = 1 => compute[1] = Op("wait_snap", ub) /\ compute'[1] = compute[1]
      /\ mode # "fence" => compute = <<>>
  <2>1. compute'[Len(compute) + 1] = Op("graph", ub + 1)
    BY <1>1, <1>4
  <2>2. Len(compute) = 1 => compute[1] = Op("wait_snap", ub)
    BY <1>2, <1>4 DEF RingInv, ComputeInv, FromEndC
  <2>3. Len(compute) = 1 => compute'[1] = compute[1]
    BY <1>1, <1>4
  <2>4. mode # "fence" => compute = <<>>
    BY <1>2 DEF RingInv, ComputeInv
  <2>5. QED
    BY <2>1, <2>2, <2>3, <2>4
<1>6. \A i \in DOMAIN compute' : FromEndC(i)' = Len(compute) + 3 - i
  BY <1>2, <1>4 DEF FromEndC
<1>7. Queued' = Len(compute) + 2 /\ GraphQueued' /\ ~GraphQueued
  BY <1>2, <1>4 DEF GraphQueued, Queued, FromEndC
<1>8. ComputeInv'
  BY <1>1, <1>2, <1>4, <1>5, <1>6, <1>7 DEF RingInv, ComputeInv
<1>9. SlotInv'
  BY <1>1, <1>2 DEF RingInv, SlotInv
<1>10. HarvestInv'
  <2>1. InHarvest' = InHarvest /\ InHarvest \in Nat /\ \A i : FromEndH(i)' = FromEndH(i)
    BY <1>1 DEF InHarvest, FromEndH, RingTypes
  <2>2. CASE mode = "fence"
    <3>1. FenceInv
      BY <2>2 DEF RingInv, HarvestInv
    <3>2. /\ InHarvest >= 3 => compute' # <<>> /\ Queued' = 3
          /\ InHarvest < 8
      BY <1>1, <1>4, <1>7, <2>1, <3>1 DEF FenceInv
    <3>3. FenceInv'
      BY <1>1, <1>2, <2>1, <3>1, <3>2 DEF FenceInv
    <3>4. QED
      BY <1>1, <2>2, <3>3 DEF HarvestInv
  <2>3. CASE mode # "fence"
    BY <1>1, <1>2, <2>1, <2>3 DEF RingInv, HarvestInv, SyncInv
  <2>4. QED
    BY <2>2, <2>3
<1>11. WorkerInv' /\ PackInv'
  BY <1>1, <1>2, SameWorker, SamePacked DEF RingInv
<1>12. QED
  BY <1>3, <1>8, <1>9, <1>10, <1>11 DEF RingInv

\* The barrier: the graph has run, and the slots trade places.
LEMMA BarrierKeeps == ASSUME RingTypes, RingInv, Barrier PROVE RingInv'
<1>1. /\ main = "barrier" /\ ~Contains(compute, Op("graph", ub)) /\ next' = 1 - next
      /\ main' = IF posq = <<>> THEN "idle" ELSE "batch"
      /\ UNCHANGED <<mode, compute, harvest, tensor, gpu, pin, slots, posq, wq, curPos, worker, ub,
                     turn, packed, qsum>>
  BY DEF Barrier, GraphDone, streams
<1>2. /\ ~Launched /\ ~Launched' /\ main' # "snap" /\ main' # "barrier"
      /\ Lu' = Lu /\ Lu = ub /\ Latest' = Latest /\ Earlier' = Earlier
      /\ InSnap' = InSnap /\ ub \in Nat
  BY <1>1 DEF Launched, Lu, Latest, Earlier, InSnap, RingTypes, Slots
<1>3. PosInv'
  BY <1>1, <1>2 DEF RingInv, PosInv, Launched
<1>4. compute \in Seq(Ops) /\ Len(compute) \in Nat /\ Len(compute) = Queued
  BY <1>2 DEF RingTypes, Queued, FromEndC
<1>5. compute # <<>> => Queued <= 1
  <2>1. SUFFICES ASSUME compute # <<>>, Queued >= 2 PROVE FALSE
    BY <1>4
  <2>2. Len(compute) - 1 \in DOMAIN compute /\ FromEndC(Len(compute) - 1) = 2
    BY <1>2, <1>4, <2>1 DEF FromEndC
  <2>3. compute[Len(compute) - 1] = Op("graph", ub)
    BY <2>2 DEF RingInv, ComputeInv
  <2>4. QED
    BY <1>1, <1>4, <2>1, <2>3 DEF Contains
<1>6. /\ Queued' = Queued /\ GraphQueued' = GraphQueued /\ \A i : FromEndC(i)' = FromEndC(i)
  BY <1>1, <1>2 DEF Queued, GraphQueued, FromEndC
<1>7. ComputeInv'
  BY <1>1, <1>2, <1>4, <1>5, <1>6 DEF RingInv, ComputeInv
<1>8. SlotInv'
  BY <1>1, <1>2 DEF RingInv, SlotInv
<1>9. HarvestInv'
  <2>1. InHarvest' = InHarvest /\ InHarvest \in Nat /\ \A i : FromEndH(i)' = FromEndH(i)
    BY <1>1 DEF InHarvest, FromEndH, RingTypes
  <2>2. CASE mode = "fence"
    <3>1. FenceInv /\ InHarvest < 8
      BY <1>4, <1>5, <2>1, <2>2 DEF RingInv, HarvestInv, FenceInv
    <3>2. FenceInv'
      BY <1>1, <1>2, <2>1, <3>1 DEF FenceInv
    <3>3. QED
      BY <1>1, <2>2, <3>2 DEF HarvestInv
  <2>3. CASE mode # "fence"
    <3>1. (\A i \in DOMAIN harvest : FromEndH(i) + InSnap # 1)
      BY <1>1 DEF RingTypes, FromEndH, InSnap
    <3>2. SyncInv'
      BY <1>1, <1>2, <2>1, <2>3, <3>1 DEF RingInv, HarvestInv, SyncInv
    <3>3. QED
      BY <1>1, <2>3, <3>2 DEF HarvestInv
  <2>4. QED
    BY <2>2, <2>3
<1>10. WorkerInv' /\ PackInv'
  BY <1>1, <1>2, SameWorker, SamePacked DEF RingInv
<1>11. QED
  BY <1>3, <1>7, <1>8, <1>9, <1>10 DEF RingInv

\* A slot goes in flight with the rows of the last ubatch.
LEMMA HandedOver ==
    ASSUME RingTypes, RingInv, ~slots[next].inflight, slots'[next].inflight,
           slots'[next].pos = ub, \A s \in Slots \ {next} : slots'[s] = slots[s],
           wq' = IF Threaded THEN Append(wq, next) ELSE wq,
           \A s \in Slots \ {next} : CopyDone(s) => CopyDone(s)',
           Lu' = ub, Lu = ub - 1, UNCHANGED <<mode, worker, curPos, packed, qsum, turn>>
    PROVE  WorkerInv' /\ PackInv'
<1>0. wq \in Seq(Slots) /\ next \in Slots /\ ub \in Nat
  BY DEF RingTypes
<1>1. Threaded' = Threaded /\ \A s \in Slots : At(s)' = At(s)
  BY DEF Threaded, At
<1>2. \A i \in DOMAIN wq : wq[i] \in Slots /\ wq[i] # next
  BY QueueFacts DEF RingInv, WorkerInv
<1>3. worker \notin At(next)
  BY <1>0 DEF RingInv, WorkerInv
<1>4. WorkerInv'
  <2>1. CASE Threaded
    <3>1. /\ DOMAIN wq = 1 .. Len(wq) /\ DOMAIN wq' = 1 .. Len(wq) + 1 /\ Len(wq) \in Nat
          /\ wq'[Len(wq) + 1] = next /\ \A i \in DOMAIN wq : wq'[i] = wq[i]
      <4>1. wq' \in Seq(Slots) /\ Len(wq') = Len(wq) + 1 /\ Len(wq) \in Nat
        BY <1>0, <2>1
      <4>2. DOMAIN wq = 1 .. Len(wq) /\ DOMAIN wq' = 1 .. Len(wq')
        BY <1>0, <4>1
      <4>3. wq'[Len(wq) + 1] = next /\ \A i \in 1 .. Len(wq) : wq'[i] = wq[i]
        BY <1>0, <2>1
      <4>4. QED
        BY <4>1, <4>2, <4>3
    <3>2. \A i \in DOMAIN wq' : i \in DOMAIN wq \/ i = Len(wq) + 1
      BY <3>1
    <3>3. \A i \in DOMAIN wq' : slots'[wq'[i]].inflight /\ worker \notin At(wq'[i])
      BY <1>2, <1>3, <3>1, <3>2 DEF RingInv, WorkerInv
    <3>4. \A i, j \in DOMAIN wq' : wq'[i] = wq'[j] => i = j
      BY <1>2, <3>1, <3>2 DEF RingInv, WorkerInv
    <3>5. \A i \in DOMAIN wq' : wq'[i] \in Slots
      BY <1>0, <1>2, <3>1, <3>2
    <3>6. \A s \in Slots : worker \in At(s) =>
              /\ slots'[s].inflight
              /\ worker # <<"copy", s>> => CopyDone(s)'
              /\ worker = <<"pack", s>> => curPos = slots'[s].pos
              /\ worker = <<"free", s>> => <<slots'[s].pos, slots'[s].pos>> \in packed
      BY <1>3 DEF RingInv, WorkerInv
    <3>7. QED
      BY <1>1, <2>1, <3>3, <3>4, <3>5, <3>6 DEF WorkerInv
  <2>2. CASE ~Threaded
    <3>1. worker' = Waiting /\ wq' = <<>> /\ ~Threaded'
      BY <1>1, <2>2 DEF RingInv, WorkerInv
    <3>2. QED
      BY <3>1, Places DEF WorkerInv
  <2>3. QED
    BY <2>1, <2>2
<1>5. PackInv'
  <2>1. \A x \in packed : x[1] = x[2] /\ x[1] \in 1 .. ub
    BY <1>0 DEF RingInv, PackInv
  <2>2. ASSUME NEW u \in 1 .. ub
        PROVE  <<u, u>> \in packed \/ \E s \in Slots : slots'[s].inflight /\ slots'[s].pos = u
    <3>1. CASE u = ub
      BY <1>0, <3>1
    <3>2. CASE u # ub
      <4>1. u \in 1 .. Lu
        BY <1>0, <3>2
      <4>2. CASE <<u, u>> \in packed
        BY <4>2
      <4>3. CASE \E s \in Slots : slots[s].inflight /\ slots[s].pos = u
        BY <4>3
      <4>4. QED
        BY <4>1, <4>2, <4>3 DEF RingInv, PackInv
    <3>3. QED
      BY <3>1, <3>2
  <2>3. QED
    BY <2>1, <2>2 DEF RingInv, PackInv
<1>6. QED
  BY <1>4, <1>5

\* Five operations behind a queue.
LEMMA FiveMore ==
    ASSUME NEW S, NEW q \in Seq(S), NEW a \in S, NEW b \in S, NEW c \in S, NEW d \in S,
           NEW e \in S, NEW r, r = q \o <<a, b, c, d, e>>
    PROVE  /\ Len(r) = Len(q) + 5 /\ DOMAIN q = 1 .. Len(q) /\ DOMAIN r = 1 .. Len(q) + 5
           /\ \A i \in 1 .. Len(q) : r[i] = q[i]
           /\ r[Len(q) + 1] = a /\ r[Len(q) + 2] = b /\ r[Len(q) + 3] = c
           /\ r[Len(q) + 4] = d /\ r[Len(q) + 5] = e
<1>. DEFINE w == <<a, b, c, d, e>>
<1>1. w \in Seq(S) /\ Len(w) = 5 /\ w[1] = a /\ w[2] = b /\ w[3] = c /\ w[4] = d /\ w[5] = e
  OBVIOUS
<1>2. r = q \o w
  OBVIOUS
<1>. HIDE DEF w
<1>3. /\ r \in Seq(S) /\ Len(r) = Len(q) + Len(w)
      /\ \A i \in 1 .. Len(q) + Len(w) : r[i] = IF i <= Len(q) THEN q[i] ELSE w[i - Len(q)]
  <2>1. q \o w \in Seq(S) /\ Len(q \o w) = Len(q) + Len(w)
    BY <1>1, ConcatProperties
  <2>2. \A i \in 1 .. Len(q) + Len(w) :
           (q \o w)[i] = IF i <= Len(q) THEN q[i] ELSE w[i - Len(q)]
    BY <1>1, ConcatProperties
  <2>3. QED
    BY <1>2, <2>1, <2>2
<1>4. Len(q) \in Nat /\ DOMAIN q = 1 .. Len(q) /\ DOMAIN r = 1 .. Len(r)
  BY <1>3
<1>5. \A j \in 1 .. 5 : r[Len(q) + j] = w[j]
  <2>1. ASSUME NEW j \in 1 .. 5 PROVE r[Len(q) + j] = w[j]
    <3>1. Len(q) + j \in 1 .. Len(q) + Len(w) /\ ~(Len(q) + j <= Len(q)) /\ Len(q) + j - Len(q) = j
      BY <1>1, <1>4
    <3>2. QED
      BY <1>3, <3>1
  <2>2. QED
    BY <2>1
<1>6. \A i \in 1 .. Len(q) : r[i] = q[i]
  BY <1>1, <1>3, <1>4
<1>7. QED
  BY <1>1, <1>3, <1>4, <1>5, <1>6

\* The rows a submission takes are those of the last ubatch.
LEMMA RowsTaken ==
    ASSUME RingTypes, PosInv, main = "submit"
    PROVE  /\ Head(posq) = ub /\ ub \in Nat \ {0} /\ turn <= ub /\ turn \in Nat \ {0}
           /\ Len(Tail(posq)) \in Nat
           /\ \A i \in 1 .. Len(Tail(posq)) : Tail(posq)[i] = ub + i
<1>1. posq \in Seq(Nat) /\ posq # <<>> /\ ub \in Nat
  BY DEF RingTypes
<1>2. /\ Len(posq) \in Nat \ {0} /\ Len(Tail(posq)) = Len(posq) - 1 /\ Head(posq) = posq[1]
      /\ \A i \in 1 .. Len(posq) - 1 : Tail(posq)[i] = posq[i + 1]
  BY <1>1, TailFacts
<1>3. Launched
  BY DEF Launched
<1>4. \A i \in 1 .. Len(posq) : posq[i] = ub - 1 + i
  BY <1>3 DEF PosInv
<1>5. QED
  BY <1>1, <1>2, <1>3, <1>4 DEF PosInv, RingTypes

LEMMA SubmitFenceKeeps == ASSUME RingTypes, RingInv, SubmitFence PROVE RingInv'
<1>1. /\ main = "submit" /\ mode = "fence" /\ ~slots[next].inflight /\ main' = "barrier"
      /\ harvest' = harvest \o <<Op("wait_graph", ub), Op("d2d", next), Op("snap", ub),
                                Op("d2h", next), Op("done", next)>>
      /\ compute' = compute \o <<Op("wait_snap", ub)>>
      /\ slots' = [slots EXCEPT ![next] = [inflight |-> TRUE, pos |-> Head(posq)]]
      /\ posq' = Tail(posq) /\ wq' = Append(wq, next)
      /\ UNCHANGED <<mode, tensor, gpu, pin, next, curPos, worker, ub, turn, packed, qsum>>
  BY DEF SubmitFence, FenceWork, SlotFree
<1>2. /\ Launched /\ ~Launched' /\ Lu = ub - 1 /\ Lu' = ub
      /\ Latest = 1 - next /\ Earlier = next /\ Latest' = next /\ Earlier' = Latest
      /\ next \in Slots /\ Latest \in Slots /\ Latest # next
  BY <1>1 DEF Launched, Lu, Latest, Earlier, RingTypes, Slots
<1>3. /\ Head(posq) = ub /\ ub \in Nat \ {0} /\ turn <= ub /\ turn \in Nat \ {0}
      /\ \A i \in 1 .. Len(posq') : posq'[i] = ub + i
  BY <1>1, RowsTaken DEF RingInv
<1>4. /\ slots'[next].inflight /\ slots'[next].pos = ub
      /\ \A s \in Slots \ {next} : slots'[s] = slots[s]
  BY <1>1, <1>2, <1>3 DEF RingTypes
<1>5. PosInv'
  BY <1>1, <1>2, <1>3 DEF PosInv
<1>6. SlotInv'
  <2>1. slots[Latest].inflight => slots[Latest].pos = Lu
    BY DEF RingInv, SlotInv
  <2>2. \A s \in Slots : slots'[s].inflight => slots'[s].pos > 0 /\ slots'[s].pos >= turn
    BY <1>3, <1>4 DEF RingInv, SlotInv
  <2>3. slots'[Latest'].pos = Lu' /\ Lu' - 1 = Lu /\ slots'[Earlier'] = slots[Latest]
    BY <1>2, <1>3, <1>4
  <2>4. QED
    BY <1>1, <1>2, <2>1, <2>2, <2>3 DEF SlotInv
<1>7. /\ compute \in Seq(Ops) /\ Len(compute) \in Nat /\ DOMAIN compute = 1 .. Len(compute)
      /\ DOMAIN compute' = 1 .. Len(compute) + 1 /\ Len(compute') = Len(compute) + 1
      /\ \A i \in DOMAIN compute : compute'[i] = compute[i]
      /\ compute'[Len(compute) + 1] = Op("wait_snap", ub) /\ compute' # <<>>
      /\ compute = <<>> <=> Len(compute) = 0
  <2>1. compute \in Seq(Ops) /\ Op("wait_snap", ub) \in Ops
    BY <1>3 DEF RingTypes, Ops, Op
  <2>2. compute' = Append(compute, Op("wait_snap", ub))
    BY <1>1, <2>1
  <2>3. compute' \in Seq(Ops) /\ Len(compute') = Len(compute) + 1 /\ Len(compute) \in Nat
    BY <2>1, <2>2
  <2>4. DOMAIN compute = 1 .. Len(compute) /\ DOMAIN compute' = 1 .. Len(compute')
    BY <2>1, <2>3
  <2>5. /\ \A i \in 1 .. Len(compute) : compute'[i] = compute[i]
        /\ compute'[Len(compute) + 1] = Op("wait_snap", ub) /\ compute' # <<>>
    BY <2>1, <2>2
  <2>6. compute = <<>> <=> Len(compute) = 0
    BY <2>1
  <2>7. QED
    BY <2>1, <2>3, <2>4, <2>5, <2>6
<1>8. /\ \A i \in DOMAIN compute : FromEndC(i)' = FromEndC(i)
      /\ \A i : i = Len(compute) + 1 => FromEndC(i)' = 1
      /\ compute # <<>> => Queued' = Queued
      /\ compute = <<>> => Queued' = 1
      /\ GraphQueued' = GraphQueued
  <2>1. \A i \in DOMAIN compute' : FromEndC(i)' = Len(compute) + 2 - i
    BY <1>2, <1>7 DEF FromEndC
  <2>2. \A i \in DOMAIN compute : FromEndC(i) = Len(compute) + 2 - i /\ i \in DOMAIN compute'
    BY <1>2, <1>7 DEF FromEndC
  <2>3. 1 \in DOMAIN compute' /\ Len(compute) + 1 \in DOMAIN compute'
    BY <1>7
  <2>4. Queued' = Len(compute) + 1 /\ Queued = Len(compute) + 1
    BY <1>2, <1>7 DEF Queued, FromEndC
  <2>5. GraphQueued' = GraphQueued
    BY <1>7, <2>4 DEF GraphQueued
  <2>6. \A i : i = Len(compute) + 1 => FromEndC(i)' = 1
    BY <1>7, <2>1, <2>3
  <2>7. QED
    BY <1>7, <2>1, <2>2, <2>4, <2>5, <2>6
<1>9. ComputeInv'
  <2>1. \A i \in DOMAIN compute' : i \in DOMAIN compute \/ i = Len(compute) + 1
    BY <1>7
  <2>2. (\A i \in DOMAIN compute :
          /\ FromEndC(i) = 3 => compute[i] = Op("wait_snap", ub - 1)
          /\ FromEndC(i) = 2 => compute[i] = Op("graph", ub)
          /\ FromEndC(i) = 1 => compute[i] = Op("wait_snap", ub))'
    <3>1. ASSUME NEW i \in DOMAIN compute
          PROVE  /\ FromEndC(i)' = 3 => compute'[i] = Op("wait_snap", ub - 1)
                 /\ FromEndC(i)' = 2 => compute'[i] = Op("graph", ub)
                 /\ FromEndC(i)' = 1 => compute'[i] = Op("wait_snap", ub)
      BY <1>7, <1>8 DEF RingInv, ComputeInv
    <3>2. ASSUME NEW i \in DOMAIN compute', i = Len(compute) + 1
          PROVE  FromEndC(i)' = 1 /\ compute'[i] = Op("wait_snap", ub)
      BY <1>7, <1>8, <3>2
    <3>3. ub' = ub
      BY <1>1
    <3>4. ASSUME NEW i \in DOMAIN compute'
          PROVE  /\ FromEndC(i)' = 3 => compute'[i] = Op("wait_snap", ub - 1)
                 /\ FromEndC(i)' = 2 => compute'[i] = Op("graph", ub)
                 /\ FromEndC(i)' = 1 => compute'[i] = Op("wait_snap", ub)
      <4>1. CASE i \in DOMAIN compute
        BY <3>1, <4>1
      <4>2. CASE i = Len(compute) + 1
        BY <3>2, <4>2
      <4>3. QED
        BY <2>1, <4>1, <4>2
    <3>5. QED
      BY <3>3, <3>4
  <2>3. QED
    BY <1>1, <1>7, <1>8, <2>2 DEF RingInv, ComputeInv
<1>10. FenceInv /\ harvest \in Seq(Ops) /\ InHarvest \in 0 .. 5
  <2>1. FenceInv
    BY <1>1 DEF RingInv, HarvestInv
  <2>2. harvest \in Seq(Ops) /\ InHarvest \in Nat
    BY DEF RingTypes, InHarvest
  <2>3. QED
    BY <1>1, <1>2, <2>1, <2>2 DEF FenceInv
<1>11. /\ InHarvest' = InHarvest + 5 /\ DOMAIN harvest = 1 .. InHarvest
       /\ DOMAIN harvest' = 1 .. InHarvest + 5
       /\ \A i \in DOMAIN harvest : harvest'[i] = harvest[i] /\ FromEndH(i)' = FromEndH(i) + 5
       /\ \A i \in DOMAIN harvest' : FromEndH(i)' = InHarvest + 6 - i
       /\ harvest'[InHarvest + 1] = Op("wait_graph", ub)
       /\ harvest'[InHarvest + 2] = Op("d2d", next)
       /\ harvest'[InHarvest + 3] = Op("snap", ub)
       /\ harvest'[InHarvest + 4] = Op("d2h", next)
       /\ harvest'[InHarvest + 5] = Op("done", next)
  <2>1. /\ Op("wait_graph", ub) \in Ops /\ Op("d2d", next) \in Ops /\ Op("snap", ub) \in Ops
        /\ Op("d2h", next) \in Ops /\ Op("done", next) \in Ops
    BY <1>2, <1>3 DEF Ops, Op, Slots
  <2>2. harvest' = harvest \o <<Op("wait_graph", ub), Op("d2d", next), Op("snap", ub),
                                Op("d2h", next), Op("done", next)>>
    BY <1>1
  <2>3. /\ Len(harvest') = Len(harvest) + 5
        /\ DOMAIN harvest = 1 .. Len(harvest) /\ DOMAIN harvest' = 1 .. Len(harvest) + 5
        /\ \A i \in 1 .. Len(harvest) : harvest'[i] = harvest[i]
        /\ harvest'[Len(harvest) + 1] = Op("wait_graph", ub)
        /\ harvest'[Len(harvest) + 2] = Op("d2d", next)
        /\ harvest'[Len(harvest) + 3] = Op("snap", ub)
        /\ harvest'[Len(harvest) + 4] = Op("d2h", next)
        /\ harvest'[Len(harvest) + 5] = Op("done", next)
    BY <1>10, <2>1, <2>2, FiveMore
  <2>4. \A i \in DOMAIN harvest' : FromEndH(i)' = Len(harvest) + 6 - i
    BY <1>10, <2>3 DEF FromEndH, InHarvest
  <2>5. \A i \in DOMAIN harvest : i \in DOMAIN harvest' /\ FromEndH(i) = Len(harvest) + 1 - i
    BY <1>10, <2>3 DEF FromEndH, InHarvest
  <2>6. \A i \in DOMAIN harvest : FromEndH(i)' = FromEndH(i) + 5
    BY <1>10, <2>3, <2>4, <2>5 DEF InHarvest
  <2>7. QED
    BY <2>3, <2>4, <2>6 DEF InHarvest
<1>12. HarvestInv'
  <2>1. \A i \in DOMAIN harvest' :
           i \in DOMAIN harvest \/ i \in {InHarvest + 1, InHarvest + 2, InHarvest + 3,
                                          InHarvest + 4, InHarvest + 5}
    <3>1. DOMAIN harvest = 1 .. InHarvest /\ DOMAIN harvest' = 1 .. InHarvest + 5
      BY <1>11
    <3>2. InHarvest \in Nat
      BY <1>10
    <3>3. QED
      BY <3>1, <3>2
  <2>2. \A i \in DOMAIN harvest : i \in 1 .. InHarvest /\ FromEndH(i) \in Nat \ {0}
    BY <1>11, <1>10 DEF FromEndH, InHarvest
  <2>3. \A i \in DOMAIN harvest' :
           /\ FromEndH(i)' = 1 => harvest'[i] = Op("done", next)
           /\ FromEndH(i)' = 2 => harvest'[i] = Op("d2h", next)
           /\ FromEndH(i)' = 3 => harvest'[i] = Op("snap", ub)
           /\ FromEndH(i)' = 4 => harvest'[i] = Op("d2d", next)
           /\ FromEndH(i)' = 5 => harvest'[i] = Op("wait_graph", ub)
    <3>1. ASSUME NEW i \in DOMAIN harvest'
          PROVE  /\ FromEndH(i)' = 1 => i = InHarvest + 5
                 /\ FromEndH(i)' = 2 => i = InHarvest + 4
                 /\ FromEndH(i)' = 3 => i = InHarvest + 3
                 /\ FromEndH(i)' = 4 => i = InHarvest + 2
                 /\ FromEndH(i)' = 5 => i = InHarvest + 1
      <4>1. FromEndH(i)' = InHarvest + 6 - i
        BY <1>11
      <4>2. i \in Nat /\ InHarvest \in Nat
        BY <1>10, <1>11
      <4>3. QED
        BY <4>1, <4>2
    <3>2. /\ harvest'[InHarvest + 1] = Op("wait_graph", ub)
          /\ harvest'[InHarvest + 2] = Op("d2d", next)
          /\ harvest'[InHarvest + 3] = Op("snap", ub)
          /\ harvest'[InHarvest + 4] = Op("d2h", next)
          /\ harvest'[InHarvest + 5] = Op("done", next)
      BY <1>11
    <3>3. QED
      BY <3>1, <3>2
  <2>4. \A i \in DOMAIN harvest' :
           /\ FromEndH(i)' = 6 => harvest'[i] = Op("done", Latest)
           /\ FromEndH(i)' = 7 => harvest'[i] = Op("d2h", Latest)
           /\ FromEndH(i)' = 8 => harvest'[i] = Op("snap", Lu)
           /\ FromEndH(i)' = 9 => harvest'[i] = Op("d2d", Latest)
           /\ FromEndH(i)' = 10 => harvest'[i] = Op("wait_graph", Lu)
    <3>1. ASSUME NEW i \in DOMAIN harvest', FromEndH(i)' >= 6
          PROVE  i \in DOMAIN harvest /\ FromEndH(i) = FromEndH(i)' - 5
      BY <1>10, <1>11, <2>2, <3>1
    <3>2. ASSUME NEW i \in DOMAIN harvest', FromEndH(i)' >= 6
          PROVE  /\ FromEndH(i)' = 6 => harvest'[i] = Op("done", Latest)
                 /\ FromEndH(i)' = 7 => harvest'[i] = Op("d2h", Latest)
                 /\ FromEndH(i)' = 8 => harvest'[i] = Op("snap", Lu)
                 /\ FromEndH(i)' = 9 => harvest'[i] = Op("d2d", Latest)
                 /\ FromEndH(i)' = 10 => harvest'[i] = Op("wait_graph", Lu)
      <4>1. i \in DOMAIN harvest /\ FromEndH(i) = FromEndH(i)' - 5 /\ harvest'[i] = harvest[i]
        BY <1>11, <3>1, <3>2
      <4>2. FromEndH(i) \in Nat /\ FromEndH(i)' = FromEndH(i) + 5
        BY <1>11, <2>2, <4>1
      <4>3. QED
        BY <1>10, <4>1, <4>2 DEF FenceInv
    <3>3. QED
      BY <3>2
  <2>5. /\ InHarvest' <= 10 /\ slots'[Latest'].inflight
        /\ InHarvest' >= 6 => slots'[Earlier'].inflight
        /\ InHarvest' >= 8 => Queued' = 3
        /\ InHarvest' \in {7, 8} => gpu'[Earlier'] = Lu' - 1
        /\ InHarvest' <= 6 /\ slots'[Earlier'].inflight => pin'[Earlier'] = Lu' - 1
        /\ InHarvest' > 4
    BY <1>1, <1>2, <1>4, <1>8, <1>10, <1>11 DEF FenceInv
  <2>6. FenceInv'
    <3>1. InHarvest' \in 5 .. 10
      BY <1>10, <1>11
    <3>2. QED
      <4>1. (\A i \in DOMAIN harvest :
              /\ FromEndH(i) = 1 => harvest[i] = Op("done", Latest)
              /\ FromEndH(i) = 2 => harvest[i] = Op("d2h", Latest)
              /\ FromEndH(i) = 3 => harvest[i] = Op("snap", Lu)
              /\ FromEndH(i) = 4 => harvest[i] = Op("d2d", Latest)
              /\ FromEndH(i) = 5 => harvest[i] = Op("wait_graph", Lu)
              /\ FromEndH(i) = 6 => harvest[i] = Op("done", Earlier)
              /\ FromEndH(i) = 7 => harvest[i] = Op("d2h", Earlier)
              /\ FromEndH(i) = 8 => harvest[i] = Op("snap", Lu - 1)
              /\ FromEndH(i) = 9 => harvest[i] = Op("d2d", Earlier)
              /\ FromEndH(i) = 10 => harvest[i] = Op("wait_graph", Lu - 1))'
        <5>1. Lu' = ub /\ Lu' - 1 = Lu /\ Latest' = next /\ Earlier' = Latest
          BY <1>2, <1>3
        <5>2. QED
          BY <2>3, <2>4, <5>1
      <4>2. (/\ InHarvest >= 3 => compute # <<>> /\ (Launched => Queued = 3)
             /\ InHarvest >= 8 => main = "barrier" /\ Queued = 3
             /\ main = "barrier" /\ InHarvest <= 4 => ~GraphQueued
             /\ InHarvest \in {2, 3} => gpu[Latest] = Lu
             /\ InHarvest <= 1 /\ slots[Latest].inflight => pin[Latest] = Lu)'
        BY <1>1, <1>2, <1>7, <2>5, <3>1
      <4>3. QED
        BY <2>5, <3>1, <4>1, <4>2 DEF FenceInv
  <2>7. QED
    BY <1>1, <2>6 DEF HarvestInv
<1>13. \A s \in Slots \ {next} : CopyDone(s) => CopyDone(s)'
  <2>1. \A s \in Slots \ {next} : \A o \in {Op("wait_graph", ub), Op("d2d", next), Op("snap", ub),
                    Op("d2h", next), Op("done", next)} : o # Op("done", s)
    BY DEF Op
  <2>2. \A i \in DOMAIN harvest' :
           i \in DOMAIN harvest \/ i \in {InHarvest + 1, InHarvest + 2, InHarvest + 3,
                                          InHarvest + 4, InHarvest + 5}
    <3>1. DOMAIN harvest = 1 .. InHarvest /\ DOMAIN harvest' = 1 .. InHarvest + 5
      BY <1>11
    <3>2. InHarvest \in Nat
      BY <1>10
    <3>3. QED
      BY <3>1, <3>2
  <2>3. QED
    BY <1>10, <1>11, <2>1, <2>2 DEF CopyDone, Contains, InHarvest
<1>14. WorkerInv' /\ PackInv'
  BY <1>1, <1>2, <1>4, <1>13, HandedOver DEF Threaded
<1>15. QED
  BY <1>5, <1>6, <1>9, <1>12, <1>14 DEF RingInv

LEMMA SubmitSyncKeeps == ASSUME RingTypes, RingInv, SubmitSync PROVE RingInv'
<1>1. /\ main = "submit" /\ mode # "fence" /\ main' = "snap" /\ compute = <<>>
      /\ ~slots[next].inflight \/ (~Threaded /\ CopyDone(next))
      /\ harvest' = Append(harvest, Op("d2d", next))
      /\ slots' = [slots EXCEPT ![next] = [inflight |-> FALSE, pos |-> Head(posq)]]
      /\ posq' = Tail(posq)
      /\ UNCHANGED <<mode, compute, tensor, gpu, pin, next, wq, worker, ub, turn>>
  BY DEF SubmitSync, SlotFree, Synced
<1>2. /\ Launched /\ ~Launched' /\ Lu = ub - 1 /\ Lu' = Lu
      /\ Latest = 1 - next /\ Earlier = next /\ Latest' = Latest /\ Earlier' = Earlier
      /\ next \in Slots /\ Latest \in Slots /\ Latest # next
      /\ InSnap = 1 /\ InSnap' = 0
  BY <1>1 DEF Launched, Lu, Latest, Earlier, InSnap, RingTypes, Slots
<1>3. /\ Head(posq) = ub /\ ub \in Nat \ {0} /\ turn <= ub /\ turn \in Nat \ {0}
      /\ \A i \in 1 .. Len(posq') : posq'[i] = ub + i
  BY <1>1, RowsTaken DEF RingInv
<1>4. /\ ~slots'[next].inflight /\ slots'[next].pos = ub
      /\ \A s \in Slots \ {next} : slots'[s] = slots[s]
  BY <1>1, <1>2, <1>3 DEF RingTypes
<1>5. PosInv'
  BY <1>1, <1>2, <1>3 DEF PosInv
<1>6. SlotInv'
  BY <1>1, <1>2, <1>4 DEF RingInv, SlotInv
<1>7. ComputeInv'
  <2>1. compute = <<>> /\ tensor = ub
    BY <1>1, <1>2 DEF RingInv, ComputeInv, GraphQueued
  <2>2. compute' = <<>> /\ tensor' = ub'
    BY <1>1, <2>1
  <2>3. Queued' <= 1
    BY <1>2, <2>2 DEF Queued, FromEndC
  <2>4. QED
    BY <1>2, <2>2, <2>3 DEF ComputeInv, GraphQueued
<1>8. SyncInv /\ harvest \in Seq(Ops) /\ InHarvest \in 0 .. 2
  <2>1. SyncInv
    BY <1>1 DEF RingInv, HarvestInv
  <2>2. harvest \in Seq(Ops) /\ InHarvest \in Nat
    BY DEF RingTypes, InHarvest
  <2>3. QED
    BY <1>2, <2>1, <2>2 DEF SyncInv
<1>9. /\ InHarvest' = InHarvest + 1 /\ DOMAIN harvest = 1 .. InHarvest
      /\ DOMAIN harvest' = 1 .. InHarvest + 1 /\ harvest' # <<>>
      /\ \A i \in DOMAIN harvest : harvest'[i] = harvest[i]
      /\ harvest'[InHarvest + 1] = Op("d2d", next)
      /\ \A i \in DOMAIN harvest' : FromEndH(i)' = InHarvest + 2 - i
      /\ \A i \in DOMAIN harvest : FromEndH(i) = InHarvest + 1 - i
  <2>1. Op("d2d", next) \in Ops
    BY <1>2 DEF Ops, Op, Slots
  <2>2. /\ harvest' \in Seq(Ops) /\ Len(harvest') = Len(harvest) + 1 /\ Len(harvest) \in Nat
        /\ harvest' # <<>>
    BY <1>1, <1>8, <2>1
  <2>3. DOMAIN harvest = 1 .. Len(harvest) /\ DOMAIN harvest' = 1 .. Len(harvest')
    BY <1>8, <2>2
  <2>4. /\ \A i \in 1 .. Len(harvest) : harvest'[i] = harvest[i]
        /\ harvest'[Len(harvest) + 1] = Op("d2d", next)
    BY <1>1, <1>8, <2>1
  <2>5. \A i \in DOMAIN harvest' : FromEndH(i)' = Len(harvest) + 2 - i
    BY <2>2, <2>3 DEF FromEndH
  <2>6. \A i \in DOMAIN harvest : FromEndH(i) = Len(harvest) + 1 - i
    BY DEF FromEndH
  <2>7. QED
    BY <2>2, <2>3, <2>4, <2>5, <2>6 DEF InHarvest
<1>10. \A i \in DOMAIN harvest' : i \in DOMAIN harvest \/ i = InHarvest + 1
  <2>1. DOMAIN harvest = 1 .. InHarvest /\ DOMAIN harvest' = 1 .. InHarvest + 1
    BY <1>9
  <2>2. InHarvest \in Nat
    BY <1>8
  <2>3. QED
    BY <2>1, <2>2
<1>11. HarvestInv'
  <2>1. (\A i \in DOMAIN harvest :
          /\ FromEndH(i) + InSnap = 1 => harvest[i] = Op("d2d", next)
          /\ FromEndH(i) + InSnap = 2 => harvest[i] = Op("done", Latest)
          /\ FromEndH(i) + InSnap = 3 => harvest[i] = Op("d2h", Latest))'
    <3>1. ASSUME NEW i \in DOMAIN harvest
          PROVE  /\ FromEndH(i)' + InSnap' # 1
                 /\ FromEndH(i)' + InSnap' = 2 => harvest'[i] = Op("done", Latest')
                 /\ FromEndH(i)' + InSnap' = 3 => harvest'[i] = Op("d2h", Latest')
      <4>1. FromEndH(i)' = FromEndH(i) + 1 /\ FromEndH(i) \in Nat \ {0} /\ harvest'[i] = harvest[i]
        BY <1>8, <1>9
      <4>2. QED
        BY <1>2, <1>8, <4>1 DEF SyncInv
    <3>2. ASSUME NEW i \in DOMAIN harvest', i = InHarvest + 1
          PROVE  FromEndH(i)' = 1 /\ harvest'[i] = Op("d2d", next')
      <4>1. FromEndH(i)' = InHarvest + 2 - i /\ InHarvest \in Nat
        BY <1>8, <1>9
      <4>2. harvest'[i] = Op("d2d", next)
        BY <1>9, <3>2
      <4>3. next' = next
        BY <1>1
      <4>4. QED
        BY <3>2, <4>1, <4>2, <4>3
    <3>3. QED
      BY <1>2, <1>10, <3>1, <3>2
  <2>2. /\ InHarvest' + InSnap' = InHarvest + InSnap /\ slots'[Latest] = slots[Latest]
        /\ ~slots'[Earlier].inflight
    BY <1>2, <1>4, <1>8, <1>9
  <2>3. (/\ InHarvest + InSnap <= 3
         /\ InHarvest >= 1 /\ InHarvest + InSnap >= 2 => slots[Latest].inflight
         /\ InHarvest + InSnap = 3 => gpu[Latest] = Lu
         /\ InHarvest + InSnap <= 2 /\ slots[Latest].inflight => pin[Latest] = Lu
         /\ slots[Earlier].inflight => pin[Earlier] = Lu - 1)'
    BY <1>1, <1>2, <1>8, <2>2 DEF SyncInv
  <2>4. SyncInv'
    BY <1>9, <2>1, <2>3 DEF SyncInv
  <2>5. QED
    BY <1>1, <2>4 DEF HarvestInv
<1>12. \A s \in Slots : CopyDone(s) => CopyDone(s)'
  <2>1. \A s \in Slots : Op("d2d", next) # Op("done", s)
    BY DEF Op
  <2>2. QED
    BY <1>8, <1>9, <1>10, <2>1 DEF CopyDone, Contains, InHarvest
<1>13. CASE Threaded
  <2>1. ~slots[next].inflight /\ UNCHANGED <<curPos, packed, qsum>>
    BY <1>13 DEF SubmitSync, SlotFree
  <2>2. PackInv'
    <3>1. \A s \in Slots : slots[s].inflight => slots'[s] = slots[s]
      BY <1>4, <2>1
    <3>2. QED
      BY <1>1, <1>2, <2>1, <3>1 DEF RingInv, PackInv
  <2>3. \A i \in DOMAIN wq : wq[i] \in Slots /\ wq[i] # next
    BY <2>1, QueueFacts DEF RingInv, WorkerInv
  <2>4. worker \notin At(next)
    BY <1>2, <2>1 DEF RingInv, WorkerInv
  <2>5. Threaded' /\ \A s \in Slots : At(s)' = At(s)
    BY <1>1, <1>13 DEF Threaded, At
  <2>6. WorkerInv'
    BY <1>1, <1>4, <1>12, <2>1, <2>3, <2>4, <2>5 DEF RingInv, WorkerInv
  <2>7. QED
    BY <1>5, <1>6, <1>7, <1>11, <2>2, <2>6 DEF RingInv
<1>14. CASE ~Threaded
  <2>1. WorkerInv'
    <3>1. ~Threaded' /\ worker' = Waiting /\ wq' = <<>>
      BY <1>1, <1>14 DEF RingInv, WorkerInv, Threaded
    <3>2. QED
      BY <3>1, Places DEF WorkerInv
  <2>2. PackInv'
    <3>1. CASE slots[next].inflight
      <4>1. CopyDone(next) /\ Pack(slots[next].pos, pin[next])
        BY <1>1, <1>14, <3>1 DEF SubmitSync
      <4>2. QED
        BY <1>1, <1>2, <1>4, <3>1, <4>1, Committed
    <3>2. CASE ~slots[next].inflight
      <4>1. UNCHANGED <<packed, qsum>>
        BY <1>14, <3>2 DEF SubmitSync
      <4>2. \A s \in Slots : slots[s].inflight => slots'[s] = slots[s]
        BY <1>4, <3>2
      <4>3. QED
        BY <1>1, <1>2, <4>1, <4>2 DEF RingInv, PackInv
    <3>3. QED
      BY <3>1, <3>2
  <2>3. QED
    BY <1>5, <1>6, <1>7, <1>11, <2>1, <2>2 DEF RingInv
<1>15. QED
  BY <1>13, <1>14

LEMMA SnapDoneKeeps == ASSUME RingTypes, RingInv, SnapDone PROVE RingInv'
<1>1. /\ main = "snap" /\ main' = "barrier" /\ harvest = <<>>
      /\ harvest' = <<Op("d2h", next), Op("done", next)>>
      /\ slots' = [slots EXCEPT ![next].inflight = TRUE]
      /\ wq' = IF Threaded THEN Append(wq, next) ELSE wq
      /\ UNCHANGED <<mode, compute, tensor, gpu, pin, next, posq, curPos, worker, ub, turn,
                     packed, qsum>>
  BY DEF SnapDone, Synced
<1>2. /\ ~Launched /\ ~Launched' /\ Lu = ub - 1 /\ Lu' = ub
      /\ Latest = 1 - next /\ Earlier = next /\ Latest' = next /\ Earlier' = Latest
      /\ next \in Slots /\ Latest \in Slots /\ Latest # next
      /\ InSnap = 0 /\ InSnap' = 1 /\ ub \in Nat
  BY <1>1 DEF Launched, Lu, Latest, Earlier, InSnap, RingTypes, Slots
<1>3. /\ mode # "fence" /\ ub > 0 /\ turn <= ub
      /\ ~slots[next].inflight /\ slots[next].pos = ub /\ gpu[next] = ub
      /\ SyncInv
  <2>1. mode # "fence" /\ ub > 0 /\ turn <= ub
    BY <1>1 DEF RingInv, PosInv
  <2>2. QED
    BY <1>1, <2>1 DEF RingInv, HarvestInv, SyncInv, SlotInv
<1>4. /\ slots'[next].inflight /\ slots'[next].pos = ub
      /\ \A s \in Slots \ {next} : slots'[s] = slots[s]
  BY <1>1, <1>2, <1>3 DEF RingTypes
<1>5. PosInv'
  BY <1>1, <1>2, <1>3 DEF RingInv, PosInv
<1>6. SlotInv'
  <2>1. slots[Latest].inflight => slots[Latest].pos = Lu
    BY DEF RingInv, SlotInv
  <2>2. \A s \in Slots : slots'[s].inflight => slots'[s].pos > 0 /\ slots'[s].pos >= turn
    BY <1>2, <1>3, <1>4 DEF RingInv, SlotInv
  <2>3. slots'[Latest'].pos = Lu' /\ Lu' - 1 = Lu /\ slots'[Earlier'] = slots[Latest]
    BY <1>2, <1>3, <1>4
  <2>4. QED
    BY <1>1, <1>2, <2>1, <2>2, <2>3 DEF SlotInv
<1>7. ComputeInv'
  <2>1. compute = <<>> /\ tensor = ub
    BY <1>2, <1>3 DEF RingInv, ComputeInv, GraphQueued
  <2>2. QED
    BY <1>1, <2>1 DEF ComputeInv, GraphQueued
<1>8. /\ InHarvest = 0 /\ InHarvest' = 2 /\ DOMAIN harvest' = {1, 2} /\ harvest' # <<>>
      /\ harvest'[1] = Op("d2h", next) /\ harvest'[2] = Op("done", next)
      /\ \A i \in {1, 2} : FromEndH(i)' = 3 - i
  BY <1>1 DEF InHarvest, FromEndH
<1>9. HarvestInv'
  <2>1. (\A i \in DOMAIN harvest :
          /\ FromEndH(i) + InSnap = 1 => harvest[i] = Op("d2d", next)
          /\ FromEndH(i) + InSnap = 2 => harvest[i] = Op("done", Latest)
          /\ FromEndH(i) + InSnap = 3 => harvest[i] = Op("d2h", Latest))'
    <3>1. ASSUME NEW i \in DOMAIN harvest'
          PROVE  /\ FromEndH(i)' + InSnap' # 1
                 /\ FromEndH(i)' + InSnap' = 2 => harvest'[i] = Op("done", next)
                 /\ FromEndH(i)' + InSnap' = 3 => harvest'[i] = Op("d2h", next)
      <4>1. CASE i = 1
        BY <1>2, <1>8, <4>1 DEF FromEndH, InHarvest
      <4>2. CASE i = 2
        BY <1>2, <1>8, <4>2 DEF FromEndH, InHarvest
      <4>3. QED
        BY <1>8, <4>1, <4>2
    <3>2. QED
      BY <1>2, <1>8, <3>1
  <2>2. /\ InHarvest' + InSnap' = 3 /\ slots'[Latest'].inflight /\ gpu'[Latest'] = Lu'
        /\ slots'[Earlier'].inflight => pin'[Earlier'] = Lu' - 1
    <3>1. InHarvest + InSnap <= 2
      BY <1>2, <1>8
    <3>2. slots[Latest].inflight => pin[Latest] = Lu
      BY <1>3, <3>1 DEF SyncInv
    <3>3. QED
      BY <1>1, <1>2, <1>3, <1>4, <1>8, <3>2
  <2>3. SyncInv'
    BY <1>1, <2>1, <2>2 DEF SyncInv
  <2>4. QED
    BY <1>1, <1>3, <2>3 DEF HarvestInv
<1>10. \A s \in Slots \ {next} : CopyDone(s) => CopyDone(s)'
  <2>1. \A s \in Slots \ {next} : Op("d2h", next) # Op("done", s) /\ Op("done", next) # Op("done", s)
    BY DEF Op
  <2>2. QED
    BY <1>1, <2>1 DEF CopyDone, Contains
<1>11. WorkerInv' /\ PackInv'
  BY <1>1, <1>2, <1>3, <1>4, <1>10, HandedOver
<1>12. QED
  BY <1>5, <1>6, <1>7, <1>9, <1>11 DEF RingInv

-----------------------------------------------------------------------------
(* The theorems.                                                            *)

\* A failed submission is counted; no other step counts.
LEMMA FaultsCounted ==
    ASSUME RingTypes, [Next]_vars, faults' = 0
    PROVE  faults = 0 /\ ~SubmitFails /\ ~SubmitFailsLate
<1>1. CASE SubmitFails \/ SubmitFailsLate
  <2>1. faults' = faults + 1 /\ faults \in Nat
    BY <1>1 DEF SubmitFails, SubmitFailsLate, RingTypes
  <2>2. QED
    BY <2>1
<1>2. CASE UNCHANGED vars
  BY <1>1, <1>2 DEF vars
<1>3. CASE GPU \/ Worker \/ Calls
  BY <1>1, <1>3 DEF GPU, Worker, Calls, WorkerTake, WorkerStart, WorkerPack, WorkerRelease,
                    WorkerStops, Prepare, FlushCall
<1>4. CASE Launch \/ CommitOther \/ SubmitFence \/ SubmitSync \/ SnapDone \/ Barrier
  BY <1>1, <1>4 DEF Launch, CommitOther, SubmitFence, SubmitSync, SnapDone, Barrier
<1>5. CASE Capture \/ SchedSync \/ FlushInline \/ NewTurn \/ Join \/ Joined
  BY <1>1, <1>5 DEF Capture, SchedSync, FlushInline, NewTurn, Join, Joined
<1>6. QED
  BY <1>1, <1>2, <1>3, <1>4, <1>5 DEF Next, Main

LEMMA NextRing ==
    ASSUME RingTypes, RingTypes', RingInv, faults' = 0, [Next]_vars
    PROVE  RingInv'
<1>1. CASE UNCHANGED vars
  <2>1. SameStage /\ PosInv'
    BY <1>1 DEF vars, host, streams, SameStage, RingInv, PosInv, Launched
  <2>2. QED
    BY <1>1, <2>1, MainMoves DEF vars, host, streams
<1>2. CASE GPU
  BY <1>2, ComputeKeeps, HarvestKeeps DEF GPU, GPUFrame
<1>3. CASE Worker \/ Calls
  BY <1>3, WorkerKeeps, CallsKeep
<1>4. CASE Launch \/ CommitOther \/ SubmitFence \/ SubmitSync \/ SnapDone \/ Barrier
  BY <1>4, LaunchKeeps, CommitOtherKeeps, SubmitFenceKeeps, SubmitSyncKeeps, SnapDoneKeeps,
     BarrierKeeps
<1>5. CASE FlushInline \/ NewTurn \/ Join \/ Joined
  BY <1>5, FlushInlineKeeps, NewTurnKeeps, JoinKeeps
<1>6. ~Capture /\ ~SchedSync
  BY DEF Capture, SchedSync, RingInv, PosInv
<1>7. ~SubmitFails /\ ~SubmitFailsLate
  BY FaultsCounted
<1>8. QED
  BY <1>1, <1>2, <1>3, <1>4, <1>5, <1>6, <1>7 DEF Next, Main

LEMMA RingInvariant == Spec => []IInv
<1>1. Init => IInv
  BY InitTypes, InitRing DEF IInv
<1>2. IInv /\ [Next]_vars => IInv'
  <2>. SUFFICES ASSUME IInv, [Next]_vars PROVE IInv'
    OBVIOUS
  <2>1. RingTypes /\ RingTypes'
    BY NextTypes DEF IInv
  <2>2. ASSUME faults' = 0 PROVE RingInv'
    BY <2>1, <2>2, FaultsCounted, NextRing DEF IInv
  <2>3. QED
    BY <2>1, <2>2 DEF IInv
<1>3. QED
  BY <1>1, <1>2, PTL DEF Spec

\* Whatever the two streams and two threads interleave, the rows written to the
\* raw store carry the bytes of their own ubatch, as long as no submission failed.
THEOREM RowsOfTheirUbatch == Spec => []RowsHoldTheirUbatch
<1>1. IInv => RowsHoldTheirUbatch
  BY DEF IInv, RingInv, PackInv, RowsHoldTheirUbatch
<1>2. QED
  BY <1>1, RingInvariant, PTL

\* q_sum_ holds no ubatch of an earlier turn: a flush leaves nothing in flight
\* that the worker could still add.
THEOREM QueryOfItsTurn == Spec => []QueryOfThisTurn
<1>1. IInv => QueryOfThisTurn
  BY DEF IInv, RingInv, PackInv, QueryOfThisTurn
<1>2. QED
  BY <1>1, RingInvariant, PTL

\* With both slots released every ubatch launched so far is in the raw store:
\* harvest_flush does not pass while one is missing.
THEOREM FlushPacks == Spec => []FlushedMeansPacked
<1>1. IInv => FlushedMeansPacked
  <2>. SUFFICES ASSUME IInv, faults = 0, main \in {"idle", "join", "gone"},
                       \A s \in Slots : ~slots[s].inflight
                PROVE  {x[1] : x \in packed} = 1 .. ub
    BY DEF FlushedMeansPacked
  <2>1. PackInv /\ Lu = ub
    BY DEF IInv, RingInv, Lu, Launched
  <2>2. \A u \in 1 .. ub : <<u, u>> \in packed
    BY <2>1 DEF PackInv
  <2>3. \A x \in packed : x[1] \in 1 .. ub
    BY <2>1 DEF PackInv
  <2>4. \A u \in 1 .. ub : \E x \in packed : x[1] = u
    <3>1. ASSUME NEW u \in 1 .. ub PROVE <<u, u>> \in packed /\ <<u, u>>[1] = u
      BY <2>2
    <3>2. QED
      BY <3>1
  <2>5. QED
    BY <2>3, <2>4
<1>2. QED
  BY <1>1, RingInvariant, PTL
=============================================================================

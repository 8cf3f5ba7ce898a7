------------------------- MODULE KvMemRuntimeProofs -------------------------
(* Type correctness, the ownership of GPU slots, what attention reads, how a *)
(* plan fits the pool, and where the working set is, for every value of the  *)
(* constants.  SlotInv, the strengthening for the slots, is in KvMemRuntime. *)
(*                                                                           *)
(* Then the lower tiers: the CPU arena and the file keep their slots apart,  *)
(* the residency records say what they hold, and their copies are the bytes  *)
(* last staged out.                                                          *)
EXTENDS KvMemRuntime, FiniteSetTheorems, WellFoundedInduction, TLAPS

-----------------------------------------------------------------------------
(* The token geometry.                                                      *)

\* Registering k rows keeps every block registered.
LEMMA LiveGrows ==
    ASSUME NEW t \in Nat, NEW k \in Nat
    PROVE  Live(t) \subseteq Live(t + k)
<1>1. \A b \in Blocks : b * BT \in Int
  BY SizesAssumption DEF Blocks
<1>2. QED
  BY <1>1 DEF Live

\* truncate_to(p) leaves the blocks that start before p.
LEMMA LiveTruncated ==
    ASSUME total \in Nat, NEW p \in Nat
    PROVE  Live(Lesser(total, p)) = Live(total) \ Dropped(p)
<1>1. \A b \in Blocks : b * BT \in Int
  BY SizesAssumption DEF Blocks
<1>2. QED
  BY <1>1 DEF Live, Dropped, Lesser

\* The blocks pick_prefill_pressure_blocks keeps are registered.
LEMMA PressureRegistered ==
    ASSUME NEW t
    PROVE  PressureBlocks(t) \subseteq Live(t)
BY DEF PressureBlocks

LEMMA BoundIsNat == MaxBlocks * BT \in Nat
BY SizesAssumption

-----------------------------------------------------------------------------
(* Type correctness of the records, the pool and the control state.         *)

LEMMA InitType == Init => ControlTypeOK
<1> SUFFICES ASSUME Init PROVE ControlTypeOK
  OBVIOUS
<1>1. /\ tier \in [Blocks -> {"GPU", "CPU", "SSD"}]
      /\ gpuSlot \in [Blocks -> GpuSlots \cup {NoSlot}]
      /\ inWs \in [Blocks -> BOOLEAN]
  BY DEF Init
<1>2. plan \in [kind : {"none", "append", "select"}, t0 : 0 .. MaxBlocks * BT,
               out : SUBSET Blocks, in : SUBSET Blocks]
  BY BoundIsNat DEF Init, NoPlan
<1>3. total \in 0 .. MaxBlocks * BT
  BY BoundIsNat DEF Init
<1>4. free \subseteq GpuSlots /\ frees \subseteq GpuSlots /\ todo \subseteq Blocks
  BY DEF Init
<1>5. /\ pending \in BOOLEAN /\ pinned \in BOOLEAN /\ thrown \in BOOLEAN
      /\ mode \in {"idle", "fetch", "spill", "admit", "compute", "unwind"}
  BY DEF Init
<1>6. QED
  BY <1>1, <1>2, <1>3, <1>4, <1>5 DEF ControlTypeOK

LEMMA SetSelectionType ==
    ASSUME ControlTypeOK, NEW S, NEW t, S \subseteq Blocks,
           NEW kind \in {"append", "select"}, SetSelection(S, t, kind)
    PROVE  /\ plan' \in [kind : {"none", "append", "select"},
                         t0 : 0 .. MaxBlocks * BT,
                         out : SUBSET Blocks, in : SUBSET Blocks]
           /\ inWs' \in [Blocks -> BOOLEAN]
           /\ pending' = TRUE /\ mode' = "fetch"
<1>1. PlanOut(S, t) \subseteq Blocks /\ PlanIn(S) \subseteq Blocks
  BY DEF PlanOut, PlanIn, Live
<1>2. inWs' \in [Blocks -> BOOLEAN]
  BY DEF SetSelection, ControlTypeOK
<1>3. QED
  BY <1>1, <1>2 DEF SetSelection, ControlTypeOK

LEMMA TruncateType ==
    ASSUME ControlTypeOK, NEW p \in 0 .. MaxBlocks * BT, TruncateRecords(p)
    PROVE  /\ total' \in 0 .. MaxBlocks * BT
           /\ tier' \in [Blocks -> {"GPU", "CPU", "SSD"}]
           /\ gpuSlot' \in [Blocks -> GpuSlots \cup {NoSlot}]
           /\ inWs' \in [Blocks -> BOOLEAN]
           /\ DroppedSlots(p) \subseteq GpuSlots
<1>1. total' \in 0 .. MaxBlocks * BT
  BY BoundIsNat DEF TruncateRecords, ControlTypeOK, Lesser
<1>2. DroppedSlots(p) \subseteq GpuSlots
  BY DEF DroppedSlots, Dropped, Live, ControlTypeOK
<1>3. QED
  BY <1>1, <1>2 DEF TruncateRecords, Hold, ControlTypeOK

LEMMA RequestType == ControlTypeOK /\ Request => ControlTypeOK'
<1> SUFFICES ASSUME ControlTypeOK, Request PROVE ControlTypeOK'
  OBVIOUS
<1> USE DEF store, pool, history
<1>1. ASSUME NEW k \in 1 .. MaxAppend, AppendUnderPressure(k)
      PROVE  ControlTypeOK'
  <2>1. total' \in 0 .. MaxBlocks * BT
    BY <1>1, BoundIsNat, SizesAssumption
    DEF AppendUnderPressure, MayAppend, ControlTypeOK
  <2>2. PressureBlocks(total + k) \subseteq Blocks
    BY PressureRegistered DEF Live
  <2>3. SetSelection(PressureBlocks(total + k), total + k, "append")
    BY <1>1 DEF AppendUnderPressure
  <2>4. QED
    BY <1>1, <2>1, <2>2, <2>3, SetSelectionType
    DEF AppendUnderPressure, ControlTypeOK
<1>2. ASSUME NEW k \in 1 .. MaxAppend, AppendDirect(k)
      PROVE  ControlTypeOK'
  <2>1. total' \in 0 .. MaxBlocks * BT
    BY <1>2, BoundIsNat, SizesAssumption
    DEF AppendDirect, MayAppend, ControlTypeOK
  <2>2. gpuSlot' \in [Blocks -> GpuSlots \cup {NoSlot}] /\ free' \subseteq GpuSlots
    BY <1>2 DEF AppendDirect, ControlTypeOK
  <2>3. tier' \in [Blocks -> {"GPU", "CPU", "SSD"}]
    BY <1>2 DEF AppendDirect, ControlTypeOK
  <2>4. plan' = [kind |-> "append", t0 |-> total, out |-> {}, in |-> {}]
    BY <1>2 DEF AppendDirect, NoPlan
  <2>5. QED
    BY <1>2, <2>1, <2>2, <2>3, <2>4 DEF AppendDirect, ControlTypeOK
<1>3. ASSUME NEW k \in 1 .. MaxAppend, AppendRefused(k)
      PROVE  ControlTypeOK'
  BY <1>3 DEF AppendRefused, ControlTypeOK
<1>4. ASSUME NEW S \in SUBSET Blocks, PrepareSelection(S)
      PROVE  ControlTypeOK'
  BY <1>4, SetSelectionType DEF PrepareSelection, ControlTypeOK
<1>5. ASSUME NEW p \in 0 .. MaxBlocks * BT, TruncateCached(p)
      PROVE  ControlTypeOK'
  BY <1>5, TruncateType DEF TruncateCached, ControlTypeOK
<1>6. CASE Clear
  <2>1. 0 \in 0 .. MaxBlocks * BT /\ TruncateRecords(0)
    BY <1>6, BoundIsNat DEF Clear
  <2>2. /\ total' \in 0 .. MaxBlocks * BT
        /\ tier' \in [Blocks -> {"GPU", "CPU", "SSD"}]
        /\ gpuSlot' \in [Blocks -> GpuSlots \cup {NoSlot}]
        /\ inWs' \in [Blocks -> BOOLEAN]
    BY <2>1, TruncateType
  <2>3. QED
    BY <1>6, <2>2 DEF Clear, ControlTypeOK
<1>7. CASE BeginCachedTurn
  BY <1>7 DEF BeginCachedTurn, ControlTypeOK
<1>8. CASE KeepSelected
  BY <1>8 DEF KeepSelected, ControlTypeOK
<1>9. CASE CommitResident
  BY <1>9, BoundIsNat DEF CommitResident, ControlTypeOK, NoPlan
<1>10. QED
  BY <1>1, <1>2, <1>3, <1>4, <1>5, <1>6, <1>7, <1>8, <1>9 DEF Request

LEMMA ProgressType == ControlTypeOK /\ Progress => ControlTypeOK'
<1> SUFFICES ASSUME ControlTypeOK, Progress PROVE ControlTypeOK'
  OBVIOUS
<1> USE DEF store, pool, gpu, tiers, history, Throw
<1>1. ASSUME NEW b \in Blocks, PrefetchRead(b) \/ PrefetchThrows(b)
      PROVE  ControlTypeOK'
  BY <1>1 DEF PrefetchRead, PrefetchThrows, ControlTypeOK
<1>2. CASE SpillBegin
  BY <1>2 DEF SpillBegin, ControlTypeOK
<1>3. CASE SpillThrows
  BY <1>3 DEF SpillThrows, ControlTypeOK
<1>4. ASSUME NEW b \in Blocks, Unseat(b)
      PROVE  frees' \subseteq GpuSlots /\ todo' \subseteq Blocks
  BY <1>4 DEF Unseat, ControlTypeOK
<1>5. ASSUME NEW b \in Blocks, StageOutToCpu(b)
      PROVE  ControlTypeOK'
  <2>1. tier' \in [Blocks -> {"GPU", "CPU", "SSD"}]
    BY <1>5 DEF StageOutToCpu, ControlTypeOK
  <2>2. gpuSlot' \in [Blocks -> GpuSlots \cup {NoSlot}]
    BY <1>5 DEF StageOutToCpu, ControlTypeOK
  <2>3. frees' \subseteq GpuSlots /\ todo' \subseteq Blocks
    BY <1>4, <1>5 DEF StageOutToCpu
  <2>4. UNCHANGED <<total, inWs, free, plan, pending, pinned, mode, thrown>>
    BY <1>5 DEF StageOutToCpu
  <2>5. QED
    BY <2>1, <2>2, <2>3, <2>4 DEF ControlTypeOK
<1>6. ASSUME NEW b \in Blocks, VictimSpillThrows(b) \/ BlockSpillThrows(b)
      PROVE  ControlTypeOK'
  BY <1>6 DEF VictimSpillThrows, BlockSpillThrows, ControlTypeOK
<1>7. ASSUME NEW b \in Blocks, StageOutToNvme(b) \/ StageOutDropped(b)
      PROVE  ControlTypeOK'
  <2>1. frees' \subseteq GpuSlots /\ todo' \subseteq Blocks
    BY <1>4, <1>7 DEF StageOutToNvme, StageOutDropped
  <2>2. QED
    BY <1>7, <2>1 DEF StageOutToNvme, StageOutDropped, ControlTypeOK
<1>8. CASE AdmitBegin
  BY <1>8 DEF AdmitBegin, ControlTypeOK
<1>9. ASSUME NEW b \in Blocks, StageInResident(b)
      PROVE  ControlTypeOK'
  BY <1>9 DEF StageInResident, ControlTypeOK
<1>10. ASSUME NEW b \in Blocks, StageInCold(b)
       PROVE  ControlTypeOK'
  <2>1. Allocatable \subseteq GpuSlots \cup {NoSlot}
    BY DEF Allocatable, ControlTypeOK
  <2>2. gpuSlot' \in [Blocks -> GpuSlots \cup {NoSlot}] /\ free' \subseteq GpuSlots
    BY <1>10, <2>1 DEF StageInCold, ControlTypeOK
  <2>3. QED
    BY <1>10, <2>2 DEF StageInCold, ControlTypeOK
<1>11. ASSUME NEW b \in Blocks, StageInThrows(b)
       PROVE  ControlTypeOK'
  BY <1>11 DEF StageInThrows, ControlTypeOK
<1>12. CASE FinishAppend
  BY <1>12 DEF FinishAppend, ControlTypeOK
<1>13. CASE FinishSelection
  <2>1. /\ gpuSlot' \in [Blocks -> GpuSlots \cup {NoSlot}]
        /\ tier' \in [Blocks -> {"GPU", "CPU", "SSD"}]
        /\ free' \subseteq GpuSlots
    BY <1>13 DEF FinishSelection, Relayout, RewriteStagedIn, ControlTypeOK
  <2>2. QED
    BY <1>13, <2>1 DEF FinishSelection, ControlTypeOK
<1>14. CASE Compute
  BY <1>14 DEF Compute, ControlTypeOK
<1>15. CASE UnwindAppend
  <2>1. plan.t0 \in 0 .. MaxBlocks * BT
    BY DEF ControlTypeOK
  <2>2. QED
    BY <1>15, <2>1, TruncateType DEF UnwindAppend, ControlTypeOK
<1>16. CASE UnwindSelect
  BY <1>16 DEF UnwindSelect, ControlTypeOK
<1>17. QED
  BY <1>1, <1>2, <1>3, <1>5, <1>6, <1>7, <1>8, <1>9, <1>10, <1>11, <1>12,
     <1>13, <1>14, <1>15, <1>16 DEF Progress

LEMMA NextType == ControlTypeOK /\ [Next]_vars => ControlTypeOK'
<1>1. ASSUME ControlTypeOK, UNCHANGED vars PROVE ControlTypeOK'
  BY <1>1 DEF ControlTypeOK, vars, store, pool, history
<1>2. QED
  BY <1>1, RequestType, ProgressType DEF Next

\* The residency records, the slot pool and the control state keep their types;
\* in particular slot -1, which stage_in and truncate_to both meet, never
\* enters the pool.
THEOREM ControlTypeCorrect == Spec => []ControlTypeOK
BY InitType, NextType, PTL DEF Spec

-----------------------------------------------------------------------------
(* Ownership and conservation of the GPU slots.                             *)

\* The conjuncts of SlotInv about slots.
SlotParts == /\ SlotOwnership /\ SlotConservation
             /\ UnregisteredUnseated /\ SeatedInGpuTier

LEMMA SlotIsInt == GpuSlots \subseteq Int /\ NoSlot \in Int /\ NoSlot < 0
                   /\ \A s \in GpuSlots : s >= 0
BY SizesAssumption DEF GpuSlots, NoSlot

LEMMA SlotOrNone ==
    ASSUME ControlTypeOK
    PROVE  \A b \in Blocks :
             /\ gpuSlot[b] \in Int
             /\ gpuSlot[b] >= 0 <=> gpuSlot[b] # NoSlot
             /\ gpuSlot[b] < 0 <=> gpuSlot[b] = NoSlot
<1>1. \A b \in Blocks : gpuSlot[b] \in GpuSlots \/ gpuSlot[b] = NoSlot
  BY DEF ControlTypeOK
<1>2. QED
  BY <1>1, SizesAssumption DEF GpuSlots, NoSlot

LEMMA InitSlots == Init => SlotInv
<1> SUFFICES ASSUME Init PROVE SlotInv
  OBVIOUS
<1>1. \A b \in Blocks : gpuSlot[b] = NoSlot
  BY DEF Init
<1>2. Seated = {} /\ SeatedSlots = {}
  BY <1>1, SlotIsInt DEF Seated, SeatedSlots, Live
<1>3. free = GpuSlots /\ InFlight = {} /\ mode = "idle"
  BY DEF Init, InFlight
<1>4. SlotOwnership /\ SlotConservation
  BY <1>2, <1>3 DEF SlotOwnership, SlotConservation
<1>5. UnregisteredUnseated /\ SeatedInGpuTier
  BY <1>1, SlotIsInt DEF UnregisteredUnseated, SeatedInGpuTier
<1>6. PlanRegistered
  BY <1>3 DEF PlanRegistered
<1>7. QED
  BY <1>4, <1>5, <1>6, InitType DEF SlotInv

\* A step that seats no block and lets go of slots only when it throws.
LEMMA SlotsUntouched ==
    ASSUME SlotInv, total' = total, gpuSlot' = gpuSlot, tier' = tier,
           free' \subseteq free, InFlight' \subseteq InFlight,
           thrown' \/ (free' = free /\ InFlight' = InFlight /\ thrown' = thrown)
    PROVE  SlotParts'
<1>1. Seated' = Seated /\ SeatedSlots' = SeatedSlots
  BY DEF Seated, SeatedSlots
<1>2. SlotOwnership'
  BY <1>1 DEF SlotInv, SlotOwnership
<1>3. SlotConservation'
  BY <1>1 DEF SlotInv, SlotConservation
<1>4. UnregisteredUnseated' /\ SeatedInGpuTier'
  BY DEF SlotInv, UnregisteredUnseated, SeatedInGpuTier, Registered
<1>5. QED
  BY <1>2, <1>3, <1>4 DEF SlotParts

\* truncate_to(p) returns the slots of the dropped blocks, and no others.
LEMMA SlotsOfDropped ==
    ASSUME SlotInv, NEW p \in 0 .. MaxBlocks * BT, TruncateRecords(p)
    PROVE  /\ Seated' = Seated \ Dropped(p)
           /\ \A b \in Seated' : gpuSlot'[b] = gpuSlot[b]
           /\ SeatedSlots = SeatedSlots' \cup DroppedSlots(p)
           /\ SeatedSlots' \cap DroppedSlots(p) = {}
           /\ UnregisteredUnseated' /\ SeatedInGpuTier'
<1>1. total \in Nat /\ p \in Nat
  BY BoundIsNat DEF SlotInv, ControlTypeOK
<1>2. Live(total') = Live(total) \ Dropped(p) /\ Live(total') \subseteq Blocks
  BY <1>1, LiveTruncated DEF TruncateRecords, Live
<1>3. \A b \in Blocks : gpuSlot'[b] = IF b \in Dropped(p) THEN NoSlot ELSE gpuSlot[b]
  BY DEF TruncateRecords, Hold
<1>4. \A b \in Blocks : tier'[b] = IF b \in Dropped(p) THEN "GPU" ELSE tier[b]
  BY DEF TruncateRecords, Hold
<1>5. Seated' = Seated \ Dropped(p)
  BY <1>2, <1>3, SlotIsInt DEF Seated
<1>6. \A b \in Seated' : gpuSlot'[b] = gpuSlot[b]
  BY <1>2, <1>3, <1>5 DEF Seated
<1>7. SeatedSlots' = {gpuSlot[b] : b \in Seated \ Dropped(p)}
  BY <1>5, <1>6 DEF SeatedSlots
<1>8. DroppedSlots(p) = {gpuSlot[b] : b \in Seated \cap Dropped(p)}
  <2>1. \A b \in Dropped(p) : b \in Seated <=> gpuSlot[b] # NoSlot
    <3>1. Dropped(p) \subseteq Live(total) /\ Dropped(p) \subseteq Blocks
      BY DEF Dropped, Live
    <3>2. QED
      BY <3>1, SlotOrNone DEF Seated, SlotInv
  <2>2. QED
    BY <2>1 DEF DroppedSlots
<1>9. SeatedSlots = SeatedSlots' \cup DroppedSlots(p)
  BY <1>7, <1>8 DEF SeatedSlots
<1>10. SeatedSlots' \cap DroppedSlots(p) = {}
  BY <1>7, <1>8 DEF SlotInv, SlotOwnership
<1>11. UnregisteredUnseated' /\ SeatedInGpuTier'
  BY <1>2, <1>3, <1>4, SlotIsInt
  DEF UnregisteredUnseated, SeatedInGpuTier, Registered, SlotInv
<1>12. QED
  BY <1>5, <1>6, <1>9, <1>10, <1>11

LEMMA SlotsTruncated ==
    ASSUME SlotInv, NEW p \in 0 .. MaxBlocks * BT, TruncateRecords(p),
           free' = free \cup DroppedSlots(p),
           InFlight = {}, InFlight' = {}, thrown' = thrown
    PROVE  SlotParts'
<1>1. SlotOwnership'
  BY SlotsOfDropped DEF SlotOwnership, SlotInv
<1>2. SlotConservation'
  BY SlotsOfDropped DEF SlotConservation, SlotInv
<1>3. QED
  BY <1>1, <1>2, SlotsOfDropped DEF SlotParts

\* Seating one registered block in a slot of the pool.
LEMMA BlockSeated ==
    ASSUME SlotInv, NEW b \in Blocks, b \in Live(total), gpuSlot[b] < 0,
           NEW s \in free, total' = total, thrown' = thrown,
           gpuSlot' = [gpuSlot EXCEPT ![b] = s],
           tier' = [tier EXCEPT ![b] = "GPU"],
           free' = free \ {s}, InFlight' = InFlight
    PROVE  SlotParts'
<1>1. gpuSlot \in [Blocks -> GpuSlots \cup {NoSlot}] /\ s \in GpuSlots
      /\ tier \in [Blocks -> {"GPU", "CPU", "SSD"}]
  BY DEF SlotInv, ControlTypeOK
<1>2. gpuSlot'[b] = s /\ \A x \in Blocks \ {b} : gpuSlot'[x] = gpuSlot[x]
  BY <1>1
<1>3. b \notin Seated
  BY SlotOrNone DEF Seated, SlotInv
<1>4. Seated' = Seated \cup {b}
  BY <1>1, <1>2, SlotIsInt DEF Seated, Live
<1>5. SeatedSlots' = SeatedSlots \cup {s}
  BY <1>2, <1>3, <1>4 DEF SeatedSlots, Seated, Live
<1>6. SlotOwnership'
  <2>1. \A x \in Seated : x \in Blocks \ {b} /\ gpuSlot[x] \in SeatedSlots
    BY <1>3 DEF Seated, SeatedSlots, Live
  <2>2. \A x, y \in Seated' : gpuSlot'[x] = gpuSlot'[y] => x = y
    BY <1>2, <1>4, <2>1 DEF SlotInv, SlotOwnership
  <2>3. QED
    BY <1>5, <2>2 DEF SlotInv, SlotOwnership
<1>7. SlotConservation'
  BY <1>5 DEF SlotInv, SlotConservation
<1>8. UnregisteredUnseated' /\ SeatedInGpuTier'
  BY <1>1, <1>2 DEF SlotInv, UnregisteredUnseated, SeatedInGpuTier, Registered
<1>9. QED
  BY <1>6, <1>7, <1>8 DEF SlotParts

-----------------------------------------------------------------------------
(* prepare_working_set.                                                     *)

LEMMA AppendKeepsSlots ==
    ASSUME SlotInv, NEW k \in 1 .. MaxAppend,
           AppendUnderPressure(k) \/ AppendDirect(k) \/ AppendRefused(k)
    PROVE  SlotParts'
<1>1. total \in Nat /\ k \in Nat
  BY BoundIsNat, SizesAssumption DEF SlotInv, ControlTypeOK
<1>2. Live(total) \subseteq Live(total + k) /\ Live(total + k) \subseteq Blocks
  BY <1>1, LiveGrows DEF Live
<1>3. Unseated(k) \subseteq Live(total + k) /\ \A b \in Unseated(k) : gpuSlot[b] < 0
  BY DEF Unseated, Incoming
<1>4. mode = "idle" /\ InFlight = {}
  BY DEF AppendUnderPressure, AppendDirect, AppendRefused, MayAppend, InFlight
<1>5. \A b \in Blocks : gpuSlot[b] >= 0 => b \in Live(total)
  BY SlotIsInt DEF SlotInv, UnregisteredUnseated, Registered
<1>6. CASE AppendUnderPressure(k)
  <2>1. /\ UNCHANGED <<tier, gpuSlot, free, thrown>> /\ total' = total + k
        /\ mode' = "fetch" /\ InFlight' = {}
    BY <1>6 DEF AppendUnderPressure, SetSelection, pool, history, InFlight
  <2>2. Seated' = Seated /\ SeatedSlots' = SeatedSlots
    BY <1>2, <1>5, <2>1 DEF Seated, SeatedSlots
  <2>3. SlotOwnership' /\ SlotConservation'
    BY <1>4, <2>1, <2>2 DEF SlotInv, SlotOwnership, SlotConservation
  <2>4. UnregisteredUnseated' /\ SeatedInGpuTier'
    BY <1>2, <2>1
    DEF SlotInv, UnregisteredUnseated, SeatedInGpuTier, Registered
  <2>5. QED
    BY <2>3, <2>4 DEF SlotParts
<1>7. CASE AppendDirect(k)
  <2>1. PICK seat \in [Unseated(k) -> free] :
          /\ \A b, c \in Unseated(k) : seat[b] = seat[c] => b = c
          /\ gpuSlot' = [b \in Blocks |-> IF b \in Unseated(k) THEN seat[b]
                                                               ELSE gpuSlot[b]]
          /\ free' = free \ {seat[b] : b \in Unseated(k)}
    BY <1>7 DEF AppendDirect
  <2>2. /\ total' = total + k /\ mode' = "compute" /\ InFlight' = {}
        /\ thrown' = thrown
        /\ tier' = [b \in Blocks |-> IF b \in Unseated(k) THEN "GPU" ELSE tier[b]]
    BY <1>7 DEF AppendDirect, history, InFlight
  <2>3. /\ \A b \in Unseated(k) : gpuSlot'[b] = seat[b] /\ seat[b] \in free
        /\ \A b \in Blocks \ Unseated(k) : gpuSlot'[b] = gpuSlot[b]
    BY <1>2, <1>3, <2>1
  <2>4. free \subseteq GpuSlots
    BY DEF SlotInv, ControlTypeOK
  <2>5. Seated' = Seated \cup Unseated(k) /\ Seated \cap Unseated(k) = {}
    <3>1. \A b \in Unseated(k) : gpuSlot'[b] >= 0
      BY <2>3, <2>4, SlotIsInt
    <3>2. Seated \cap Unseated(k) = {}
      BY <1>2, <1>3, SlotOrNone DEF Seated, SlotInv
    <3>3. \A b \in Live(total + k) \ Unseated(k) :
            gpuSlot'[b] >= 0 <=> b \in Seated
      BY <1>2, <1>5, <2>3 DEF Seated
    <3>4. Seated \subseteq Live(total + k)
      BY <1>2 DEF Seated
    <3>5. QED
      BY <1>3, <2>2, <3>1, <3>2, <3>3, <3>4 DEF Seated
  <2>6. SeatedSlots' = SeatedSlots \cup {seat[b] : b \in Unseated(k)}
    BY <1>2, <2>3, <2>5 DEF Seated, SeatedSlots
  <2>7. SlotOwnership'
    <3>1. \A b, c \in Seated' : gpuSlot'[b] = gpuSlot'[c] => b = c
      <4>1. \A b \in Seated : gpuSlot'[b] = gpuSlot[b] /\ gpuSlot[b] \in SeatedSlots
        BY <1>2, <2>3, <2>5 DEF Seated, SeatedSlots
      <4>2. \A b \in Seated, c \in Unseated(k) : gpuSlot'[b] # gpuSlot'[c]
        BY <2>3, <4>1 DEF SlotInv, SlotOwnership
      <4>3. QED
        BY <2>1, <2>3, <2>5, <4>1, <4>2 DEF SlotInv, SlotOwnership
    <3>2. QED
      BY <2>1, <2>2, <2>6, <3>1 DEF SlotInv, SlotOwnership
  <2>8. SlotConservation'
    BY <1>4, <2>1, <2>2, <2>6 DEF SlotInv, SlotConservation
  <2>9. UnregisteredUnseated' /\ SeatedInGpuTier'
    BY <1>2, <1>3, <2>2, <2>3
    DEF SlotInv, UnregisteredUnseated, SeatedInGpuTier, Registered
  <2>10. QED
    BY <2>7, <2>8, <2>9 DEF SlotParts
<1>8. CASE AppendRefused(k)
  <2>1. UNCHANGED <<total, mode, thrown>> /\ InFlight' = {}
    BY <1>4, <1>8 DEF AppendRefused, history, InFlight
  <2>2. CASE UNCHANGED <<gpuSlot, tier, free>>
    BY <1>4, <2>1, <2>2, SlotsUntouched
  <2>3. ASSUME NEW b \in Unseated(k), Registered(b), NEW s \in free,
               gpuSlot' = [gpuSlot EXCEPT ![b] = s],
               tier' = [tier EXCEPT ![b] = "GPU"],
               free' = free \ {s}
        PROVE  SlotParts'
    <3>1. b \in Blocks /\ b \in Live(total) /\ gpuSlot[b] < 0
      BY <1>2, <1>3, <2>3 DEF Registered
    <3>2. InFlight' = InFlight /\ total' = total /\ thrown' = thrown
      BY <1>4, <2>1
    <3>3. QED
      BY <2>3, <3>1, <3>2, BlockSeated
  <2>4. QED
    BY <1>8, <2>2, <2>3 DEF AppendRefused
<1>9. QED
  BY <1>6, <1>7, <1>8

-----------------------------------------------------------------------------
(* spill_outgoing and admit_incoming.                                       *)

\* stage_out moves the slot of the block, if it has one, to the list.
LEMMA BlockUnseated ==
    ASSUME SlotInv, NEW b \in Blocks, mode = "spill", mode' = "spill",
           total' = total, thrown' = thrown, free' = free,
           frees' = frees \cup ({gpuSlot[b]} \ {NoSlot}),
           gpuSlot' = [gpuSlot EXCEPT ![b] = NoSlot],
           \A x \in Blocks \ {b} : gpuSlot[x] >= 0 => tier'[x] = "GPU"
    PROVE  SlotParts'
<1>1. gpuSlot \in [Blocks -> GpuSlots \cup {NoSlot}]
  BY DEF SlotInv, ControlTypeOK
<1>2. gpuSlot'[b] = NoSlot /\ \A x \in Blocks \ {b} : gpuSlot'[x] = gpuSlot[x]
  BY <1>1
<1>3. InFlight = frees /\ InFlight' = frees'
  BY DEF InFlight
<1>4. Seated' = Seated \ {b}
  BY <1>2, SizesAssumption DEF Seated, Live, NoSlot
<1>5. b \in Seated <=> gpuSlot[b] # NoSlot
  <2>1. gpuSlot[b] # NoSlot => b \in Live(total)
    BY DEF SlotInv, UnregisteredUnseated, Registered
  <2>2. QED
    BY <2>1, SlotOrNone DEF Seated, SlotInv
<1>6. SeatedSlots' = {gpuSlot[x] : x \in Seated \ {b}}
  BY <1>2, <1>4 DEF SeatedSlots, Seated, Live
<1>7. SeatedSlots = SeatedSlots' \cup ({gpuSlot[b]} \ {NoSlot})
  BY <1>5, <1>6, SlotOrNone DEF SeatedSlots, Seated, Live, SlotInv
<1>8. gpuSlot[b] \notin SeatedSlots' \/ gpuSlot[b] = NoSlot
  BY <1>5, <1>6 DEF SlotInv, SlotOwnership
<1>9. SlotOwnership'
  <2>1. \A x, y \in Seated' : gpuSlot'[x] = gpuSlot'[y] => x = y
    BY <1>2, <1>4 DEF Seated, Live, SlotInv, SlotOwnership
  <2>2. free' \cap SeatedSlots' = {}
    BY <1>7 DEF SlotInv, SlotOwnership
  <2>3. InFlight' \cap (free' \cup SeatedSlots') = {}
    BY <1>3, <1>7, <1>8 DEF SlotInv, SlotOwnership
  <2>4. QED
    BY <2>1, <2>2, <2>3 DEF SlotOwnership
<1>10. SlotConservation'
  BY <1>3, <1>7 DEF SlotInv, SlotConservation
<1>11. UnregisteredUnseated' /\ SeatedInGpuTier'
  <2>1. UnregisteredUnseated'
    BY <1>2 DEF SlotInv, UnregisteredUnseated, Registered
  <2>2. SeatedInGpuTier'
    BY <1>2, SizesAssumption DEF SeatedInGpuTier, NoSlot
  <2>3. QED
    BY <2>1, <2>2
<1>12. QED
  BY <1>9, <1>10, <1>11 DEF SlotParts

LEMMA StageOutKeepsSlots ==
    ASSUME SlotInv, NEW b \in Blocks,
           StageOutToCpu(b) \/ StageOutToNvme(b) \/ StageOutDropped(b)
    PROVE  SlotParts'
<1>1. /\ mode = "spill" /\ mode' = "spill" /\ total' = total
      /\ thrown' = thrown /\ free' = free
      /\ frees' = frees \cup ({gpuSlot[b]} \ {NoSlot})
  BY DEF StageOutToCpu, StageOutToNvme, StageOutDropped, Spilling, Unseat
<1>2. CASE StageOutToNvme(b) \/ StageOutDropped(b)
  <2>1. gpuSlot' = [gpuSlot EXCEPT ![b] = NoSlot]
    BY <1>2 DEF StageOutToNvme, StageOutDropped
  <2>2. \A x \in Blocks \ {b} : gpuSlot[x] >= 0 => tier'[x] = "GPU"
    BY <1>2 DEF StageOutToNvme, StageOutDropped, SlotInv, SeatedInGpuTier,
                ControlTypeOK
  <2>3. QED
    BY <1>1, <2>1, <2>2, BlockUnseated
<1>3. CASE StageOutToCpu(b)
  <2>1. \A x \in Blocks : tier[x] = "CPU" => gpuSlot[x] = NoSlot
    BY SlotOrNone DEF SlotInv, SeatedInGpuTier
  <2>2. gpuSlot' = [gpuSlot EXCEPT ![b] = NoSlot]
    <3>1. \A x \in Blocks : gpuSlot'[x] = IF x = b THEN NoSlot ELSE gpuSlot[x]
      BY <1>3, <2>1 DEF StageOutToCpu
    <3>2. gpuSlot' \in [Blocks -> GpuSlots \cup {NoSlot}]
      BY <1>3 DEF StageOutToCpu, SlotInv, ControlTypeOK
    <3>3. QED
      BY <3>1, <3>2 DEF SlotInv, ControlTypeOK
  <2>3. \A x \in Blocks \ {b} : gpuSlot[x] >= 0 => tier'[x] = "GPU"
    BY <1>3 DEF StageOutToCpu, SlotInv, SeatedInGpuTier
  <2>4. QED
    BY <1>1, <2>2, <2>3, BlockUnseated
<1>4. QED
  BY <1>2, <1>3

LEMMA AdmitKeepsSlots ==
    ASSUME SlotInv, AdmitBegin
    PROVE  SlotParts'
<1>1. /\ UNCHANGED <<total, gpuSlot, tier, thrown>> /\ mode = "spill"
      /\ free' = free \cup frees /\ mode' = "admit"
  BY DEF AdmitBegin, store, history
<1>2. InFlight = frees /\ InFlight' = {}
  BY <1>1 DEF InFlight
<1>3. Seated' = Seated /\ SeatedSlots' = SeatedSlots
  BY <1>1 DEF Seated, SeatedSlots
<1>4. SlotOwnership' /\ SlotConservation'
  BY <1>1, <1>2, <1>3 DEF SlotInv, SlotOwnership, SlotConservation
<1>5. UnregisteredUnseated' /\ SeatedInGpuTier'
  BY <1>1 DEF SlotInv, UnregisteredUnseated, SeatedInGpuTier, Registered
<1>6. QED
  BY <1>4, <1>5 DEF SlotParts

LEMMA StageInKeepsSlots ==
    ASSUME SlotInv, NEW b \in Blocks, StageInCold(b)
    PROVE  SlotParts'
<1>1. /\ UNCHANGED <<total, thrown, mode>> /\ InFlight' = InFlight
      /\ tier' = [tier EXCEPT ![b] = "GPU"]
  BY DEF StageInCold, history, InFlight, Admitting
<1>2. b \in Live(total)
  BY DEF StageInCold, Admitting, First, SlotInv, PlanRegistered
<1>3. gpuSlot[b] < 0 /\ gpuSlot[b] = NoSlot
  BY SlotOrNone DEF StageInCold, OnGpu, SlotInv, SeatedInGpuTier
<1>4. PICK s \in Allocatable : /\ free' = free \ {s}
                               /\ gpuSlot' = [gpuSlot EXCEPT ![b] = s]
  BY DEF StageInCold
<1>5. CASE s \in free
  BY <1>1, <1>2, <1>3, <1>4, <1>5, BlockSeated
<1>6. CASE s \notin free
  <2>1. s = NoSlot /\ free = {}
    BY <1>4, <1>6 DEF Allocatable
  <2>2. gpuSlot' = gpuSlot /\ free' = free
    BY <1>3, <1>4, <2>1 DEF SlotInv, ControlTypeOK
  <2>3. Seated' = Seated /\ SeatedSlots' = SeatedSlots
    BY <1>1, <2>2 DEF Seated, SeatedSlots
  <2>4. SlotOwnership' /\ SlotConservation'
    BY <1>1, <2>2, <2>3 DEF SlotInv, SlotOwnership, SlotConservation
  <2>5. UnregisteredUnseated' /\ SeatedInGpuTier'
    BY <1>1, <2>2
    DEF SlotInv, UnregisteredUnseated, SeatedInGpuTier, Registered, ControlTypeOK
  <2>6. QED
    BY <2>4, <2>5 DEF SlotParts
<1>7. QED
  BY <1>5, <1>6

-----------------------------------------------------------------------------
(* Every step.                                                              *)

LEMMA RelayoutKeepsSlots ==
    ASSUME SlotInv, FinishSelection
    PROVE  SlotParts'
<1>1. UNCHANGED <<total, thrown>> /\ InFlight = {} /\ InFlight' = {}
  BY DEF FinishSelection, history, InFlight
<1>2. CASE RewriteStagedIn
  BY <1>1, <1>2, SlotsUntouched DEF RewriteStagedIn
<1>3. CASE Relayout
  <2>1. PICK seat \in [Seated -> GpuSlots] :
          /\ Packed(seat)
          /\ gpuSlot' = [b \in Blocks |-> IF b \in Seated THEN seat[b] ELSE gpuSlot[b]]
          /\ tier' = [b \in Blocks |-> IF b \in Seated THEN "GPU" ELSE tier[b]]
          /\ free' = GpuSlots \ {seat[b] : b \in Seated}
    BY <1>3 DEF Relayout
  <2>2. Seated \subseteq Live(total) /\ Live(total) \subseteq Blocks
    BY DEF Seated, Live
  <2>3. /\ \A b \in Seated : gpuSlot'[b] = seat[b] /\ seat[b] \in GpuSlots
        /\ \A b \in Blocks \ Seated : gpuSlot'[b] = gpuSlot[b]
        /\ \A b \in Blocks \ Seated : tier'[b] = tier[b]
        /\ \A b \in Seated : tier'[b] = "GPU"
    BY <2>1, <2>2
  <2>4. Seated' = Seated
    BY <1>1, <2>2, <2>3, SlotIsInt DEF Seated
  <2>5. SeatedSlots' = {seat[b] : b \in Seated}
    BY <2>3, <2>4 DEF SeatedSlots
  <2>6. \A b, c \in Seated : seat[b] = seat[c] => b = c
    <3>1. Blocks \subseteq Int
      BY DEF Blocks
    <3>2. \A b, c \in Seated : b < c => seat[b] < seat[c]
      BY <2>1 DEF Packed
    <3>3. \A b, c \in Seated : b \in Int /\ c \in Int /\ seat[b] \in Int
      BY <2>2, <2>3, <3>1, SlotIsInt
    <3>4. QED
      BY <3>2, <3>3
  <2>7. SlotOwnership'
    BY <1>1, <2>1, <2>3, <2>4, <2>5, <2>6 DEF SlotOwnership
  <2>8. SlotConservation'
    BY <1>1, <2>1, <2>5 DEF SlotConservation
  <2>9. UnregisteredUnseated' /\ SeatedInGpuTier'
    BY <1>1, <2>2, <2>3
    DEF SlotInv, UnregisteredUnseated, SeatedInGpuTier, Registered
  <2>10. QED
    BY <2>7, <2>8, <2>9 DEF SlotParts
<1>4. QED
  BY <1>2, <1>3 DEF FinishSelection

LEMMA ClearKeepsSlots ==
    ASSUME SlotInv, Clear
    PROVE  SlotParts'
<1>1. /\ TruncateRecords(0) /\ 0 \in 0 .. MaxBlocks * BT
      /\ free' = GpuSlots /\ InFlight' = {}
  BY BoundIsNat DEF Clear, InFlight
<1>2. Dropped(0) = Live(total)
  BY SizesAssumption DEF Dropped, Live, Blocks
<1>3. Seated' = {} /\ UnregisteredUnseated' /\ SeatedInGpuTier'
  BY <1>1, <1>2, SlotsOfDropped DEF Seated
<1>4. SeatedSlots' = {}
  BY <1>3 DEF SeatedSlots
<1>5. SlotOwnership' /\ SlotConservation'
  BY <1>1, <1>3, <1>4 DEF SlotOwnership, SlotConservation
<1>6. QED
  BY <1>3, <1>5 DEF SlotParts

LEMMA NextSlots == SlotInv /\ [Next]_vars => SlotParts'
<1> SUFFICES ASSUME SlotInv, [Next]_vars PROVE SlotParts'
  OBVIOUS
<1> USE DEF store, pool, gpu, tiers, history, Throw
<1>1. ASSUME NEW k \in 1 .. MaxAppend,
             AppendUnderPressure(k) \/ AppendDirect(k) \/ AppendRefused(k)
      PROVE  SlotParts'
  BY <1>1, AppendKeepsSlots
<1>2. ASSUME NEW S, PrepareSelection(S)
      PROVE  SlotParts'
  BY <1>2, SlotsUntouched DEF PrepareSelection, SetSelection, InFlight
<1>3. ASSUME NEW p \in 0 .. MaxBlocks * BT, TruncateCached(p)
      PROVE  SlotParts'
  <2>1. InFlight = {} /\ InFlight' = {} /\ thrown' = thrown
    BY <1>3 DEF TruncateCached, InFlight
  <2>2. QED
    BY <1>3, <2>1, SlotsTruncated DEF TruncateCached
<1>4. CASE Clear
  BY <1>4, ClearKeepsSlots
<1>5. CASE BeginCachedTurn \/ KeepSelected \/ CommitResident
  BY <1>5, SlotsUntouched
  DEF BeginCachedTurn, KeepSelected, CommitResident, InFlight
<1>6. ASSUME NEW b \in Blocks, PrefetchRead(b) \/ PrefetchThrows(b)
      PROVE  SlotParts'
  BY <1>6, SlotsUntouched DEF PrefetchRead, PrefetchThrows, InFlight
<1>7. CASE SpillBegin \/ SpillThrows
  BY <1>7, SlotsUntouched DEF SpillBegin, SpillThrows, InFlight
<1>8. ASSUME NEW b \in Blocks,
             StageOutToCpu(b) \/ StageOutToNvme(b) \/ StageOutDropped(b)
      PROVE  SlotParts'
  BY <1>8, StageOutKeepsSlots
<1>9. ASSUME NEW b \in Blocks, VictimSpillThrows(b) \/ BlockSpillThrows(b)
      PROVE  SlotParts'
  BY <1>9, SlotsUntouched
  DEF VictimSpillThrows, BlockSpillThrows, Spilling, InFlight
<1>10. CASE AdmitBegin
  BY <1>10, AdmitKeepsSlots
<1>11. ASSUME NEW b \in Blocks, StageInResident(b)
       PROVE  SlotParts'
  BY <1>11, SlotsUntouched DEF StageInResident, Admitting, InFlight
<1>12. ASSUME NEW b \in Blocks, StageInCold(b)
       PROVE  SlotParts'
  BY <1>12, StageInKeepsSlots
<1>13. ASSUME NEW b \in Blocks, StageInThrows(b)
       PROVE  SlotParts'
  BY <1>13, SlotsUntouched DEF StageInThrows, Admitting, InFlight
<1>14. CASE FinishAppend \/ Compute \/ UnwindSelect
  BY <1>14, SlotsUntouched
  DEF FinishAppend, Compute, UnwindSelect, InFlight
<1>15. CASE FinishSelection
  BY <1>15, RelayoutKeepsSlots
<1>16. CASE UnwindAppend
  <2>1. plan.t0 \in 0 .. MaxBlocks * BT
    BY DEF SlotInv, ControlTypeOK
  <2>2. InFlight = {} /\ InFlight' = {} /\ thrown' = thrown
    BY <1>16 DEF UnwindAppend, InFlight
  <2>3. QED
    BY <1>16, <2>1, <2>2, SlotsTruncated DEF UnwindAppend
<1>17. CASE UNCHANGED vars
  BY <1>17, SlotsUntouched DEF vars, InFlight
<1>18. QED
  BY <1>1, <1>2, <1>3, <1>4, <1>5, <1>6, <1>7, <1>8, <1>9, <1>10, <1>11,
     <1>12, <1>13, <1>14, <1>15, <1>16, <1>17 DEF Next, Request, Progress

\* A plan is made of registered blocks, and nothing is truncated while it runs.
LEMMA NextPlan == SlotInv /\ [Next]_vars => PlanRegistered'
<1> SUFFICES ASSUME SlotInv, [Next]_vars PROVE PlanRegistered'
  OBVIOUS
<1> USE DEF store, pool, gpu, tiers, history, Throw
<1>1. ASSUME NEW k \in 1 .. MaxAppend, AppendUnderPressure(k)
      PROVE  PlanRegistered'
  <2>1. /\ total' = total + k /\ mode' = "fetch"
        /\ plan'.in = PlanIn(PressureBlocks(total + k))
    BY <1>1 DEF AppendUnderPressure, SetSelection
  <2>2. PlanIn(PressureBlocks(total + k)) \subseteq Live(total + k)
    BY PressureRegistered DEF PlanIn
  <2>3. QED
    BY <2>1, <2>2 DEF PlanRegistered
<1>2. ASSUME NEW S, PrepareSelection(S)
      PROVE  PlanRegistered'
  <2>1. /\ total' = total /\ mode' = "fetch" /\ plan'.in = PlanIn(S)
        /\ S \subseteq Live(total)
    BY <1>2 DEF PrepareSelection, SetSelection, IsTopK
  <2>2. QED
    BY <2>1 DEF PlanRegistered, PlanIn
<1>3. CASE mode' \notin {"fetch", "spill", "admit"}
  BY <1>3 DEF PlanRegistered
<1>4. ASSUME UNCHANGED <<total, plan>>, mode' = mode, todo' \subseteq todo
      PROVE  PlanRegistered'
  BY <1>4 DEF SlotInv, PlanRegistered
<1>5. ASSUME NEW b \in Blocks, PrefetchRead(b) \/ PrefetchThrows(b)
      PROVE  PlanRegistered'
  BY <1>4, <1>5 DEF PrefetchRead, PrefetchThrows
<1>6. CASE SpillBegin
  BY <1>6 DEF SpillBegin, SlotInv, PlanRegistered
<1>7. ASSUME NEW b \in Blocks,
             StageOutToCpu(b) \/ StageOutToNvme(b) \/ StageOutDropped(b)
      PROVE  PlanRegistered'
  <2>1. UNCHANGED <<total, plan>> /\ mode' = mode /\ todo' \subseteq todo
    BY <1>7 DEF StageOutToCpu, StageOutToNvme, StageOutDropped, Unseat
  <2>2. QED
    BY <1>4, <2>1
<1>8. CASE AdmitBegin
  BY <1>8 DEF AdmitBegin, SlotInv, PlanRegistered
<1>9. ASSUME NEW b \in Blocks, StageInResident(b) \/ StageInCold(b)
      PROVE  PlanRegistered'
  <2>1. UNCHANGED <<total, plan>> /\ mode' = mode /\ todo' \subseteq todo
    BY <1>9 DEF StageInResident, StageInCold
  <2>2. QED
    BY <1>4, <2>1
<1>10. CASE UNCHANGED vars
  BY <1>4, <1>10 DEF vars
<1>11. ASSUME NEW k, AppendDirect(k) \/ AppendRefused(k)
       PROVE  mode' \notin {"fetch", "spill", "admit"}
  BY <1>11 DEF AppendDirect, AppendRefused, MayAppend
<1>12. ASSUME NEW p, TruncateCached(p)
       PROVE  mode' \notin {"fetch", "spill", "admit"}
  BY <1>12 DEF TruncateCached
<1>13. ASSUME NEW b, VictimSpillThrows(b) \/ BlockSpillThrows(b) \/ StageInThrows(b)
       PROVE  mode' \notin {"fetch", "spill", "admit"}
  BY <1>13 DEF VictimSpillThrows, BlockSpillThrows, StageInThrows
<1>14. CASE Clear \/ BeginCachedTurn \/ KeepSelected \/ CommitResident
            \/ SpillThrows \/ FinishAppend \/ FinishSelection \/ Compute
            \/ UnwindAppend \/ UnwindSelect
  BY <1>3, <1>14
  DEF Clear, BeginCachedTurn, KeepSelected, CommitResident, SpillThrows,
      FinishAppend, FinishSelection, Compute, UnwindAppend, UnwindSelect
<1>15. QED
  BY <1>1, <1>2, <1>3, <1>5, <1>6, <1>7, <1>8, <1>9, <1>10, <1>11, <1>12,
     <1>13, <1>14 DEF Next, Request, Progress

\* The inductive invariant.
THEOREM SlotInvariant == Spec => []SlotInv
<1>1. SlotInv /\ [Next]_vars => SlotInv'
  BY NextType, NextSlots, NextPlan DEF SlotInv, SlotParts
<1>2. QED
  BY <1>1, InitSlots, PTL DEF Spec

\* No GPU slot has two owners: a block, the pool, or the list of slots that are
\* about to return to the pool, through any sequence of evictions, admissions,
\* re-layouts, truncations and exceptions.
THEOREM SlotsHaveOneOwner == Spec => []SlotOwnership
<1>1. SlotInv => SlotOwnership
  BY DEF SlotInv
<1>2. QED
  BY <1>1, SlotInvariant, PTL

\* No GPU slot is lost, until an exception unwinds a half-executed plan.
THEOREM SlotsConserved == Spec => []SlotConservation
<1>1. SlotInv => SlotConservation
  BY DEF SlotInv
<1>2. QED
  BY <1>1, SlotInvariant, PTL

-----------------------------------------------------------------------------
(* What attention reads, how a plan fits the pool, and where the working   *)
(* set is.                                                                  *)

Planning == mode \in {"fetch", "spill", "admit"}

-----------------------------------------------------------------------------
(* The strengthening for the cells.                                         *)

\* Blocks whose slot was taken and whose cells are still to be dropped.
Evicted == IF mode = "spill" THEN plan.out \ todo ELSE {}

CellsType ==
    /\ ver \in [Blocks -> Nat]
    /\ cells \in [GpuSlots -> Blocks \cup {NoBlock}]
    /\ mode = "spill" => todo \subseteq plan.out

\* At any time cells that hold a block, unless it was just evicted, are in
\* that block's slot and are current.
CellsCurrent ==
    \A s \in GpuSlots : cells[s] # NoBlock /\ cells[s] \notin Evicted =>
        gpuSlot[cells[s]] = s /\ gpuMem[s] = <<cells[s], ver[cells[s]]>>

\* The blocks a batch registers are in no cells before it is computed: it can
\* still be unregistered.
NewUnwritten ==
    plan.kind = "append" /\ mode \in {"fetch", "spill", "admit", "compute", "unwind"} =>
      \A s \in GpuSlots : cells[s] \notin Dropped(plan.t0)

\* A batch is computed once all its blocks have slots.
BatchSeated ==
    mode = "compute" =>
      /\ plan.kind = "append"
      /\ \A b \in Incoming(plan.t0, total) : gpuSlot[b] >= 0

AttentionInv ==
    /\ SlotInv /\ CellsType /\ BatchSeated
    /\ ~thrown => CellsCurrent /\ NewUnwritten

-----------------------------------------------------------------------------
(* The strengthening for the working set.                                   *)

\* Only registered blocks are marked.
UnregisteredUnmarked == \A b \in Blocks : inWs[b] => Registered(b)

WsBlocks == {b \in Blocks : inWs[b]}

\* Whether or not a plan is running, a marked block is on the GPU and stays
\* there, or the plan has still to stage it in.
MarkedSeated ==
    \A b \in WsBlocks :
      \/ OnGpu(b) /\ (mode \in {"fetch", "spill"} => b \notin plan.out)
      \/ mode \in {"fetch", "spill"} /\ b \in plan.in
      \/ mode = "admit" /\ b \in todo

\* A plan marks no more blocks than the budget, stages in marked blocks, and
\* leaves no other block on the GPU.
PlanFits ==
    Planning =>
      /\ Cardinality(WsBlocks) <= Budget
      /\ plan.in \subseteq WsBlocks
      /\ mode = "admit" => todo \subseteq WsBlocks
      /\ \A b \in Seated : \/ b \in WsBlocks
                           \/ mode = "fetch" /\ b \in plan.out
                           \/ mode = "spill" /\ b \in todo

WorkingSetInv ==
    /\ SlotInv /\ CellsType /\ UnregisteredUnmarked
    /\ ~thrown => MarkedSeated /\ PlanFits

-----------------------------------------------------------------------------
(* Facts about single steps.                                                *)

\* stage_out takes the slot of one block: the arena's victim, which is demoted
\* with it, has none.
LEMMA StageOutSlots ==
    ASSUME SlotInv, NEW b \in Blocks,
           StageOutToCpu(b) \/ StageOutToNvme(b) \/ StageOutDropped(b)
    PROVE  /\ gpuSlot' = [gpuSlot EXCEPT ![b] = NoSlot]
           /\ todo' = todo \ {b} /\ b \in todo
           /\ UNCHANGED <<total, ver, inWs, free, gpuMem, cells, plan, mode,
                          thrown>>
           /\ mode = "spill"
           /\ \A x \in Blocks \ {b} : tier[x] = "GPU" => tier'[x] = "GPU"
<1>1. /\ todo' = todo \ {b} /\ b \in todo /\ mode = "spill"
      /\ UNCHANGED <<total, ver, inWs, free, gpuMem, cells, plan, mode, thrown>>
  BY DEF StageOutToCpu, StageOutToNvme, StageOutDropped, Unseat, Spilling,
         First, gpu
<1>2. CASE StageOutToNvme(b) \/ StageOutDropped(b)
  BY <1>1, <1>2 DEF StageOutToNvme, StageOutDropped, SlotInv, ControlTypeOK
<1>3. CASE StageOutToCpu(b)
  <2>1. \A x \in Blocks : tier[x] = "CPU" => gpuSlot[x] = NoSlot
    BY SlotOrNone DEF SlotInv, SeatedInGpuTier
  <2>2. \A x \in Blocks : gpuSlot'[x] = IF x = b THEN NoSlot ELSE gpuSlot[x]
    BY <1>3, <2>1 DEF StageOutToCpu
  <2>3. gpuSlot' \in [Blocks -> GpuSlots \cup {NoSlot}]
    BY <1>3 DEF StageOutToCpu, SlotInv, ControlTypeOK
  <2>4. gpuSlot' = [gpuSlot EXCEPT ![b] = NoSlot]
    BY <2>2, <2>3 DEF SlotInv, ControlTypeOK
  <2>5. \A x \in Blocks \ {b} : tier[x] = "GPU" => tier'[x] = "GPU"
    BY <1>3 DEF StageOutToCpu
  <2>6. QED
    BY <1>1, <2>4, <2>5
<1>4. QED
  BY <1>2, <1>3

\* stage_in of a block without a slot.
LEMMA StageInSlots ==
    ASSUME SlotInv, NEW b \in Blocks, StageInCold(b)
    PROVE  /\ b \in todo /\ b \in Live(total) /\ gpuSlot[b] = NoSlot
           /\ mode = "admit"
           /\ todo' = todo \ {b} /\ tier' = [tier EXCEPT ![b] = "GPU"]
           /\ UNCHANGED <<total, ver, inWs, cells, plan, mode, thrown>>
           /\ \E s \in Allocatable :
                /\ free' = free \ {s}
                /\ gpuSlot' = [gpuSlot EXCEPT ![b] = s]
                /\ \A x \in GpuSlots \ {s} : gpuMem'[x] = gpuMem[x]
<1>1. b \in todo /\ mode = "admit"
  BY DEF StageInCold, Admitting, First
<1>2. b \in Live(total)
  BY <1>1 DEF SlotInv, PlanRegistered
<1>3. gpuSlot[b] = NoSlot
  BY SlotOrNone DEF StageInCold, OnGpu, SlotInv, SeatedInGpuTier
<1>4. QED
  BY <1>1, <1>2, <1>3 DEF StageInCold, history

\* A slot that holds a seated block is that block's.
LEMMA SeatedHere ==
    ASSUME SlotInv, NEW b \in Blocks, NEW s \in GpuSlots, gpuSlot[b] = s
    PROVE  /\ b \in Seated /\ b \in Live(total) /\ s \in SeatedSlots
           /\ s \notin free
           /\ \A c \in Blocks : gpuSlot[c] = s => c = b
<1>1. \A c \in Blocks : gpuSlot[c] = s => c \in Seated /\ c \in Live(total)
  BY SlotIsInt DEF SlotInv, UnregisteredUnseated, Registered, Seated
<1>2. b \in Seated /\ b \in Live(total) /\ s \in SeatedSlots
  BY <1>1 DEF SeatedSlots
<1>3. QED
  BY <1>1, <1>2 DEF SlotInv, SlotOwnership

-----------------------------------------------------------------------------
(* What attention reads.                                                    *)

LEMMA InitAttention == Init => AttentionInv
<1> SUFFICES ASSUME Init PROVE AttentionInv
  OBVIOUS
<1>1. CellsType
  BY DEF Init, CellsType
<1>2. BatchSeated /\ NewUnwritten
  BY DEF Init, BatchSeated, NewUnwritten
<1>3. CellsCurrent
  BY DEF Init, CellsCurrent
<1>4. QED
  BY <1>1, <1>2, <1>3, InitSlots DEF AttentionInv

LEMMA NextCellsType == SlotInv /\ CellsType /\ [Next]_vars => CellsType'
<1> SUFFICES ASSUME SlotInv, CellsType, [Next]_vars PROVE CellsType'
  OBVIOUS
<1> USE DEF CellsType
<1>a. ASSUME UNCHANGED <<ver, cells>>, mode' # "spill" PROVE CellsType'
  BY <1>a
<1>1. ASSUME NEW k, AppendUnderPressure(k) \/ AppendDirect(k) \/ AppendRefused(k)
      PROVE  CellsType'
  BY <1>1, <1>a
  DEF AppendUnderPressure, SetSelection, AppendDirect, AppendRefused, gpu,
      MayAppend
<1>2. ASSUME NEW S, PrepareSelection(S) PROVE CellsType'
  BY <1>2, <1>a DEF PrepareSelection, SetSelection, gpu
<1>3. ASSUME NEW p, TruncateCached(p) PROVE CellsType'
  BY <1>3 DEF TruncateCached
<1>4. CASE Clear
  BY <1>4 DEF Clear
<1>5. CASE BeginCachedTurn \/ KeepSelected \/ CommitResident
  BY <1>5, <1>a DEF BeginCachedTurn, KeepSelected, CommitResident, gpu
<1>6. ASSUME NEW b \in Blocks, PrefetchRead(b) \/ PrefetchThrows(b)
      PROVE  CellsType'
  BY <1>6, <1>a DEF PrefetchRead, PrefetchThrows, gpu
<1>7. CASE SpillBegin
  BY <1>7 DEF SpillBegin, gpu
<1>8. CASE SpillThrows
  BY <1>8, <1>a DEF SpillThrows, gpu, Throw
<1>9. ASSUME NEW b \in Blocks,
             StageOutToCpu(b) \/ StageOutToNvme(b) \/ StageOutDropped(b)
      PROVE  CellsType'
  BY <1>9, StageOutSlots
<1>10. ASSUME NEW b \in Blocks, VictimSpillThrows(b) \/ BlockSpillThrows(b)
       PROVE  CellsType'
  BY <1>10, <1>a DEF VictimSpillThrows, BlockSpillThrows, gpu, Throw
<1>11. CASE AdmitBegin
  BY <1>11 DEF AdmitBegin
<1>12. ASSUME NEW b \in Blocks,
              StageInResident(b) \/ StageInCold(b) \/ StageInThrows(b)
       PROVE  CellsType'
  BY <1>12, <1>a
  DEF StageInResident, StageInCold, StageInThrows, Admitting, gpu, Throw
<1>13. CASE FinishAppend \/ UnwindAppend \/ UnwindSelect
  BY <1>13, <1>a DEF FinishAppend, UnwindAppend, UnwindSelect, gpu
<1>14. CASE FinishSelection
  <2>1. cells' \in [GpuSlots -> Blocks \cup {NoBlock}]
    <3>1. CASE RewriteStagedIn
      <4>1. plan.in \subseteq Blocks
        BY DEF SlotInv, ControlTypeOK
      <4>2. QED
        BY <3>1, <4>1 DEF RewriteStagedIn
    <3>2. CASE Relayout
      <4>1. Seated \subseteq Blocks
        BY DEF Seated, Live
      <4>2. QED
        BY <3>2, <4>1 DEF Relayout
    <3>3. QED
      BY <1>14, <3>1, <3>2 DEF FinishSelection
  <2>2. QED
    BY <1>14, <2>1 DEF FinishSelection
<1>15. CASE Compute
  <2>1. cells' \in [GpuSlots -> Blocks \cup {NoBlock}]
    <3>1. Incoming(plan.t0, total) \subseteq Blocks
      BY DEF Incoming, Live
    <3>2. QED
      BY <1>15, <3>1 DEF Compute
  <2>2. ver' \in [Blocks -> Nat] /\ mode' = "idle"
    BY <1>15 DEF Compute
  <2>3. QED
    BY <2>1, <2>2
<1>16. CASE UNCHANGED vars
  BY <1>16 DEF vars, gpu
<1>17. QED
  BY <1>1, <1>2, <1>3, <1>4, <1>5, <1>6, <1>7, <1>8, <1>9, <1>10, <1>11,
     <1>12, <1>13, <1>14, <1>15, <1>16 DEF Next, Request, Progress

\* A batch is computed with every block seated: the check at the end of
\* prepare_working_set.
LEMMA NextBatchSeated == SlotInv /\ BatchSeated /\ [Next]_vars => BatchSeated'
<1> SUFFICES ASSUME SlotInv, BatchSeated, [Next]_vars, mode' = "compute"
             PROVE  /\ plan'.kind = "append"
                    /\ \A b \in Incoming(plan'.t0, total') : gpuSlot'[b] >= 0
  BY DEF BatchSeated, Incoming, Live, EndPos
<1>1. ASSUME NEW k \in 1 .. MaxAppend, AppendDirect(k)
      PROVE  /\ plan'.kind = "append"
             /\ \A b \in Incoming(plan'.t0, total') : gpuSlot'[b] >= 0
  <2>1. plan'.kind = "append" /\ plan'.t0 = total /\ total' = total + k
    BY <1>1 DEF AppendDirect, NoPlan
  <2>2. ASSUME NEW b \in Incoming(total, total + k) PROVE gpuSlot'[b] >= 0
    <3>1. b \in Blocks
      BY DEF Incoming, Live
    <3>2. CASE b \in Unseated(k)
      <4>1. gpuSlot'[b] \in free
        BY <1>1, <3>1, <3>2 DEF AppendDirect
      <4>2. QED
        BY <4>1, SlotIsInt DEF SlotInv, ControlTypeOK
    <3>3. CASE b \notin Unseated(k)
      <4>1. gpuSlot'[b] = gpuSlot[b]
        BY <1>1, <3>1, <3>3 DEF AppendDirect
      <4>2. QED
        BY <3>1, <3>3, <4>1, SlotOrNone DEF Unseated, SlotInv
    <3>4. QED
      BY <3>2, <3>3
  <2>3. QED
    BY <2>1, <2>2
<1>2. CASE FinishAppend
  BY <1>2 DEF FinishAppend, store
<1>3. CASE UNCHANGED vars
  BY <1>3 DEF vars, store, BatchSeated
<1>4. ASSUME NEW k, AppendUnderPressure(k) \/ AppendRefused(k) PROVE FALSE
  BY <1>4 DEF AppendUnderPressure, SetSelection, AppendRefused, MayAppend
<1>5. ASSUME NEW S, PrepareSelection(S) PROVE FALSE
  BY <1>5 DEF PrepareSelection, SetSelection
<1>6. ASSUME NEW p, TruncateCached(p) PROVE FALSE
  BY <1>6 DEF TruncateCached
<1>7. CASE Clear \/ BeginCachedTurn \/ KeepSelected \/ CommitResident
  BY <1>7 DEF Clear, BeginCachedTurn, KeepSelected, CommitResident
<1>8. ASSUME NEW b, PrefetchRead(b) \/ PrefetchThrows(b) PROVE FALSE
  BY <1>8 DEF PrefetchRead, PrefetchThrows
<1>9. CASE SpillBegin \/ SpillThrows \/ AdmitBegin
  BY <1>9 DEF SpillBegin, SpillThrows, AdmitBegin, Throw
<1>10. ASSUME NEW b \in Blocks,
              StageOutToCpu(b) \/ StageOutToNvme(b) \/ StageOutDropped(b)
       PROVE  FALSE
  BY <1>10, StageOutSlots
<1>11. ASSUME NEW b, VictimSpillThrows(b) \/ BlockSpillThrows(b) PROVE FALSE
  BY <1>11 DEF VictimSpillThrows, BlockSpillThrows, Throw
<1>12. ASSUME NEW b, StageInResident(b) \/ StageInCold(b) \/ StageInThrows(b)
       PROVE  FALSE
  BY <1>12 DEF StageInResident, StageInCold, StageInThrows, Admitting, Throw
<1>13. CASE FinishSelection \/ Compute \/ UnwindAppend \/ UnwindSelect
  BY <1>13 DEF FinishSelection, Compute, UnwindAppend, UnwindSelect
<1>14. QED
  BY <1>1, <1>2, <1>3, <1>4, <1>5, <1>6, <1>7, <1>8, <1>9, <1>10, <1>11,
     <1>12, <1>13 DEF Next, Request, Progress

\* A step that leaves the cells and their bytes alone, and takes no slot from
\* a block but from those it evicts.
LEMMA CellsUntouched ==
    ASSUME CellsType, CellsCurrent, UNCHANGED <<ver, cells, gpuMem>>,
           Evicted \subseteq Evicted',
           \A b \in Blocks : b \notin Evicted' /\ gpuSlot[b] # NoSlot =>
                               gpuSlot'[b] = gpuSlot[b]
    PROVE  CellsCurrent'
<1> SUFFICES ASSUME NEW s \in GpuSlots, cells[s] # NoBlock, cells[s] \notin Evicted'
             PROVE  /\ gpuSlot'[cells[s]] = s
                    /\ gpuMem[s] = <<cells[s], ver[cells[s]]>>
  BY DEF CellsCurrent
<1>1. cells[s] \in Blocks
  BY DEF CellsType
<1>2. gpuSlot[cells[s]] = s /\ gpuMem[s] = <<cells[s], ver[cells[s]]>>
  BY DEF CellsCurrent
<1>3. s # NoSlot
  BY SlotIsInt
<1>4. QED
  BY <1>1, <1>2, <1>3

LEMMA StageInKeepsCells ==
    ASSUME SlotInv, CellsType, CellsCurrent, NEW b \in Blocks, StageInCold(b)
    PROVE  CellsCurrent'
<1>1. PICK s \in Allocatable :
        /\ gpuSlot' = [gpuSlot EXCEPT ![b] = s]
        /\ \A x \in GpuSlots \ {s} : gpuMem'[x] = gpuMem[x]
  BY StageInSlots
<1>2. /\ gpuSlot[b] = NoSlot /\ UNCHANGED <<ver, cells>>
      /\ mode = "admit" /\ mode' = "admit"
  BY StageInSlots
<1>3. Evicted = {} /\ Evicted' = {}
  BY <1>2 DEF Evicted
<1>4. ASSUME NEW x \in GpuSlots, cells[x] # NoBlock
      PROVE  /\ gpuSlot'[cells[x]] = x
             /\ gpuMem'[x] = <<cells[x], ver[cells[x]]>>
  <2>1. /\ cells[x] \in Blocks /\ gpuSlot[cells[x]] = x
        /\ gpuMem[x] = <<cells[x], ver[cells[x]]>>
    BY <1>3, <1>4 DEF CellsType, CellsCurrent
  <2>2. x \notin free /\ x # NoSlot
    BY <2>1, SeatedHere, SlotIsInt
  <2>3. x # s
    BY <2>2 DEF Allocatable
  <2>4. cells[x] # b
    BY <1>2, <2>1, <2>2
  <2>5. gpuSlot'[cells[x]] = gpuSlot[cells[x]]
    BY <1>1, <2>1, <2>4 DEF SlotInv, ControlTypeOK
  <2>6. QED
    BY <1>1, <2>1, <2>3, <2>5
<1>5. QED
  BY <1>2, <1>3, <1>4 DEF CellsCurrent

\* The batch writes the rows of its blocks, each in the block's own slot; a
\* block that had earlier rows had them there.
LEMMA ComputeKeepsCells ==
    ASSUME SlotInv, CellsType, CellsCurrent, BatchSeated, Compute
    PROVE  CellsCurrent'
<1> DEFINE inc == Incoming(plan.t0, total)
           at(s) == {b \in inc : gpuSlot[b] = s}
           rows(b) == IF b * BT >= plan.t0 \/ gpuMem[gpuSlot[b]] = <<b, ver[b]>>
                      THEN <<b, ver[b] + 1>> ELSE Junk
<1>1. /\ mode = "compute" /\ mode' = "idle" /\ gpuSlot' = gpuSlot
      /\ ver' = [b \in Blocks |-> IF b \in inc THEN ver[b] + 1 ELSE ver[b]]
      /\ gpuMem' = [s \in GpuSlots |->
                      IF at(s) # {} THEN rows(CHOOSE b \in at(s) : TRUE)
                                    ELSE gpuMem[s]]
      /\ cells' = [s \in GpuSlots |->
                     IF \E b \in at(s) : b * BT >= plan.t0
                     THEN CHOOSE b \in at(s) : TRUE ELSE cells[s]]
  BY DEF Compute, store
<1>2. Evicted = {} /\ Evicted' = {}
  BY <1>1 DEF Evicted
<1>3. inc \subseteq Blocks
  BY DEF Incoming, Live
<1> HIDE DEF inc
<1> SUFFICES ASSUME NEW s \in GpuSlots, cells'[s] # NoBlock
             PROVE  /\ gpuSlot[cells'[s]] = s
                    /\ gpuMem'[s] = <<cells'[s], ver'[cells'[s]]>>
  BY <1>1 DEF CellsCurrent
<1>4. cells[s] # NoBlock => /\ cells[s] \in Blocks /\ gpuSlot[cells[s]] = s
                            /\ gpuMem[s] = <<cells[s], ver[cells[s]]>>
  BY <1>2 DEF CellsType, CellsCurrent
<1>5. CASE at(s) = {}
  <2>1. cells'[s] = cells[s] /\ gpuMem'[s] = gpuMem[s]
    BY <1>1, <1>5
  <2>2. cells[s] \in Blocks /\ gpuSlot[cells[s]] = s /\ cells[s] \notin inc
    BY <1>4, <1>5, <2>1
  <2>3. ver'[cells[s]] = ver[cells[s]]
    BY <1>1, <2>2
  <2>4. QED
    BY <1>4, <2>1, <2>2, <2>3
<1>6. ASSUME NEW b \in at(s)
      PROVE  /\ gpuSlot[cells'[s]] = s
             /\ gpuMem'[s] = <<cells'[s], ver'[cells'[s]]>>
  <2>1. b \in inc /\ b \in Blocks /\ gpuSlot[b] = s
    BY <1>3, <1>6
  <2>2. \A c \in at(s) : c = b
    BY <1>3, <2>1, SeatedHere
  <2>3. (CHOOSE c \in at(s) : TRUE) = b
    BY <1>6, <2>2
  <2>4. gpuMem'[s] = rows(b)
    <3>1. gpuMem'[s] = rows(CHOOSE c \in at(s) : TRUE)
      BY <1>1, <1>6
    <3> HIDE DEF rows
    <3>2. QED
      BY <2>3, <3>1
  <2>5. ver'[b] = ver[b] + 1
    BY <1>1, <2>1
  <2>6. CASE b * BT >= plan.t0
    <3>1. cells'[s] = b
      BY <1>1, <1>6, <2>3, <2>6
    <3>2. QED
      BY <2>1, <2>4, <2>5, <2>6, <3>1
  <2>7. CASE ~(b * BT >= plan.t0)
    <3>1. cells'[s] = cells[s]
      BY <1>1, <2>2, <2>7
    <3>2. cells[s] = b
      BY <1>4, <2>1, <3>1, SeatedHere
    <3>3. gpuMem[gpuSlot[b]] = <<b, ver[b]>>
      BY <1>4, <2>1, <3>1, <3>2
    <3>4. QED
      BY <2>1, <2>4, <2>5, <3>1, <3>2, <3>3
  <2>8. QED
    BY <2>6, <2>7
<1>7. QED
  BY <1>5, <1>6

\* layout_gpu_slots_by_orig_pos moves the bytes of the blocks whose cells are
\* current and rewrites the others from the raw rows.
LEMMA RelayoutKeepsCells ==
    ASSUME SlotInv, CellsType, CellsCurrent, FinishSelection, Relayout
    PROVE  CellsCurrent'
<1>1. mode = "admit" /\ mode' = "idle" /\ ver' = ver
  BY DEF FinishSelection
<1>2. Evicted = {} /\ Evicted' = {}
  BY <1>1 DEF Evicted
<1>3. Seated \subseteq Blocks
  BY DEF Seated, Live
<1>4. PICK seat \in [Seated -> GpuSlots] :
        /\ Packed(seat)
        /\ gpuSlot' = [b \in Blocks |-> IF b \in Seated THEN seat[b] ELSE gpuSlot[b]]
        /\ gpuMem' = [s \in GpuSlots |->
             IF {b \in Seated : seat[b] = s} # {}
             THEN IF CellsHold(CHOOSE b \in {b \in Seated : seat[b] = s} : TRUE)
                  THEN gpuMem[gpuSlot[CHOOSE b \in {b \in Seated : seat[b] = s} : TRUE]]
                  ELSE FromRaw(CHOOSE b \in {b \in Seated : seat[b] = s} : TRUE)
             ELSE gpuMem[s]]
        /\ cells' = [s \in GpuSlots |->
             IF {b \in Seated : seat[b] = s} # {}
             THEN CHOOSE b \in {b \in Seated : seat[b] = s} : TRUE
             ELSE IF cells[s] \in Seated THEN NoBlock ELSE cells[s]]
  BY DEF Relayout
<1> SUFFICES ASSUME NEW s \in GpuSlots, cells'[s] # NoBlock
             PROVE  /\ gpuSlot'[cells'[s]] = s
                    /\ gpuMem'[s] = <<cells'[s], ver[cells'[s]]>>
  BY <1>1 DEF CellsCurrent
<1> DEFINE at == {b \in Seated : seat[b] = s}
           first == CHOOSE b \in at : TRUE
<1>5. ASSUME NEW x \in GpuSlots, cells[x] # NoBlock
      PROVE  /\ cells[x] \in Blocks /\ gpuSlot[cells[x]] = x
             /\ cells[x] \in Seated
             /\ gpuMem[x] = <<cells[x], ver[cells[x]]>>
  BY <1>2, <1>5, SeatedHere DEF CellsType, CellsCurrent
<1>6. CASE at = {}
  <2>1. cells'[s] = IF cells[s] \in Seated THEN NoBlock ELSE cells[s]
    BY <1>4, <1>6
  <2>2. FALSE
    BY <1>5, <2>1
  <2>3. QED
    BY <2>2
<1>7. CASE at # {}
  <2>1. first \in at
    BY <1>7
  <2>2. cells'[s] = first
    BY <1>4, <1>7
  <2>3. gpuMem'[s] = IF CellsHold(first) THEN gpuMem[gpuSlot[first]]
                                         ELSE FromRaw(first)
    BY <1>4, <1>7
  <2> HIDE DEF first
  <2>4. first \in Blocks /\ first \in Seated /\ gpuSlot'[first] = s
    BY <1>3, <1>4, <2>1
  <2>5. CASE CellsHold(first)
    <3>1. /\ gpuSlot[first] \in GpuSlots /\ cells[gpuSlot[first]] = first
          /\ first # NoBlock
      BY <2>4, <2>5, SlotOrNone DEF CellsHold, SlotInv, ControlTypeOK, Blocks, NoBlock
    <3>2. gpuMem[gpuSlot[first]] = <<first, ver[first]>>
      BY <1>5, <3>1
    <3>3. QED
      BY <2>2, <2>3, <2>4, <2>5, <3>2
  <2>6. CASE ~CellsHold(first)
    BY <2>2, <2>3, <2>4, <2>6 DEF FromRaw
  <2>7. QED
    BY <2>5, <2>6
<1>8. QED
  BY <1>6, <1>7

\* When nothing is out of place, the staged-in blocks without cells are
\* rewritten from the raw rows.
LEMMA RewriteKeepsCells ==
    ASSUME SlotInv, CellsType, CellsCurrent, FinishSelection, RewriteStagedIn
    PROVE  CellsCurrent'
<1>1. mode = "admit" /\ mode' = "idle" /\ ver' = ver /\ gpuSlot' = gpuSlot
  BY DEF FinishSelection, RewriteStagedIn
<1>2. Evicted = {} /\ Evicted' = {}
  BY <1>1 DEF Evicted
<1>3. plan.in \subseteq Blocks
  BY DEF SlotInv, ControlTypeOK
<1> DEFINE at(s) == {b \in plan.in : gpuSlot[b] = s}
           cold(s) == at(s) # {} /\ cells[s] \notin at(s)
<1>4. /\ gpuMem' = [s \in GpuSlots |->
                      IF cold(s) THEN FromRaw(CHOOSE b \in at(s) : TRUE) ELSE gpuMem[s]]
      /\ cells' = [s \in GpuSlots |->
                      IF cold(s) THEN CHOOSE b \in at(s) : TRUE ELSE cells[s]]
  BY DEF RewriteStagedIn
<1> SUFFICES ASSUME NEW s \in GpuSlots, cells'[s] # NoBlock
             PROVE  /\ gpuSlot[cells'[s]] = s
                    /\ gpuMem'[s] = <<cells'[s], ver[cells'[s]]>>
  BY <1>1 DEF CellsCurrent
<1> DEFINE first == CHOOSE b \in at(s) : TRUE
<1>5. CASE cold(s)
  <2>1. first \in at(s)
    BY <1>5
  <2>2. cells'[s] = first /\ gpuMem'[s] = FromRaw(first)
    BY <1>4, <1>5
  <2> HIDE DEF first
  <2>3. QED
    BY <1>3, <2>1, <2>2 DEF FromRaw
<1>6. CASE ~cold(s)
  <2>1. cells'[s] = cells[s] /\ gpuMem'[s] = gpuMem[s]
    BY <1>4, <1>6
  <2>2. QED
    BY <1>2, <2>1 DEF CellsCurrent
<1>7. QED
  BY <1>5, <1>6

\* Dropping blocks whose cells are removed, or that were never written.
LEMMA TruncateKeepsCells ==
    ASSUME SlotInv, CellsType, CellsCurrent, NEW p \in 0 .. MaxBlocks * BT,
           TruncateRecords(p), UNCHANGED <<ver, gpuMem>>,
           Evicted = {}, Evicted' = {},
           \A s \in GpuSlots : /\ cells'[s] \in {cells[s], NoBlock}
                               /\ cells'[s] \notin Dropped(p)
    PROVE  CellsCurrent'
<1>1. \A b \in Blocks \ Dropped(p) : gpuSlot'[b] = gpuSlot[b]
  BY DEF TruncateRecords, Hold
<1>2. ASSUME NEW s \in GpuSlots, cells'[s] # NoBlock
      PROVE  /\ cells'[s] = cells[s] /\ gpuSlot'[cells[s]] = s
             /\ gpuMem[s] = <<cells[s], ver[cells[s]]>>
  <2>1. cells'[s] = cells[s] /\ cells[s] \notin Dropped(p) /\ cells[s] \in Blocks
    BY <1>2 DEF CellsType
  <2>2. QED
    BY <1>1, <1>2, <2>1 DEF CellsCurrent
<1>3. QED
  BY <1>2 DEF CellsCurrent

\* After an exception nothing is claimed; Clear starts afresh.
LEMMA NextCells ==
    AttentionInv /\ [Next]_vars /\ ~thrown' => CellsCurrent'
<1> SUFFICES ASSUME AttentionInv, [Next]_vars, ~thrown' PROVE CellsCurrent'
  OBVIOUS
<1>1. CASE Clear
  BY <1>1 DEF Clear, CellsCurrent
<1>2. ASSUME NEW b, VictimSpillThrows(b) \/ BlockSpillThrows(b)
                    \/ StageInThrows(b) \/ SpillThrows
      PROVE  FALSE
  BY <1>2 DEF VictimSpillThrows, BlockSpillThrows, StageInThrows, SpillThrows,
              Throw
<1>3. ~Clear => ~thrown
  <2>1. ASSUME NEW k, AppendUnderPressure(k) \/ AppendDirect(k) \/ AppendRefused(k)
        PROVE  thrown' = thrown
    BY <2>1 DEF AppendUnderPressure, AppendDirect, AppendRefused, history
  <2>2. ASSUME NEW S, PrepareSelection(S) PROVE thrown' = thrown
    BY <2>2 DEF PrepareSelection, history
  <2>3. ASSUME NEW p, TruncateCached(p) PROVE thrown' = thrown
    BY <2>3 DEF TruncateCached, history
  <2>4. ASSUME BeginCachedTurn \/ KeepSelected \/ CommitResident \/ SpillBegin
               \/ AdmitBegin \/ FinishAppend \/ FinishSelection \/ Compute
               \/ UnwindAppend \/ UnwindSelect \/ UNCHANGED vars
        PROVE  thrown' = thrown
    BY <2>4 DEF BeginCachedTurn, KeepSelected, CommitResident, SpillBegin,
       AdmitBegin, FinishAppend, FinishSelection, Compute, UnwindAppend,
       UnwindSelect, vars, history
  <2>5. ASSUME NEW b \in Blocks,
               \/ PrefetchRead(b) \/ PrefetchThrows(b) \/ StageInResident(b)
               \/ StageOutToCpu(b) \/ StageOutToNvme(b) \/ StageOutDropped(b)
               \/ StageInCold(b)
        PROVE  thrown' = thrown
    BY <2>5, StageOutSlots, StageInSlots
    DEF PrefetchRead, PrefetchThrows, StageInResident, AttentionInv, history
  <2>6. QED
    BY <1>2, <2>1, <2>2, <2>3, <2>4, <2>5 DEF Next, Request, Progress
<1> SUFFICES ASSUME ~Clear, SlotInv, CellsType, CellsCurrent, NewUnwritten,
                      BatchSeated
               PROVE  CellsCurrent'
  BY <1>1, <1>3 DEF AttentionInv
<1>5. ASSUME NEW k \in 1 .. MaxAppend,
             AppendUnderPressure(k) \/ AppendDirect(k) \/ AppendRefused(k)
      PROVE  CellsCurrent'
  <2>1. /\ UNCHANGED <<ver, cells, gpuMem>>
        /\ mode = "idle" /\ mode' \in {"idle", "fetch", "compute"}
    BY <1>5 DEF AppendUnderPressure, SetSelection, AppendDirect, AppendRefused,
       MayAppend, gpu
  <2>2. Evicted = {} /\ Evicted' = {}
    BY <2>1 DEF Evicted
  <2>3. \A b \in Blocks : gpuSlot[b] # NoSlot => gpuSlot'[b] = gpuSlot[b]
    <3>1. \A b \in Blocks : gpuSlot[b] # NoSlot => b \notin Unseated(k)
      BY SlotOrNone DEF Unseated, SlotInv
    <3>2. CASE AppendUnderPressure(k)
      BY <3>2 DEF AppendUnderPressure
    <3>3. CASE AppendDirect(k)
      BY <3>1, <3>3 DEF AppendDirect
    <3>4. CASE AppendRefused(k)
      BY <3>1, <3>4 DEF AppendRefused, SlotInv, ControlTypeOK
    <3>5. QED
      BY <1>5, <3>2, <3>3, <3>4
  <2>4. QED
    BY <2>1, <2>2, <2>3, CellsUntouched
<1>6. ASSUME NEW S, PrepareSelection(S) PROVE CellsCurrent'
  BY <1>6, CellsUntouched DEF PrepareSelection, SetSelection, gpu, Evicted
<1>7. ASSUME NEW p \in 0 .. MaxBlocks * BT, TruncateCached(p) PROVE CellsCurrent'
  <2>1. NoBlock \notin Dropped(p)
    BY DEF Dropped, Live, Blocks, NoBlock
  <2>2. \A s \in GpuSlots : /\ cells'[s] \in {cells[s], NoBlock}
                            /\ cells'[s] \notin Dropped(p)
    BY <1>7, <2>1 DEF TruncateCached
  <2>3. /\ UNCHANGED <<ver, gpuMem>> /\ Evicted = {} /\ Evicted' = {}
        /\ TruncateRecords(p)
    BY <1>7 DEF TruncateCached, Evicted
  <2>4. QED
    BY <2>2, <2>3, TruncateKeepsCells
<1>8. CASE BeginCachedTurn \/ KeepSelected \/ CommitResident
  BY <1>8, CellsUntouched
  DEF BeginCachedTurn, KeepSelected, CommitResident, gpu, store, Evicted
<1>9. ASSUME NEW b \in Blocks,
             PrefetchRead(b) \/ PrefetchThrows(b) \/ StageInResident(b)
      PROVE  CellsCurrent'
  <2>1. UNCHANGED <<ver, cells, gpuMem, gpuSlot, mode>> /\ mode # "spill"
    BY <1>9 DEF PrefetchRead, PrefetchThrows, StageInResident, Admitting, gpu, store
  <2>2. Evicted = {} /\ Evicted' = {}
    BY <2>1 DEF Evicted
  <2>3. QED
    BY <2>1, <2>2, CellsUntouched
<1>10. CASE SpillBegin
  <2>1. UNCHANGED <<ver, cells, gpuMem, gpuSlot>> /\ Evicted = {}
    BY <1>10 DEF SpillBegin, gpu, store, Evicted
  <2>2. QED
    BY <2>1, CellsUntouched
<1>11. ASSUME NEW b \in Blocks,
              StageOutToCpu(b) \/ StageOutToNvme(b) \/ StageOutDropped(b)
       PROVE  CellsCurrent'
  <2>1. /\ gpuSlot' = [gpuSlot EXCEPT ![b] = NoSlot] /\ b \in todo
        /\ todo' = todo \ {b} /\ mode = "spill"
        /\ UNCHANGED <<ver, cells, gpuMem, plan, mode>>
    BY <1>11, StageOutSlots
  <2>2. Evicted' = Evicted \cup {b}
    BY <2>1 DEF Evicted, CellsType
  <2>3. \A x \in Blocks \ {b} : gpuSlot'[x] = gpuSlot[x]
    BY <2>1 DEF SlotInv, ControlTypeOK
  <2>4. QED
    BY <2>1, <2>2, <2>3, CellsUntouched
<1>12. CASE AdmitBegin
  <2>1. /\ UNCHANGED <<ver, gpuMem, gpuSlot>> /\ mode = "spill" /\ mode' = "admit"
        /\ todo = {}
        /\ cells' = [s \in GpuSlots |-> IF cells[s] \in plan.out THEN NoBlock
                                                                 ELSE cells[s]]
    BY <1>12 DEF AdmitBegin, store
  <2>2. Evicted = plan.out /\ Evicted' = {}
    BY <2>1 DEF Evicted
  <2>3. \A s \in GpuSlots : cells'[s] # NoBlock =>
                              cells'[s] = cells[s] /\ cells[s] \notin plan.out
    BY <2>1
  <2>4. QED
    BY <2>1, <2>2, <2>3 DEF CellsCurrent
<1>13. ASSUME NEW b \in Blocks, StageInCold(b) PROVE CellsCurrent'
  BY <1>13, StageInKeepsCells
<1>14. CASE FinishAppend \/ UnwindSelect
  BY <1>14, CellsUntouched DEF FinishAppend, UnwindSelect, gpu, store, Evicted
<1>15. CASE FinishSelection
  BY <1>15, RelayoutKeepsCells, RewriteKeepsCells DEF FinishSelection
<1>16. CASE Compute
  BY <1>16, ComputeKeepsCells
<1>17. CASE UnwindAppend
  <2>1. /\ UNCHANGED <<ver, cells, gpuMem>> /\ Evicted = {} /\ Evicted' = {}
        /\ TruncateRecords(plan.t0) /\ plan.t0 \in 0 .. MaxBlocks * BT
    BY <1>17 DEF UnwindAppend, gpu, Evicted, SlotInv, ControlTypeOK
  <2>2. \A s \in GpuSlots : cells[s] \notin Dropped(plan.t0)
    BY <1>17 DEF UnwindAppend, NewUnwritten
  <2>3. QED
    BY <2>1, <2>2, TruncateKeepsCells
<1>18. CASE UNCHANGED vars
  BY <1>18, CellsUntouched DEF vars, gpu, store, Evicted
<1>19. QED
  BY <1>2, <1>5, <1>6, <1>7, <1>8, <1>9, <1>10, <1>11, <1>12, <1>13,
     <1>14, <1>15, <1>16, <1>17, <1>18 DEF Next, Request, Progress

\* The blocks of a batch stay out of the cells until it is computed.
LEMMA NextUnwritten ==
    AttentionInv /\ [Next]_vars /\ ~thrown' => NewUnwritten'
<1> SUFFICES ASSUME AttentionInv, [Next]_vars, ~thrown' PROVE NewUnwritten'
  OBVIOUS
<1>1. ASSUME mode' = "idle" PROVE NewUnwritten'
  BY <1>1 DEF NewUnwritten
<1>2. ASSUME NEW b, VictimSpillThrows(b) \/ BlockSpillThrows(b)
                    \/ StageInThrows(b) \/ SpillThrows
      PROVE  FALSE
  BY <1>2 DEF VictimSpillThrows, BlockSpillThrows, StageInThrows, SpillThrows,
              Throw
\* A step of a plan, or of the batch it was made for.
<1>3. ASSUME UNCHANGED <<total, plan, thrown>>,
             mode \in {"fetch", "spill", "admit", "compute", "unwind"},
             \A s \in GpuSlots : cells'[s] \in {cells[s], NoBlock}
      PROVE  NewUnwritten'
  <2>1. NoBlock \notin Live(total)
    BY DEF Live, Blocks, NoBlock
  <2>2. NewUnwritten
    BY <1>3 DEF AttentionInv
  <2>3. QED
    BY <1>3, <2>1, <2>2 DEF NewUnwritten, Dropped
<1>4. ASSUME NEW k \in 1 .. MaxAppend, AppendUnderPressure(k) \/ AppendDirect(k)
      PROVE  NewUnwritten'
  <2>1. /\ plan'.t0 = total /\ cells' = cells /\ mode = "idle"
        /\ thrown' = thrown
    <3>1. CASE AppendUnderPressure(k)
      BY <3>1 DEF AppendUnderPressure, SetSelection, MayAppend, gpu, history
    <3>2. CASE AppendDirect(k)
      BY <3>2 DEF AppendDirect, MayAppend, NoPlan, gpu, history
    <3>3. QED
      BY <1>4, <3>1, <3>2
  <2>2. CellsCurrent /\ SlotInv /\ CellsType
    BY <2>1 DEF AttentionInv
  <2>3. Evicted = {}
    BY <2>1 DEF Evicted
  <2>4. ASSUME NEW s \in GpuSlots, cells[s] # NoBlock
        PROVE  ~(cells[s] * BT >= total)
    <3>1. cells[s] \in Blocks /\ gpuSlot[cells[s]] = s
      BY <2>2, <2>3, <2>4 DEF CellsCurrent, CellsType
    <3>2. cells[s] \in Live(total)
      BY <2>2, <3>1, SeatedHere
    <3>3. cells[s] * BT \in Int /\ total \in Int
      BY <2>2, <3>1, SizesAssumption, BoundIsNat DEF Blocks, SlotInv, ControlTypeOK
    <3>4. QED
      BY <3>2, <3>3 DEF Live
  <2>5. NoBlock \notin Live(total')
    BY DEF Live, Blocks, NoBlock
  <2>6. QED
    BY <2>1, <2>4, <2>5 DEF NewUnwritten, Dropped
<1>5. ASSUME NEW k, AppendRefused(k) PROVE NewUnwritten'
  BY <1>1, <1>5 DEF AppendRefused, MayAppend
<1>6. ASSUME NEW S, PrepareSelection(S) PROVE NewUnwritten'
  BY <1>6 DEF PrepareSelection, SetSelection, NewUnwritten
<1>7. ASSUME NEW p, TruncateCached(p) PROVE NewUnwritten'
  BY <1>1, <1>7 DEF TruncateCached
<1>8. CASE Clear \/ BeginCachedTurn \/ KeepSelected \/ CommitResident
           \/ FinishSelection \/ Compute \/ UnwindAppend \/ UnwindSelect
  BY <1>1, <1>8 DEF Clear, BeginCachedTurn, KeepSelected, CommitResident,
     FinishSelection, Compute, UnwindAppend, UnwindSelect
<1>9. ASSUME NEW b \in Blocks,
             PrefetchRead(b) \/ PrefetchThrows(b) \/ StageInResident(b)
      PROVE  NewUnwritten'
  BY <1>3, <1>9 DEF PrefetchRead, PrefetchThrows, StageInResident, Admitting,
     gpu, history
<1>10. CASE SpillBegin \/ FinishAppend
  BY <1>3, <1>10 DEF SpillBegin, FinishAppend, gpu, history
<1>11. ASSUME NEW b \in Blocks,
              StageOutToCpu(b) \/ StageOutToNvme(b) \/ StageOutDropped(b)
       PROVE  NewUnwritten'
  BY <1>3, <1>11, StageOutSlots DEF AttentionInv
<1>12. CASE AdmitBegin
  BY <1>3, <1>12 DEF AdmitBegin, history
<1>13. ASSUME NEW b \in Blocks, StageInCold(b) PROVE NewUnwritten'
  BY <1>3, <1>13, StageInSlots DEF AttentionInv
<1>14. CASE UNCHANGED vars
  <2>1. CASE mode = "idle"
    BY <1>1, <1>14, <2>1 DEF vars
  <2>2. CASE mode # "idle"
    BY <1>3, <1>14, <2>2 DEF vars, gpu, history, AttentionInv, SlotInv, ControlTypeOK
  <2>3. QED
    BY <2>1, <2>2
<1>15. QED
  BY <1>2, <1>4, <1>5, <1>6, <1>7, <1>8, <1>9, <1>10, <1>11, <1>12, <1>13, <1>14
  DEF Next, Request, Progress

LEMMA SlotInvStep == SlotInv /\ [Next]_vars => SlotInv'
BY NextType, NextSlots, NextPlan DEF SlotInv, SlotParts

\* The inductive invariant: at any time, also between the steps of a plan, cells
\* that hold a block not yet marked for eviction are in that block's slot and
\* hold its latest bytes, and the blocks of a batch are in no cells before it is
\* computed.
THEOREM AttentionInvariant == Spec => []AttentionInv
<1>1. AttentionInv /\ [Next]_vars => AttentionInv'
  BY SlotInvStep, NextCellsType, NextBatchSeated, NextCells, NextUnwritten
  DEF AttentionInv
<1>2. QED
  BY <1>1, InitAttention, PTL DEF Spec

\* Between calls, attention reads each block's latest bytes, and only in the
\* slot the block's record names, through any eviction, restoration, re-layout,
\* refused or unwound batch and truncation, until an exception unwinds a
\* half-executed plan.
THEOREM AttentionCurrent == Spec => []AttentionReadsCurrent
<1>1. AttentionInv => AttentionReadsCurrent
  BY DEF AttentionInv, AttentionReadsCurrent, CellsCurrent, Evicted
<1>2. QED
  BY <1>1, AttentionInvariant, PTL

-----------------------------------------------------------------------------
(* How many blocks a plan can ask for.                                      *)

LEMMA MinOfNats ==
    ASSUME NEW S \in SUBSET Nat, S # {}
    PROVE  \E m \in S : \A x \in S : m <= x
<1>1. PICK m \in S : \A x \in S : <<x, m>> \notin OpToRel(<, Nat)
  BY NatLessThanWellFounded, WFMin, Zenon
<1>2. \A x \in S : ~ x < m
  BY <1>1, Zenon DEF OpToRel
<1>3. \A x \in S : m <= x
  BY <1>2
<1>4. QED
  BY <1>3

LEMMA FiniteSets ==
    /\ IsFiniteSet(Blocks) /\ IsFiniteSet(GpuSlots)
    /\ Cardinality(GpuSlots) = NGpu
<1>1. IsFiniteSet(Blocks)
  BY SizesAssumption, FS_Interval DEF Blocks
<1>2. /\ IsFiniteSet(GpuSlots)
      /\ Cardinality(GpuSlots) = IF 0 > NGpu - 1 THEN 0 ELSE NGpu - 1 - 0 + 1
  <2>1. 0 \in Int /\ NGpu - 1 \in Int
    BY SizesAssumption
  <2>2. QED
    BY <2>1, FS_Interval DEF GpuSlots
<1>3. QED
  BY <1>1, <1>2, SizesAssumption

LEMMA FiniteBlocks ==
    ASSUME NEW S \in SUBSET Blocks
    PROVE  IsFiniteSet(S) /\ Cardinality(S) \in Nat
BY FiniteSets, FS_Subset, FS_CardinalityType

LEMMA StartsGrow ==
    ASSUME NEW a \in Nat, NEW b \in Nat, a <= b
    PROVE  a * BT <= b * BT
<1>1. BT \in Nat
  BY SizesAssumption
<1>2. (b - a) * BT >= 0
  BY <1>1
<1>3. QED
  BY <1>1, <1>2

\* Blocks are dense: the registered ones are 0, 1, .. n - 1.
LEMMA LiveIsDense ==
    ASSUME NEW t \in Nat
    PROVE  LET n == Cardinality(Live(t)) IN n \in Nat /\ Live(t) = 0 .. n - 1
<1>1. \E n \in Nat : Live(t) = 0 .. n - 1
  <2> DEFINE off == Blocks \ Live(t)
  <2>1. CASE off = {}
    BY <2>1, SizesAssumption DEF Blocks, Live
  <2>2. CASE off # {}
    <3>1. PICK n \in off : \A x \in off : n <= x
      <4>1. off \in SUBSET Nat
        BY DEF Blocks
      <4> HIDE DEF off
      <4>2. QED
        BY <2>2, <4>1, MinOfNats
    <3>2. n \in Blocks /\ n \in Nat /\ ~(n * BT < t)
      BY <3>1 DEF Blocks, Live
    <3>3. \A b \in Blocks : b < n => b \in Live(t)
      BY <3>1 DEF Blocks
    <3>4. \A b \in Blocks : b >= n => b \notin Live(t)
      <4>1. \A b \in Blocks : b >= n => n * BT <= b * BT
        BY <3>2, StartsGrow DEF Blocks
      <4>2. \A b \in Blocks : b * BT \in Int
        BY SizesAssumption DEF Blocks
      <4>3. QED
        BY <3>2, <4>1, <4>2 DEF Live
    <3>5. Live(t) = {b \in Blocks : b < n}
      <4>1. \A b \in Blocks : b < n \/ b >= n
        BY <3>2 DEF Blocks
      <4>2. QED
        BY <3>3, <3>4, <4>1 DEF Live
    <3>6. Live(t) = 0 .. n - 1
      BY <3>2, <3>5, SizesAssumption DEF Blocks
    <3>7. QED
      BY <3>2, <3>6
  <2>3. QED
    BY <2>1, <2>2
<1>2. PICK n \in Nat : Live(t) = 0 .. n - 1
  BY <1>1
<1>3. Cardinality(Live(t)) = IF 0 > n - 1 THEN 0 ELSE n - 1 - 0 + 1
  <2>1. 0 \in Int /\ n - 1 \in Int
    OBVIOUS
  <2>2. QED
    BY <1>2, <2>1, FS_Interval
<1>4. QED
  BY <1>2, <1>3

\* The sinks and the newest blocks together are no more than the budget.
LEMMA PressureFits ==
    ASSUME NEW t \in Nat
    PROVE  Cardinality(PressureBlocks(t)) <= Budget
<1> DEFINE n == Cardinality(Live(t))
           sink == Lesser(SinkBlocks, Budget)
<1>1. n \in Nat /\ Live(t) = 0 .. n - 1
  BY LiveIsDense
<1>2. sink \in Nat /\ sink <= Budget /\ Budget \in Nat
  BY SizesAssumption, BudgetAssumption DEF Lesser
<1> HIDE DEF n, sink
<1>3. CASE n <= Budget
  BY <1>3 DEF PressureBlocks, n
<1>4. CASE ~(n <= Budget)
  <2> DEFINE old == 0 .. sink - 1
             new == n - (Budget - sink) .. n - 1
  <2>1. PressureBlocks(t) = {b \in Live(t) : b < sink \/ b >= n - (Budget - sink)}
    BY <1>4 DEF PressureBlocks, n, sink
  <2>2. PressureBlocks(t) \subseteq old \cup new
    BY <1>1, <1>2, <2>1
  <2>3. /\ IsFiniteSet(old)
        /\ Cardinality(old) = IF 0 > sink - 1 THEN 0 ELSE sink - 1 - 0 + 1
    <3>1. 0 \in Int /\ sink - 1 \in Int
      BY <1>2
    <3>2. QED
      BY <3>1, FS_Interval
  <2>4. /\ IsFiniteSet(new)
        /\ Cardinality(new) = IF n - (Budget - sink) > n - 1 THEN 0
                              ELSE n - 1 - (n - (Budget - sink)) + 1
    <3>1. n - (Budget - sink) \in Int /\ n - 1 \in Int
      BY <1>1, <1>2
    <3>2. QED
      BY <3>1, FS_Interval
  <2>5. Cardinality(old) = sink /\ Cardinality(new) = Budget - sink
    BY <1>1, <1>2, <2>3, <2>4
  <2>6. /\ IsFiniteSet(old \cup new) /\ IsFiniteSet(old \cap new)
        /\ Cardinality(old \cup new)
             = Cardinality(old) + Cardinality(new) - Cardinality(old \cap new)
    BY <2>3, <2>4, FS_Union, FS_Intersection
  <2>7. Cardinality(old \cap new) \in Nat /\ Cardinality(old \cup new) \in Nat
    BY <2>6, FS_CardinalityType
  <2>8. Cardinality(PressureBlocks(t)) <= Cardinality(old \cup new)
    BY <2>2, <2>6, FS_Subset
  <2>9. Cardinality(PressureBlocks(t)) \in Nat
    BY FiniteBlocks, PressureRegistered DEF Live
  <2> HIDE DEF old, new
  <2>10. QED
    BY <1>2, <2>5, <2>6, <2>7, <2>8, <2>9
<1>5. QED
  BY <1>3, <1>4

\* The retrieved blocks are no more than the budget.
LEMMA TopKFits ==
    ASSUME NEW S, IsTopK(S), total \in Nat
    PROVE  S \subseteq Live(total) /\ Cardinality(S) <= Budget
<1>1. Cardinality(Live(total)) \in Nat
  BY LiveIsDense
<1>2. QED
  BY <1>1, BudgetAssumption, SizesAssumption DEF IsTopK, Lesser

-----------------------------------------------------------------------------
(* Where the working set is.                                                *)

LEMMA InitWorkingSet == Init => WorkingSetInv
<1> SUFFICES ASSUME Init PROVE WorkingSetInv
  OBVIOUS
<1>1. \A b \in Blocks : ~inWs[b]
  BY DEF Init
<1>2. UnregisteredUnmarked /\ MarkedSeated
  BY <1>1 DEF UnregisteredUnmarked, MarkedSeated, WsBlocks
<1>3. PlanFits
  BY DEF Init, PlanFits, Planning
<1>4. CellsType
  BY DEF Init, CellsType
<1>5. QED
  BY <1>2, <1>3, <1>4, InitSlots DEF WorkingSetInv

\* set_selection: the working set becomes exactly the selection, every other
\* block on the GPU is to be evicted, every other block of the selection is to
\* be staged in.
LEMMA SelectionFits ==
    ASSUME SlotInv, UnregisteredUnmarked, MarkedSeated, mode = "idle",
           NEW t, Live(total) \subseteq Live(t), total' = t,
           NEW S, S \subseteq Live(t), Cardinality(S) <= Budget, NEW kind,
           SetSelection(S, t, kind), UNCHANGED <<tier, gpuSlot>>
    PROVE  UnregisteredUnmarked' /\ MarkedSeated' /\ PlanFits'
<1>1. /\ mode' = "fetch" /\ plan'.out = PlanOut(S, t) /\ plan'.in = PlanIn(S)
      /\ \A b \in Blocks : inWs'[b] = (b \in S \/ (inWs[b] /\ b \notin PlanOut(S, t)))
  BY DEF SetSelection
<1>2. S \subseteq Blocks /\ Live(t) \subseteq Blocks
  BY DEF Live
<1>3. \A b \in Blocks : inWs[b] => OnGpu(b) /\ b \in Live(t)
  BY DEF MarkedSeated, WsBlocks, UnregisteredUnmarked, Registered
<1>4. \A b \in Blocks : inWs[b] /\ b \notin S => b \in PlanOut(S, t)
  BY <1>3 DEF PlanOut, OnGpu
<1>5. \A b \in Blocks : inWs'[b] <=> b \in S
  BY <1>1, <1>4
<1>6. WsBlocks' = S
  BY <1>2, <1>5 DEF WsBlocks
<1>7. UnregisteredUnmarked'
  BY <1>5 DEF UnregisteredUnmarked, Registered
<1>8. MarkedSeated'
  <2> SUFFICES ASSUME NEW b \in S
               PROVE  \/ OnGpu(b)' /\ b \notin plan'.out
                      \/ b \in plan'.in
    BY <1>1, <1>6 DEF MarkedSeated
  <2>1. CASE inWs[b]
    BY <1>1, <1>2, <1>3, <2>1 DEF PlanOut, OnGpu
  <2>2. CASE ~inWs[b]
    BY <1>1, <2>2 DEF PlanIn
  <2>3. QED
    BY <2>1, <2>2
<1>9. PlanFits'
  <2>1. plan'.in \subseteq S
    BY <1>1 DEF PlanIn
  <2>2. \A b \in Seated' : b \in S \/ b \in plan'.out
    BY <1>1, <1>2 DEF Seated, PlanOut, SlotInv, SeatedInGpuTier
  <2>3. QED
    BY <1>1, <1>6, <2>1, <2>2 DEF PlanFits
<1>10. QED
  BY <1>7, <1>8, <1>9

\* Of the blocks a plan leaves on the GPU and those still to come, none is
\* outside the working set, so there is a slot for each.
LEMMA RoomForAll ==
    ASSUME WorkingSetInv, ~thrown, mode = "admit"
    PROVE  Cardinality({b \in todo : ~OnGpu(b)}) <= Cardinality(free)
<1> DEFINE cold == {b \in todo : ~OnGpu(b)}
<1>1. /\ PlanFits /\ SlotInv /\ InFlight = {}
      /\ todo \subseteq WsBlocks /\ Cardinality(WsBlocks) <= Budget
      /\ Seated \subseteq WsBlocks
  BY DEF WorkingSetInv, PlanFits, Planning, InFlight
<1>2. cold \cap Seated = {}
  BY DEF Seated, OnGpu, WorkingSetInv, SlotInv, SeatedInGpuTier, Live
<1>3. WsBlocks \subseteq Blocks
  BY DEF WsBlocks
<1>4. cold \cup Seated \subseteq WsBlocks
  BY <1>1
<1> HIDE DEF cold
<1>5. /\ IsFiniteSet(cold) /\ IsFiniteSet(Seated) /\ IsFiniteSet(WsBlocks)
      /\ Cardinality(cold) \in Nat /\ Cardinality(Seated) \in Nat
      /\ Cardinality(cold \cup Seated) \in Nat /\ Cardinality(WsBlocks) \in Nat
  <2>1. cold \subseteq Blocks /\ Seated \subseteq Blocks
    BY <1>3, <1>4
  <2>2. QED
    BY <1>3, <2>1, FiniteBlocks
<1>6. Cardinality(cold \cup Seated)
        = Cardinality(cold) + Cardinality(Seated) - Cardinality(cold \cap Seated)
  BY <1>5, FS_Union
<1>7. Cardinality(cold \cap Seated) = 0
  BY <1>2, FS_EmptySet
<1>8. Cardinality(cold \cup Seated) <= Cardinality(WsBlocks)
  BY <1>4, <1>5, FS_Subset
<1>9. Cardinality(cold) + Cardinality(Seated) <= NGpu
  BY <1>1, <1>5, <1>6, <1>7, <1>8, BudgetAssumption, SizesAssumption
<1>10. free = GpuSlots \ SeatedSlots
  <2>1. free \subseteq GpuSlots
    BY <1>1 DEF SlotInv, ControlTypeOK
  <2>2. QED
    BY <1>1, <2>1 DEF SlotInv, SlotOwnership, SlotConservation
<1>11. IsFiniteSet(SeatedSlots) /\ Cardinality(SeatedSlots) <= Cardinality(Seated)
  <2> DEFINE f == [b \in Seated |-> gpuSlot[b]]
  <2>1. f \in Surjection(Seated, SeatedSlots)
    BY DEF Surjection, SeatedSlots
  <2> HIDE DEF f
  <2>2. QED
    BY <1>5, <2>1, FS_Surjection
<1>12. /\ Cardinality(free)
            = Cardinality(GpuSlots) - Cardinality(GpuSlots \cap SeatedSlots)
       /\ IsFiniteSet(free)
  BY <1>10, FiniteSets, FS_Difference
<1>13. /\ IsFiniteSet(GpuSlots \cap SeatedSlots)
       /\ Cardinality(GpuSlots \cap SeatedSlots) <= Cardinality(SeatedSlots)
  BY <1>11, FS_Intersection
<1>14. /\ Cardinality(free) \in Nat /\ Cardinality(SeatedSlots) \in Nat
       /\ Cardinality(GpuSlots \cap SeatedSlots) \in Nat
  BY <1>11, <1>12, <1>13, FS_CardinalityType
<1>15. QED
  BY <1>5, <1>9, <1>11, <1>12, <1>13, <1>14, FiniteSets, SizesAssumption DEF cold

LEMMA NextUnmarked ==
    SlotInv /\ UnregisteredUnmarked /\ [Next]_vars => UnregisteredUnmarked'
<1> SUFFICES ASSUME SlotInv, UnregisteredUnmarked, [Next]_vars
             PROVE  UnregisteredUnmarked'
  OBVIOUS
<1> USE DEF UnregisteredUnmarked, Registered
<1>a. ASSUME UNCHANGED <<total, inWs>> PROVE UnregisteredUnmarked'
  BY <1>a
<1>t. total \in Nat
  BY BoundIsNat DEF SlotInv, ControlTypeOK
<1>1. ASSUME NEW k \in 1 .. MaxAppend,
             AppendUnderPressure(k) \/ AppendDirect(k) \/ AppendRefused(k)
      PROVE  UnregisteredUnmarked'
  <2>1. Live(total) \subseteq Live(total + k)
    BY <1>t, LiveGrows, SizesAssumption
  <2>2. CASE AppendUnderPressure(k)
    BY <2>1, <2>2, PressureRegistered DEF AppendUnderPressure, SetSelection
  <2>3. CASE AppendDirect(k)
    BY <2>1, <2>3 DEF AppendDirect
  <2>4. CASE AppendRefused(k)
    BY <1>a, <2>4 DEF AppendRefused
  <2>5. QED
    BY <1>1, <2>2, <2>3, <2>4
<1>2. ASSUME NEW S, PrepareSelection(S) PROVE UnregisteredUnmarked'
  BY <1>2 DEF PrepareSelection, SetSelection, IsTopK
<1>3. ASSUME NEW p \in 0 .. MaxBlocks * BT, TruncateRecords(p)
      PROVE  UnregisteredUnmarked'
  <2>1. Live(total') = Live(total) \ Dropped(p)
    <3>1. p \in Nat
      BY BoundIsNat
    <3>2. QED
      BY <1>3, <1>t, <3>1, LiveTruncated DEF TruncateRecords
  <2>2. \A b \in Blocks : inWs'[b] = IF b \in Dropped(p) THEN FALSE ELSE inWs[b]
    BY <1>3 DEF TruncateRecords, Hold
  <2>3. QED
    BY <2>1, <2>2
<1>4. ASSUME NEW p \in 0 .. MaxBlocks * BT, TruncateCached(p)
      PROVE  UnregisteredUnmarked'
  BY <1>3, <1>4 DEF TruncateCached
<1>5. CASE Clear
  BY <1>3, <1>5, BoundIsNat DEF Clear
<1>6. CASE UnwindAppend
  BY <1>3, <1>6 DEF UnwindAppend, SlotInv, ControlTypeOK
<1>7. CASE CommitResident
  BY <1>7 DEF CommitResident, Seated
<1>8. CASE \/ BeginCachedTurn \/ KeepSelected \/ SpillBegin \/ SpillThrows
           \/ AdmitBegin \/ FinishAppend \/ FinishSelection \/ Compute
           \/ UnwindSelect \/ UNCHANGED vars
  BY <1>8, <1>a DEF BeginCachedTurn, KeepSelected, SpillBegin, SpillThrows,
     AdmitBegin, FinishAppend, FinishSelection, Compute, UnwindSelect, vars, store
<1>9. ASSUME NEW b \in Blocks,
             \/ PrefetchRead(b) \/ PrefetchThrows(b)
             \/ StageOutToCpu(b) \/ StageOutToNvme(b) \/ StageOutDropped(b)
             \/ VictimSpillThrows(b) \/ BlockSpillThrows(b)
             \/ StageInResident(b) \/ StageInCold(b) \/ StageInThrows(b)
      PROVE  UnregisteredUnmarked'
  BY <1>9, <1>a DEF PrefetchRead, PrefetchThrows, StageOutToCpu, StageOutToNvme,
     StageOutDropped, VictimSpillThrows, BlockSpillThrows, StageInResident,
     StageInCold, StageInThrows, store
<1>10. QED
  BY <1>1, <1>2, <1>4, <1>5, <1>6, <1>7, <1>8, <1>9 DEF Next, Request, Progress

LEMMA TruncateKeepsMarks ==
    ASSUME SlotInv, MarkedSeated, NEW p \in 0 .. MaxBlocks * BT,
           TruncateRecords(p), mode \in {"idle", "unwind"}, mode' = "idle"
    PROVE  MarkedSeated'
<1>1. \A b \in Blocks :
        /\ b \notin Dropped(p) => /\ inWs'[b] = inWs[b]
                                  /\ tier'[b] = tier[b] /\ gpuSlot'[b] = gpuSlot[b]
        /\ b \in Dropped(p) => ~inWs'[b]
  BY DEF TruncateRecords, Hold
<1>2. \A b \in Blocks : inWs[b] => OnGpu(b)
  BY DEF MarkedSeated, WsBlocks
<1>3. QED
  BY <1>1, <1>2 DEF MarkedSeated, WsBlocks, OnGpu

\* stage_out takes the slot of a block outside the working set, or of one that
\* the plan will stage in.
LEMMA StageOutFits ==
    ASSUME WorkingSetInv, ~thrown, NEW b \in Blocks,
           StageOutToCpu(b) \/ StageOutToNvme(b) \/ StageOutDropped(b)
    PROVE  MarkedSeated' /\ PlanFits'
<1>1. /\ gpuSlot' = [gpuSlot EXCEPT ![b] = NoSlot]
      /\ todo' = todo \ {b} /\ b \in todo
      /\ UNCHANGED <<total, inWs, plan, mode>> /\ mode = "spill"
      /\ \A x \in Blocks \ {b} : tier[x] = "GPU" => tier'[x] = "GPU"
  BY StageOutSlots DEF WorkingSetInv
<1>2. b \in plan.out
  BY <1>1 DEF WorkingSetInv, CellsType
<1>3. /\ \A x \in Blocks \ {b} : gpuSlot'[x] = gpuSlot[x]
      /\ gpuSlot'[b] = NoSlot
  BY <1>1 DEF WorkingSetInv, SlotInv, ControlTypeOK
<1>4. WsBlocks' = WsBlocks
  BY <1>1 DEF WsBlocks
<1>5. MarkedSeated'
  BY <1>1, <1>2, <1>3, <1>4 DEF WorkingSetInv, MarkedSeated, OnGpu, WsBlocks
<1>6. Seated' = Seated \ {b}
  BY <1>1, <1>3, SlotIsInt DEF Seated, Live
<1>7. PlanFits'
  BY <1>1, <1>4, <1>6 DEF WorkingSetInv, PlanFits, Planning
<1>8. QED
  BY <1>5, <1>7

LEMMA StageInFits ==
    ASSUME WorkingSetInv, ~thrown, NEW b \in Blocks, StageInCold(b)
    PROVE  MarkedSeated' /\ PlanFits'
<1>1. /\ b \in todo /\ b \in Live(total) /\ gpuSlot[b] = NoSlot
      /\ mode = "admit" /\ todo' = todo \ {b}
      /\ tier' = [tier EXCEPT ![b] = "GPU"]
      /\ UNCHANGED <<total, inWs, plan, mode>>
  BY StageInSlots DEF WorkingSetInv
<1>2. free # {}
  <2> DEFINE cold == {c \in todo : ~OnGpu(c)}
  <2>1. b \in cold /\ cold \subseteq Blocks
    BY <1>1 DEF StageInCold, WorkingSetInv, SlotInv, ControlTypeOK
  <2>2. Cardinality(cold) <= Cardinality(free)
    BY <1>1, RoomForAll
  <2> HIDE DEF cold
  <2>3. Cardinality(cold) \in Nat /\ Cardinality(cold) # 0
    BY <2>1, FiniteBlocks, FS_EmptySet
  <2>4. QED
    BY <2>2, <2>3, FS_EmptySet
<1>3. PICK s \in free : gpuSlot' = [gpuSlot EXCEPT ![b] = s]
  BY <1>2, StageInSlots DEF Allocatable, WorkingSetInv
<1>4. /\ gpuSlot'[b] >= 0 /\ tier'[b] = "GPU"
      /\ \A x \in Blocks \ {b} : gpuSlot'[x] = gpuSlot[x] /\ tier'[x] = tier[x]
  BY <1>1, <1>3, SlotIsInt DEF WorkingSetInv, SlotInv, ControlTypeOK
<1>5. WsBlocks' = WsBlocks
  BY <1>1 DEF WsBlocks
<1>6. MarkedSeated'
  BY <1>1, <1>4, <1>5 DEF WorkingSetInv, MarkedSeated, OnGpu, WsBlocks
<1>7. Seated' \subseteq Seated \cup {b}
  BY <1>1, <1>4 DEF Seated, Live
<1>8. PlanFits'
  BY <1>1, <1>5, <1>7 DEF WorkingSetInv, PlanFits, Planning
<1>9. QED
  BY <1>6, <1>8

\* Every step that throws nothing.
LEMMA NextFits ==
    WorkingSetInv /\ [Next]_vars /\ ~thrown' => MarkedSeated' /\ PlanFits'
<1> SUFFICES ASSUME WorkingSetInv, [Next]_vars, ~thrown'
             PROVE  MarkedSeated' /\ PlanFits'
  OBVIOUS
<1>s. SlotInv /\ UnregisteredUnmarked /\ total \in Nat
  BY BoundIsNat DEF WorkingSetInv, SlotInv, ControlTypeOK
<1>1. ASSUME mode' \in {"idle", "compute", "unwind"} PROVE PlanFits'
  BY <1>1 DEF PlanFits, Planning
<1>2. CASE Clear
  <2>1. TruncateRecords(0) /\ mode' = "idle" /\ Dropped(0) = Live(total)
    BY <1>2, SizesAssumption DEF Clear, Dropped, Live, Blocks
  <2>2. \A b \in Blocks : ~inWs'[b]
    BY <1>s, <2>1 DEF TruncateRecords, Hold, UnregisteredUnmarked, Registered
  <2>3. QED
    BY <1>1, <2>1, <2>2 DEF MarkedSeated, WsBlocks
<1>3. ASSUME NEW b, VictimSpillThrows(b) \/ BlockSpillThrows(b)
                    \/ StageInThrows(b) \/ SpillThrows
      PROVE  FALSE
  BY <1>3 DEF VictimSpillThrows, BlockSpillThrows, StageInThrows, SpillThrows,
              Throw
<1>4. ASSUME thrown' = thrown PROVE ~thrown /\ MarkedSeated /\ PlanFits
  BY <1>4 DEF WorkingSetInv
<1>5. ASSUME NEW k \in 1 .. MaxAppend, AppendUnderPressure(k)
      PROVE  MarkedSeated' /\ PlanFits'
  <2>1. /\ SetSelection(PressureBlocks(total + k), total + k, "append")
        /\ mode = "idle" /\ total' = total + k /\ thrown' = thrown
        /\ UNCHANGED <<tier, gpuSlot>>
    BY <1>5 DEF AppendUnderPressure, MayAppend, history
  <2>2. total + k \in Nat /\ Live(total) \subseteq Live(total + k)
    BY <1>s, LiveGrows, SizesAssumption
  <2>3. /\ PressureBlocks(total + k) \subseteq Live(total + k)
        /\ Cardinality(PressureBlocks(total + k)) <= Budget
    BY <2>2, PressureRegistered, PressureFits
  <2>4. QED
    BY <1>s, <1>4, <2>1, <2>2, <2>3, SelectionFits
<1>6. ASSUME NEW k \in 1 .. MaxAppend, AppendDirect(k) \/ AppendRefused(k)
      PROVE  MarkedSeated' /\ PlanFits'
  <2>1. /\ mode = "idle" /\ mode' \in {"idle", "compute"} /\ inWs' = inWs
        /\ thrown' = thrown
    BY <1>6 DEF AppendDirect, AppendRefused, MayAppend, history
  <2>2. \A b \in Blocks : OnGpu(b) => OnGpu(b)'
    <3>1. \A b \in Blocks : OnGpu(b) => b \notin Unseated(k)
      BY <1>s, SlotOrNone DEF Unseated, OnGpu, SlotInv
    <3>2. CASE AppendDirect(k)
      BY <3>1, <3>2 DEF AppendDirect, OnGpu
    <3>3. CASE AppendRefused(k)
      BY <1>s, <3>1, <3>3 DEF AppendRefused, OnGpu, SlotInv, ControlTypeOK
    <3>4. QED
      BY <1>6, <3>2, <3>3
  <2>3. QED
    BY <1>1, <1>4, <2>1, <2>2 DEF MarkedSeated, WsBlocks
<1>7. ASSUME NEW S, PrepareSelection(S)
      PROVE  MarkedSeated' /\ PlanFits'
  <2>1. /\ SetSelection(S, total, "select") /\ mode = "idle" /\ IsTopK(S)
        /\ total' = total /\ thrown' = thrown /\ UNCHANGED <<tier, gpuSlot>>
    BY <1>7 DEF PrepareSelection, history
  <2>2. S \subseteq Live(total) /\ Cardinality(S) <= Budget
    BY <1>s, <2>1, TopKFits
  <2>3. QED
    BY <1>s, <1>4, <2>1, <2>2, SelectionFits
<1>8. ASSUME NEW p \in 0 .. MaxBlocks * BT, TruncateCached(p)
      PROVE  MarkedSeated' /\ PlanFits'
  BY <1>s, <1>1, <1>4, <1>8, TruncateKeepsMarks DEF TruncateCached, history
<1>9. CASE UnwindAppend
  <2>1. /\ TruncateRecords(plan.t0) /\ plan.t0 \in 0 .. MaxBlocks * BT
        /\ mode = "unwind" /\ mode' = "idle" /\ thrown' = thrown
    BY <1>s, <1>9 DEF UnwindAppend, history, SlotInv, ControlTypeOK
  <2>2. QED
    BY <1>s, <1>1, <1>4, <2>1, TruncateKeepsMarks
<1>10. CASE \/ BeginCachedTurn \/ KeepSelected \/ FinishAppend \/ Compute
            \/ UnwindSelect
  <2>1. /\ UNCHANGED <<inWs, tier, gpuSlot, thrown>>
        /\ mode' \in {"idle", "compute", "unwind"}
        /\ \/ mode \in {"idle", "compute", "unwind"}
           \/ mode = "admit" /\ todo = {}
    BY <1>10 DEF BeginCachedTurn, KeepSelected, FinishAppend, Compute,
       UnwindSelect, store, history
  <2>2. QED
    BY <1>1, <1>4, <2>1 DEF MarkedSeated, WsBlocks, OnGpu
<1>11. CASE CommitResident
  <2>1. /\ inWs' = [b \in Blocks |-> b \in Seated] /\ UNCHANGED <<tier, gpuSlot>>
        /\ mode' = "idle" /\ \A b \in Seated : tier[b] = "GPU"
    BY <1>11 DEF CommitResident
  <2>2. QED
    BY <1>1, <2>1 DEF MarkedSeated, WsBlocks, OnGpu, Seated
<1>12. ASSUME NEW b \in Blocks, PrefetchRead(b) \/ PrefetchThrows(b)
       PROVE  MarkedSeated' /\ PlanFits'
  <2>1. /\ UNCHANGED <<total, inWs, tier, gpuSlot, thrown, plan, todo, mode>>
        /\ mode = "fetch"
    BY <1>12 DEF PrefetchRead, PrefetchThrows, store, history
  <2>2. Seated' = Seated /\ WsBlocks' = WsBlocks
    BY <2>1 DEF Seated, WsBlocks
  <2>3. QED
    BY <1>4, <2>1, <2>2 DEF MarkedSeated, PlanFits, Planning, OnGpu
<1>13. CASE SpillBegin
  <2>1. /\ UNCHANGED <<total, inWs, tier, gpuSlot, thrown, plan>>
        /\ mode = "fetch" /\ mode' = "spill" /\ todo' = plan.out
    BY <1>13 DEF SpillBegin, store, history
  <2>2. Seated' = Seated /\ WsBlocks' = WsBlocks
    BY <2>1 DEF Seated, WsBlocks
  <2>3. QED
    BY <1>4, <2>1, <2>2 DEF MarkedSeated, PlanFits, Planning, OnGpu
<1>14. ASSUME NEW b \in Blocks,
              StageOutToCpu(b) \/ StageOutToNvme(b) \/ StageOutDropped(b)
       PROVE  MarkedSeated' /\ PlanFits'
  BY <1>s, <1>4, <1>14, StageOutSlots, StageOutFits
<1>15. CASE AdmitBegin
  <2>1. /\ UNCHANGED <<total, inWs, tier, gpuSlot, thrown, plan>>
        /\ mode = "spill" /\ mode' = "admit" /\ todo = {} /\ todo' = plan.in
    BY <1>15 DEF AdmitBegin, store, history
  <2>2. Seated' = Seated /\ WsBlocks' = WsBlocks
    BY <2>1 DEF Seated, WsBlocks
  <2>3. QED
    BY <1>4, <2>1, <2>2 DEF MarkedSeated, PlanFits, Planning, OnGpu
<1>16. ASSUME NEW b \in Blocks, StageInResident(b)
       PROVE  MarkedSeated' /\ PlanFits'
  <2>1. /\ UNCHANGED <<total, inWs, tier, gpuSlot, thrown, plan, mode>>
        /\ mode = "admit" /\ todo' = todo \ {b} /\ OnGpu(b)
    BY <1>16 DEF StageInResident, Admitting, store, history
  <2>2. Seated' = Seated /\ WsBlocks' = WsBlocks
    BY <2>1 DEF Seated, WsBlocks
  <2>3. QED
    BY <1>4, <2>1, <2>2 DEF MarkedSeated, PlanFits, Planning, OnGpu
<1>17. ASSUME NEW b \in Blocks, StageInCold(b)
       PROVE  MarkedSeated' /\ PlanFits'
  BY <1>s, <1>4, <1>17, StageInSlots, StageInFits
<1>18. CASE FinishSelection
  <2>1. /\ mode = "admit" /\ todo = {} /\ mode' = "idle" /\ inWs' = inWs
        /\ thrown' = thrown
    BY <1>18 DEF FinishSelection, history
  <2>2. \A b \in WsBlocks : OnGpu(b)
    BY <1>4, <2>1 DEF MarkedSeated
  <2>3. \A b \in Blocks : OnGpu(b) => OnGpu(b)'
    <3>1. CASE RewriteStagedIn
      BY <3>1 DEF RewriteStagedIn, OnGpu
    <3>2. CASE Relayout
      <4>1. \A b \in Blocks : OnGpu(b) => b \in Seated
        BY <1>s, SlotIsInt
        DEF OnGpu, Seated, SlotInv, UnregisteredUnseated, Registered
      <4>2. \A b \in Seated : gpuSlot'[b] \in GpuSlots /\ tier'[b] = "GPU"
        BY <3>2 DEF Relayout, Seated, Live
      <4>3. QED
        BY <4>1, <4>2, SlotIsInt DEF OnGpu
    <3>3. QED
      BY <1>18, <3>1, <3>2 DEF FinishSelection
  <2>4. QED
    BY <1>1, <2>1, <2>2, <2>3 DEF MarkedSeated, WsBlocks
<1>19. CASE UNCHANGED vars
  <2>1. UNCHANGED <<total, inWs, tier, gpuSlot, thrown, plan, mode, todo>>
    BY <1>19 DEF vars, store, history
  <2>2. Seated' = Seated /\ WsBlocks' = WsBlocks
    BY <2>1 DEF Seated, WsBlocks
  <2>3. QED
    BY <1>4, <2>1, <2>2 DEF MarkedSeated, PlanFits, Planning, OnGpu
<1>20. QED
  BY <1>2, <1>3, <1>5, <1>6, <1>7, <1>8, <1>9, <1>10, <1>11, <1>12, <1>13,
     <1>14, <1>15, <1>16, <1>17, <1>18, <1>19 DEF Next, Request, Progress

\* The inductive invariant: a plan marks at most a budget of blocks, evicts
\* every other block that is on the GPU, and stages in every marked block that
\* is not there.
THEOREM WorkingSetInvariant == Spec => []WorkingSetInv
<1>1. WorkingSetInv /\ [Next]_vars => WorkingSetInv'
  BY SlotInvStep, NextCellsType, NextUnmarked, NextFits DEF WorkingSetInv
<1>2. QED
  BY <1>1, InitWorkingSet, PTL DEF Spec

\* Evicting first makes room: while a plan is admitted the pool holds a slot for
\* each block still to be staged in, so alloc_gpu_slot never answers -1.
THEOREM AdmissionsFit == Spec => []AdmissionFits
<1>1. WorkingSetInv => AdmissionFits
  BY RoomForAll DEF AdmissionFits
<1>2. QED
  BY <1>1, WorkingSetInvariant, PTL

\* Between calls a block marked as in the working set is on the GPU: no plan
\* loses a block it believes to be resident.
THEOREM MarkedBlocksSeated == Spec => []WorkingSetSeated
<1>1. WorkingSetInv => WorkingSetSeated
  BY DEF WorkingSetInv, WorkingSetSeated, MarkedSeated, WsBlocks, Live
<1>2. QED
  BY <1>1, WorkingSetInvariant, PTL

-----------------------------------------------------------------------------
(* The invariants of the lower tiers.                                       *)

\* No slot of a tier holds two blocks.
OneToOne(t) == \A x, y \in Blocks : t.map[x] = t.map[y] /\ t.map[x] # NoSlot => x = y

\* lru_ lists the resident blocks, each once.
LruOrder(t) ==
    /\ \A x, y \in Blocks : <<x, y>> \in t.older => x \in Residents(t) /\ y \in Residents(t)
    /\ \A x \in Blocks : <<x, x>> \notin t.older
    /\ \A x, y, z \in Blocks :
         <<x, y>> \in t.older /\ <<y, z>> \in t.older => <<x, z>> \in t.older
    /\ \A x, y \in Residents(t) : x # y => <<x, y>> \in t.older \/ <<y, x>> \in t.older

TierOK(t) == OneToOne(t) /\ LruOrder(t)

SlotNumbers == CpuSlots \subseteq Nat /\ NvmeSlots \subseteq Nat

\* Only registered blocks have copies, and a plan evicts registered blocks only:
\* otherwise truncation would leave a copy behind, and the next block of that
\* number would find it.
UnregisteredUncopied ==
    \A b \in Blocks : ~Registered(b) => cpuSlot[b] = NoSlot /\ nvmeSlot[b] = NoSlot
OutRegistered ==
    /\ mode \in {"fetch", "spill"} => plan.out \subseteq Live(total)
    /\ mode = "spill" => todo \subseteq Live(total)

\* The bound on writes holds for the batch in progress.
VersionsLeft ==
    plan.kind = "append" /\ mode \in {"fetch", "spill", "admit", "compute"} =>
      \A b \in Incoming(plan.t0, total) : ver[b] < MaxVer

TierParts ==
    /\ cpu \in TierType(CpuSlots) /\ nvme \in TierType(NvmeSlots)
    /\ SlotNumbers /\ TierOK(cpu) /\ TierOK(nvme)
    /\ cpuSlot \in [Blocks -> CpuSlots \cup {NoSlot}]
    /\ nvmeSlot \in [Blocks -> NvmeSlots \cup {NoSlot}]

ByteTypes ==
    /\ ver \in [Blocks -> 0 .. MaxVer]
    /\ gpuMem \in [GpuSlots -> Bytes]
    /\ cells \in [GpuSlots -> Blocks \cup {NoBlock}]
    /\ scratch \in Bytes
    /\ pre \in [Blocks -> [st : {"none", "reading", "ready", "failed"}, bytes : Bytes]]
    /\ faults \in 0 .. MaxFaults
    /\ spilled \in [Blocks -> Bytes]

TiersInv ==
    /\ SlotInv /\ BatchSeated /\ VersionsLeft /\ TierParts /\ ByteTypes
    /\ UnregisteredUncopied /\ OutRegistered

\* At any time, also within a plan.
CpuAgrees  == faults = 0 => cpuSlot = cpu.map
NvmeAgrees == faults = 0 => nvmeSlot = nvme.map

\* A file under a CPU arena has room for the whole history.
FileHoldsAll == CpuOn /\ NvmeOn => MaxBlocks <= Cardinality(NvmeSlots)

\* The CPU copy of a block is its last spill.
CpuCopiesLast ==
    faults = 0 => \A b \in Blocks : cpuSlot[b] >= 0 => cpu.mem[cpuSlot[b]] = spilled[b]

\* A plan over a file that holds everything meets no exception.
NoSurprise ==
    CpuOn /\ faults = 0 =>
      /\ ~thrown
      /\ \A b \in Blocks :
           /\ tier[b] = "SSD" => nvmeSlot[b] >= 0
           /\ mode \in {"fetch", "spill"} => pre[b].st # "failed"
           /\ mode = "fetch" /\ pre[b].st = "reading" => nvmeSlot[b] >= 0

\* The file's copy of a block is its last spill, unless a CPU arena is on and
\* the block is on the GPU or has a CPU copy.
FileCopiesLast ==
    faults = 0 => \A b \in Blocks :
      nvmeSlot[b] >= 0 /\ (CpuOn => ~OnGpu(b) /\ cpuSlot[b] < 0)
        => nvme.mem[nvmeSlot[b]] = spilled[b]

CopiesInv ==
    /\ TiersInv /\ WorkingSetInv /\ FileHoldsAll
    /\ CpuAgrees /\ NvmeAgrees /\ CpuCopiesLast /\ NoSurprise /\ FileCopiesLast

\* Bytes read ahead are still the last spill when they are used, as long as only
\* one tier is on: the plan does not evict the blocks it stages in.
OneTier == ~(CpuOn /\ NvmeOn)
ReadAheadLast ==
    /\ plan.in \cap plan.out = {}
    /\ mode = "spill" => todo \subseteq plan.out
    /\ mode \in {"fetch", "spill"} => \A b \in Blocks : pre[b].st # "none" => b \in plan.in
    /\ faults = 0 /\ mode \in {"fetch", "spill", "admit"} =>
         \A b \in Blocks : pre[b].st = "ready" => pre[b].bytes = spilled[b]

RestoreInv == CopiesInv /\ OneTier /\ ReadAheadLast

-----------------------------------------------------------------------------
(* A tier and its placement.                                                *)

\* The pairs that make b the youngest.
AllBefore(t, b) == {<<x, b>> : x \in Residents(t) \ {b}}

\* Touching a block changes the order of eviction and nothing else.
LEMMA TouchFields ==
    ASSUME NEW S, NEW t \in TierType(S), NEW b \in Blocks
    PROVE  /\ Touch(t, b) \in TierType(S)
           /\ Touch(t, b).map = t.map /\ Touch(t, b).mem = t.mem
           /\ Touch(t, b).older = Without(t.older, {b}) \cup AllBefore(t, b)
<1>1. Without(t.older, {b}) \subseteq Blocks \X Blocks
  BY DEF Without, TierType
<1>2. AllBefore(t, b) \subseteq Blocks \X Blocks
  BY DEF Residents, AllBefore
<1>3. Touch(t, b) = [t EXCEPT !.older = Without(@, {b}) \cup AllBefore(t, b)]
  BY DEF Touch, AllBefore
<1>4. QED
  BY <1>1, <1>2, <1>3 DEF TierType

LEMMA AssignFields ==
    ASSUME NEW S, NEW t \in TierType(S), NEW b \in Blocks, NEW s \in S
    PROVE  /\ Assign(t, b, s) \in TierType(S)
           /\ Assign(t, b, s).map = [t.map EXCEPT ![b] = s]
           /\ Assign(t, b, s).mem = t.mem
           /\ Assign(t, b, s).older = Touch(t, b).older
<1>1. Touch(t, b) \in TierType(S) /\ Touch(t, b).map = t.map /\ Touch(t, b).mem = t.mem
  BY TouchFields
<1> DEFINE u == Touch(t, b)
<1> HIDE DEF u
<1>2. u \in TierType(S)
  BY <1>1 DEF u
<1>3. /\ [u EXCEPT !.map[b] = s] \in TierType(S)
      /\ [u EXCEPT !.map[b] = s].map = [u.map EXCEPT ![b] = s]
      /\ [u EXCEPT !.map[b] = s].mem = u.mem
      /\ [u EXCEPT !.map[b] = s].older = u.older
  BY <1>2 DEF TierType
<1>4. QED
  BY <1>1, <1>3 DEF u, Assign

LEMMA ReleaseFields ==
    ASSUME NEW S, NEW t \in TierType(S), NEW b \in Blocks
    PROVE  /\ Release(t, b) \in TierType(S)
           /\ Release(t, b).map = [t.map EXCEPT ![b] = NoSlot]
           /\ Release(t, b).mem = t.mem
           /\ Release(t, b).older = Without(t.older, {b})
<1>1. Without(t.older, {b}) \subseteq Blocks \X Blocks
  BY DEF Without, TierType
<1>2. QED
  BY <1>1 DEF Release, TierType

LEMMA ReleaseAllFields ==
    ASSUME NEW S, NEW t \in TierType(S), NEW R
    PROVE  /\ ReleaseAll(t, R) \in TierType(S)
           /\ ReleaseAll(t, R).map
                = [b \in Blocks |-> IF b \in R THEN NoSlot ELSE t.map[b]]
           /\ ReleaseAll(t, R).mem = t.mem
           /\ ReleaseAll(t, R).older = Without(t.older, R)
<1>1. Without(t.older, R) \subseteq Blocks \X Blocks
  BY DEF Without, TierType
<1>2. QED
  BY <1>1 DEF ReleaseAll, TierType

\* The block that is touched, resident already or about to be, becomes the
\* youngest in the order.
LEMMA YoungestOrder ==
    ASSUME NEW S, NEW t \in TierType(S), LruOrder(t), NEW b \in Blocks,
           NEW u, u.older = Touch(t, b).older, Residents(u) = Residents(t) \cup {b}
    PROVE  LruOrder(u)
<1>1. \A x, y \in Blocks :
        <<x, y>> \in u.older <=> \/ <<x, y>> \in t.older /\ x # b /\ y # b
                                 \/ y = b /\ x \in Residents(t) /\ x # b
  <2>1. u.older = Without(t.older, {b}) \cup AllBefore(t, b)
    BY TouchFields
  <2>2. \A x, y \in Blocks :
          <<x, y>> \in AllBefore(t, b) <=> y = b /\ x \in Residents(t) /\ x # b
    BY DEF AllBefore
  <2>3. \A x, y \in Blocks :
          <<x, y>> \in Without(t.older, {b}) <=> <<x, y>> \in t.older /\ x # b /\ y # b
    BY DEF Without
  <2>4. QED
    BY <2>1, <2>2, <2>3
<1>2. \A x, y \in Blocks : <<x, y>> \in u.older => x \in Residents(u) /\ y \in Residents(u)
  BY <1>1 DEF LruOrder
<1>3. \A x \in Blocks : <<x, x>> \notin u.older
  BY <1>1 DEF LruOrder
<1>4. \A x, y, z \in Blocks :
        <<x, y>> \in u.older /\ <<y, z>> \in u.older => <<x, z>> \in u.older
  BY <1>1 DEF LruOrder
<1>5. \A x, y \in Residents(u) : x # y => <<x, y>> \in u.older \/ <<y, x>> \in u.older
  BY <1>1 DEF LruOrder, Residents
<1>6. QED
  BY <1>2, <1>3, <1>4, <1>5 DEF LruOrder

\* Releasing blocks keeps the order of the others.
LEMMA FewerOrder ==
    ASSUME NEW t, LruOrder(t), NEW R,
           NEW u, u.older = Without(t.older, R), Residents(u) = Residents(t) \ R
    PROVE  LruOrder(u)
<1>1. \A x, y \in Blocks :
        <<x, y>> \in u.older <=> <<x, y>> \in t.older /\ x \notin R /\ y \notin R
  BY DEF Without
<1>2. QED
  BY <1>1 DEF LruOrder, Residents

LEMMA TouchOK ==
    ASSUME NEW S, NEW t \in TierType(S), TierOK(t), NEW b \in Blocks,
           t.map[b] # NoSlot
    PROVE  Touch(t, b) \in TierType(S) /\ TierOK(Touch(t, b))
<1>0. Touch(t, b) \in TierType(S) /\ Touch(t, b).map = t.map
  BY TouchFields
<1>1. Residents(Touch(t, b)) = Residents(t) \cup {b}
  BY <1>0 DEF Residents
<1>2. OneToOne(Touch(t, b))
  BY <1>0 DEF TierOK, OneToOne
<1>3. LruOrder(Touch(t, b))
  BY <1>1, YoungestOrder DEF TierOK
<1>4. QED
  BY <1>0, <1>2, <1>3 DEF TierOK

LEMMA AssignOK ==
    ASSUME NEW S \in SUBSET Nat, NEW t \in TierType(S), TierOK(t), NEW b \in Blocks,
           NEW s \in S, \A x \in Blocks : t.map[x] # s
    PROVE  TierOK(Assign(t, b, s))
<1> DEFINE u == Assign(t, b, s)
<1>1. u.map = [t.map EXCEPT ![b] = s] /\ u.older = Touch(t, b).older
  BY AssignFields
<1>2. s # NoSlot /\ t.map \in [Blocks -> S \cup {NoSlot}]
  BY DEF NoSlot, TierType
<1> HIDE DEF u
<1>3. Residents(u) = Residents(t) \cup {b}
  BY <1>1, <1>2 DEF Residents
<1>4. OneToOne(u)
  BY <1>1, <1>2 DEF TierOK, OneToOne
<1>5. LruOrder(u)
  BY <1>1, <1>3, YoungestOrder DEF TierOK
<1>6. QED
  BY <1>4, <1>5 DEF TierOK, u

LEMMA ReleaseOK ==
    ASSUME NEW S, NEW t \in TierType(S), TierOK(t), NEW b \in Blocks
    PROVE  TierOK(Release(t, b))
<1> DEFINE u == Release(t, b)
<1>1. t.map \in [Blocks -> S \cup {NoSlot}]
  BY DEF TierType
<1>2. u.map = [t.map EXCEPT ![b] = NoSlot] /\ u.older = Without(t.older, {b})
  BY ReleaseFields
<1> HIDE DEF u
<1>3. Residents(u) = Residents(t) \ {b}
  BY <1>1, <1>2 DEF Residents
<1>4. OneToOne(u)
  BY <1>1, <1>2 DEF TierOK, OneToOne
<1>5. LruOrder(u)
  BY <1>2, <1>3, FewerOrder DEF TierOK
<1>6. QED
  BY <1>4, <1>5 DEF TierOK, u

LEMMA ReleaseAllOK ==
    ASSUME NEW S, NEW t \in TierType(S), TierOK(t), NEW R
    PROVE  TierOK(ReleaseAll(t, R))
<1> DEFINE u == ReleaseAll(t, R)
<1>1. /\ u.map = [b \in Blocks |-> IF b \in R THEN NoSlot ELSE t.map[b]]
      /\ u.older = Without(t.older, R)
  BY ReleaseAllFields
<1> HIDE DEF u
<1>2. Residents(u) = Residents(t) \ R
  BY <1>1 DEF Residents
<1>3. OneToOne(u)
  BY <1>1 DEF TierOK, OneToOne
<1>4. LruOrder(u)
  BY <1>1, <1>2, FewerOrder DEF TierOK
<1>5. QED
  BY <1>3, <1>4 DEF TierOK, u

LEMMA EmptyOK ==
    ASSUME NEW n \in Nat
    PROVE  /\ EmptyTier(n) \in TierType(0 .. n - 1) /\ TierOK(EmptyTier(n))
           /\ DOMAIN EmptyTier(n).mem = 0 .. n - 1
           /\ EmptyTier(n).map = [b \in Blocks |-> NoSlot]
<1>1. EmptyTier(n) \in TierType(0 .. n - 1)
  BY DEF EmptyTier, TierType, Bytes
<1>2. Residents(EmptyTier(n)) = {}
  BY DEF EmptyTier, Residents
<1>3. OneToOne(EmptyTier(n)) /\ LruOrder(EmptyTier(n))
  BY <1>2 DEF EmptyTier, OneToOne, LruOrder
<1>4. QED
  BY <1>1, <1>3 DEF TierOK, EmptyTier

\* Somebody is the least recently used.
LEMMA OldestResides ==
    ASSUME NEW t, LruOrder(t), Residents(t) # {}
    PROVE  Oldest(t) \in Residents(t)
<1> DEFINE Before(v) == {x \in Residents(t) : <<x, v>> \in t.older}
           Counts == {Cardinality(Before(v)) : v \in Residents(t)}
<1>1. \A v \in Residents(t) : Before(v) \in SUBSET Blocks
  BY DEF Residents
<1>2. \A v \in Residents(t) : IsFiniteSet(Before(v)) /\ Cardinality(Before(v)) \in Nat
  BY <1>1, FiniteBlocks
<1>3. Counts \in SUBSET Nat /\ Counts # {}
  BY <1>2
<1>4. PICK v \in Residents(t) :
        \A x \in Residents(t) : Cardinality(Before(v)) <= Cardinality(Before(x))
  <2> HIDE DEF Before
  <2>1. PICK m \in Counts : \A n \in Counts : m <= n
    BY <1>3, MinOfNats
  <2>2. QED
    BY <2>1
<1>5. Before(v) = {}
  <2> SUFFICES ASSUME NEW x \in Before(v) PROVE FALSE
    OBVIOUS
  <2>1. Before(x) \subseteq Before(v) /\ x \notin Before(x)
    BY DEF LruOrder, Residents
  <2>2. x \in Residents(t) /\ Before(x) # Before(v)
    BY <2>1
  <2> HIDE DEF Before
  <2>3. Cardinality(Before(x)) < Cardinality(Before(v))
    BY <1>2, <2>1, <2>2, FS_Subset
  <2>4. QED
    BY <1>2, <1>4, <2>2, <2>3
<1>6. \A x \in Residents(t) \ {v} : <<v, x>> \in t.older
  BY <1>5 DEF LruOrder
<1>7. QED
  BY <1>6 DEF Oldest

\* What a placement does: the block's own slot, a slot nobody has, or the slot
\* of the victim, who loses it.
Placed(t, b, S, p) ==
    /\ p.tier \in TierType(S) /\ TierOK(p.tier) /\ p.slot \in S
    /\ p.tier.mem = t.mem
    /\ \/ /\ t.map[b] = p.slot /\ p.victim = NoBlock
          /\ p.tier.map = t.map
       \/ /\ \A x \in Blocks : t.map[x] # p.slot
          /\ t.map[b] = NoSlot /\ p.victim = NoBlock
          /\ p.tier.map = [t.map EXCEPT ![b] = p.slot]
       \/ /\ p.victim \in Blocks /\ p.victim # b
          /\ t.map[p.victim] = p.slot /\ t.map[b] = NoSlot
          /\ S \subseteq {t.map[x] : x \in Blocks}
          /\ p.tier.map = [t.map EXCEPT ![p.victim] = NoSlot, ![b] = p.slot]

LEMMA PlaceIsPlaced ==
    ASSUME NEW S \in SUBSET Nat, S # {}, NEW t \in TierType(S), TierOK(t),
           NEW b \in Blocks
    PROVE  Placed(t, b, S, Place(t, b, S))
<1> DEFINE unused == S \ {t.map[x] : x \in Blocks}
<1>0. t.map \in [Blocks -> S \cup {NoSlot}] /\ NoSlot \notin S
  BY DEF TierType, NoSlot
<1>1. CASE t.map[b] # NoSlot
  <2>1. Place(t, b, S) = [tier |-> Touch(t, b), slot |-> t.map[b], victim |-> NoBlock]
    BY <1>1 DEF Place
  <2>2. Touch(t, b) \in TierType(S) /\ TierOK(Touch(t, b))
    BY <1>1, TouchOK
  <2>3. Touch(t, b).map = t.map /\ Touch(t, b).mem = t.mem
    BY TouchFields
  <2>4. t.map[b] \in S
    BY <1>0, <1>1
  <2>5. QED
    BY <2>1, <2>2, <2>3, <2>4 DEF Placed
<1>2. CASE t.map[b] = NoSlot /\ unused # {}
  <2> DEFINE s == CHOOSE s \in unused : TRUE
  <2>1. Place(t, b, S) = [tier |-> Assign(t, b, s), slot |-> s, victim |-> NoBlock]
    BY <1>2 DEF Place
  <2>2. s \in S /\ \A x \in Blocks : t.map[x] # s
    BY <1>2
  <2> HIDE DEF s
  <2>3. TierOK(Assign(t, b, s))
    BY <2>2, AssignOK
  <2>4. /\ Assign(t, b, s) \in TierType(S)
        /\ Assign(t, b, s).map = [t.map EXCEPT ![b] = s]
        /\ Assign(t, b, s).mem = t.mem
    BY <2>2, AssignFields
  <2>5. QED
    BY <1>2, <2>1, <2>2, <2>3, <2>4 DEF Placed
<1>3. CASE t.map[b] = NoSlot /\ unused = {}
  <2> DEFINE v == Oldest(t)
             s == t.map[v]
             u == Release(t, v)
  <2>1. Place(t, b, S) = [tier |-> Assign(u, b, s), slot |-> s, victim |-> v]
    BY <1>3 DEF Place
  <2>2. Residents(t) # {}
    BY <1>0, <1>3 DEF Residents
  <2>3. v \in Blocks /\ s # NoSlot /\ s \in S
    BY <1>0, <2>2, OldestResides DEF TierOK, Residents
  <2>4. v # b
    BY <1>3, <2>3
  <2> HIDE DEF v
  <2>5. u \in TierType(S) /\ TierOK(u) /\ u.map = [t.map EXCEPT ![v] = NoSlot]
        /\ u.mem = t.mem
    BY <2>3, ReleaseFields, ReleaseOK
  <2> HIDE DEF u
  <2>6. \A x \in Blocks : u.map[x] # s
    BY <1>0, <2>3, <2>5 DEF TierOK, OneToOne
  <2> HIDE DEF s
  <2>7. TierOK(Assign(u, b, s))
    BY <2>3, <2>5, <2>6, AssignOK
  <2>8. /\ Assign(u, b, s) \in TierType(S)
        /\ Assign(u, b, s).map = [u.map EXCEPT ![b] = s]
        /\ Assign(u, b, s).mem = u.mem
    BY <2>3, <2>5, AssignFields
  <2>9. S \subseteq {t.map[x] : x \in Blocks}
    BY <1>3
  <2>10. QED
    BY <1>0, <1>3, <2>1, <2>3, <2>4, <2>5, <2>7, <2>8, <2>9 DEF Placed, s
<1>4. QED
  BY <1>1, <1>2, <1>3

\* A tier with a slot for every block never evicts.
LEMMA RoomForEveryBlock ==
    ASSUME NEW S \in SUBSET Nat, MaxBlocks <= Cardinality(S),
           NEW t \in TierType(S), NEW b \in Blocks,
           t.map[b] = NoSlot, S \subseteq {t.map[x] : x \in Blocks}
    PROVE  FALSE
<1>1. /\ IsFiniteSet(Blocks) /\ Cardinality(Blocks) = MaxBlocks
  <2>1. IsFiniteSet(Blocks) /\ Cardinality(Blocks)
          = IF 0 > MaxBlocks - 1 THEN 0 ELSE MaxBlocks - 1 - 0 + 1
    <3>1. 0 \in Int /\ MaxBlocks - 1 \in Int
      BY SizesAssumption
    <3>2. QED
      BY <3>1, FS_Interval DEF Blocks
  <2>2. QED
    BY <2>1, SizesAssumption
<1> DEFINE R == Blocks \ {b}
           f == [x \in R |-> t.map[x]]
           T == {t.map[x] : x \in R}
<1>2. IsFiniteSet(R) /\ Cardinality(R) = MaxBlocks - 1
  BY <1>1, FS_RemoveElement
<1>3. S \subseteq T
  BY DEF NoSlot
<1>4. f \in Surjection(R, T)
  BY DEF Surjection
<1>5. IsFiniteSet(T) /\ Cardinality(T) <= Cardinality(R)
  <2> HIDE DEF R, T, f
  <2>1. QED
    BY <1>2, <1>4, FS_Surjection
<1> HIDE DEF T
<1>6. IsFiniteSet(S) /\ Cardinality(S) <= Cardinality(T)
  BY <1>3, <1>5, FS_Subset
<1>7. Cardinality(S) \in Nat /\ Cardinality(T) \in Nat
  BY <1>5, <1>6, FS_CardinalityType
<1>8. QED
  BY <1>2, <1>5, <1>6, <1>7, SizesAssumption

-----------------------------------------------------------------------------
(* Types of the tiers and of bytes.                                         *)

LEMMA NoBlockIsNone == NoBlock \notin Blocks /\ \A b \in Blocks : b # NoBlock
BY SizesAssumption DEF NoBlock, Blocks

LEMMA InitTiers == Init => TiersInv
<1> SUFFICES ASSUME Init PROVE TiersInv
  OBVIOUS
<1>1. PICK a \in Arenas : cpu = EmptyTier(a.cpu) /\ nvme = EmptyTier(a.nvme)
  BY DEF Init
<1>2. a.cpu \in Nat /\ a.nvme \in Nat
  BY SizesAssumption
<1>3. /\ cpu \in TierType(0 .. a.cpu - 1) /\ TierOK(cpu)
      /\ CpuSlots = 0 .. a.cpu - 1
  BY <1>1, <1>2, EmptyOK DEF CpuSlots
<1>4. /\ nvme \in TierType(0 .. a.nvme - 1) /\ TierOK(nvme)
      /\ NvmeSlots = 0 .. a.nvme - 1
  BY <1>1, <1>2, EmptyOK DEF NvmeSlots
<1>5. CpuSlots \subseteq Nat /\ NvmeSlots \subseteq Nat
  BY <1>3, <1>4
<1>6. TierParts
  BY <1>3, <1>4, <1>5 DEF TierParts, SlotNumbers, Init
<1>7. ByteTypes
  BY SizesAssumption DEF Init, ByteTypes, Bytes, Idle
<1>8. UnregisteredUncopied /\ OutRegistered /\ VersionsLeft /\ BatchSeated
  BY DEF Init, UnregisteredUncopied, OutRegistered, VersionsLeft, BatchSeated
<1>9. QED
  BY <1>6, <1>7, <1>8, InitSlots DEF TiersInv

LEMMA TierSlot ==
    ASSUME NEW S \in SUBSET Nat, NEW s \in S \cup {NoSlot}
    PROVE  /\ s >= 0 <=> s \in S
           /\ s < 0 <=> s = NoSlot
           /\ s # NoSlot <=> s \in S
           /\ s \in Int
BY DEF NoSlot

\* The slot a block has in a tier, as the record or the tier says.
LEMMA CopyType ==
    ASSUME TierParts, ByteTypes, NEW b \in Blocks
    PROVE  /\ cpuSlot[b] >= 0 <=> cpuSlot[b] \in CpuSlots
           /\ cpuSlot[b] < 0 <=> cpuSlot[b] = NoSlot
           /\ nvmeSlot[b] >= 0 <=> nvmeSlot[b] \in NvmeSlots
           /\ nvmeSlot[b] < 0 <=> nvmeSlot[b] = NoSlot
           /\ cpu.map[b] # NoSlot <=> cpu.map[b] \in CpuSlots
           /\ nvme.map[b] # NoSlot <=> nvme.map[b] \in NvmeSlots
           /\ \A s \in CpuSlots : cpu.mem[s] \in Bytes
           /\ \A s \in NvmeSlots : nvme.mem[s] \in Bytes
<1>1. /\ cpuSlot[b] \in CpuSlots \cup {NoSlot} /\ nvmeSlot[b] \in NvmeSlots \cup {NoSlot}
      /\ CpuSlots \subseteq Nat /\ NvmeSlots \subseteq Nat
  BY DEF TierParts, SlotNumbers
<1>2. cpu.map[b] \in CpuSlots \cup {NoSlot} /\ nvme.map[b] \in NvmeSlots \cup {NoSlot}
  BY DEF TierParts, TierType
<1>3. /\ cpuSlot[b] >= 0 <=> cpuSlot[b] \in CpuSlots
      /\ cpuSlot[b] < 0 <=> cpuSlot[b] = NoSlot
      /\ nvmeSlot[b] >= 0 <=> nvmeSlot[b] \in NvmeSlots
      /\ nvmeSlot[b] < 0 <=> nvmeSlot[b] = NoSlot
  BY <1>1, TierSlot
<1>4. /\ cpu.map[b] # NoSlot <=> cpu.map[b] \in CpuSlots
      /\ nvme.map[b] # NoSlot <=> nvme.map[b] \in NvmeSlots
  BY <1>1, <1>2, TierSlot
<1>5. /\ \A s \in CpuSlots : cpu.mem[s] \in Bytes
      /\ \A s \in NvmeSlots : nvme.mem[s] \in Bytes
  BY DEF TierParts, TierType
<1>6. QED
  BY <1>3, <1>4, <1>5

LEMMA OutgoingType ==
    ASSUME SlotInv, ByteTypes, NEW b \in Blocks
    PROVE  Outgoing(b) \in Bytes
<1>1. gpuSlot[b] >= 0 => gpuSlot[b] \in GpuSlots
  BY SlotOrNone DEF SlotInv, ControlTypeOK
<1>2. QED
  BY <1>1 DEF Outgoing, ByteTypes

LEMMA SourceType ==
    ASSUME TierParts, ByteTypes, NEW b \in Blocks, ReadsFile(b) => nvme.map[b] # NoSlot
    PROVE  Source(b) \subseteq Bytes /\ (ReadsFile(b) => nvme.mem[nvme.map[b]] \in Bytes)
<1>1. pre[b].bytes \in Bytes
  BY DEF ByteTypes
<1>2. cpuSlot[b] >= 0 => cpu.mem[cpuSlot[b]] \in Bytes
  BY CopyType
<1>3. ReadsFile(b) => nvme.mem[nvme.map[b]] \in Bytes
  BY CopyType
<1>4. QED
  BY <1>1, <1>2, <1>3 DEF Source

\* Bytes written to the slot a placement returns.
LEMMA WriteOK ==
    ASSUME NEW S, NEW t, NEW b, NEW p, Placed(t, b, S, p), NEW d \in Bytes,
           NEW u, u = [p.tier EXCEPT !.mem[p.slot] = d]
    PROVE  /\ u \in TierType(S) /\ TierOK(u)
           /\ u.map = p.tier.map /\ u.mem = [t.mem EXCEPT ![p.slot] = d]
<1>1. p.tier \in TierType(S) /\ p.slot \in S /\ TierOK(p.tier) /\ p.tier.mem = t.mem
  BY DEF Placed
<1>2. /\ u \in TierType(S) /\ u.map = p.tier.map /\ u.older = p.tier.older
      /\ u.mem = [p.tier.mem EXCEPT ![p.slot] = d]
  BY <1>1 DEF TierType
<1>3. TierOK(u)
  BY <1>1, <1>2 DEF TierOK, OneToOne, LruOrder, Residents
<1>4. QED
  BY <1>1, <1>2, <1>3

\* The placements of stage_out.
CpuPlace(b)  == Place(cpu, b, CpuSlots)
DownPlace(b) == Place(nvme, CpuPlace(b).victim, NvmeSlots)
FilePlace(b) == Place(nvme, b, NvmeSlots)

LEMMA CpuPlaced ==
    ASSUME TierParts, CpuOn, NEW b \in Blocks
    PROVE  Placed(cpu, b, CpuSlots, CpuPlace(b))
BY PlaceIsPlaced DEF TierParts, SlotNumbers, CpuOn, CpuPlace

LEMMA FilePlaced ==
    ASSUME TierParts, NvmeOn, NEW b \in Blocks
    PROVE  Placed(nvme, b, NvmeSlots, FilePlace(b))
BY PlaceIsPlaced DEF TierParts, SlotNumbers, NvmeOn, FilePlace

LEMMA DownPlaced ==
    ASSUME TierParts, NvmeOn, NEW b \in Blocks, CpuPlace(b).victim \in Blocks
    PROVE  Placed(nvme, CpuPlace(b).victim, NvmeSlots, DownPlace(b))
BY FilePlaced DEF FilePlace, DownPlace

LEMMA VictimOrNone ==
    ASSUME NEW t, NEW b, NEW S, NEW p, Placed(t, b, S, p)
    PROVE  p.victim \in Blocks \/ p.victim = NoBlock
BY DEF Placed

\* stage_out with a CPU arena.
LEMMA StageOutToCpuSteps ==
    ASSUME NEW b \in Blocks, StageOutToCpu(b)
    PROVE  LET p == CpuPlace(b)
               q == DownPlace(b)
           IN  /\ cpu' = [p.tier EXCEPT !.mem[p.slot] = Outgoing(b)]
               /\ cpuSlot' = [x \in Blocks |->
                                IF x = b THEN p.slot
                                ELSE IF x = p.victim /\ Registered(x) THEN NoSlot
                                ELSE cpuSlot[x]]
               /\ IF p.victim # NoBlock /\ NvmeOn
                  THEN /\ nvme' = [q.tier EXCEPT !.mem[q.slot] = cpu.mem[p.slot]]
                       /\ nvmeSlot' = [SpillBacking(q, p.victim) EXCEPT
                                         ![b] = IF nvmeSlot[b] >= 0 THEN nvmeSlot[b] ELSE @]
                       /\ \A x \in Blocks : tier'[x] = "SSD" => x # b
                       /\ \A x \in Blocks :
                            tier'[x] = "SSD" => \/ tier[x] = "SSD"
                                                \/ SpillBacking(q, p.victim)[x] >= 0
                  ELSE /\ nvme' = nvme
                       /\ nvmeSlot' = [nvmeSlot EXCEPT
                                         ![b] = IF nvmeSlot[b] >= 0 THEN nvmeSlot[b] ELSE @]
                       /\ \A x \in Blocks :
                            tier'[x] = "SSD" => tier[x] = "SSD" \/ nvmeSlot[x] >= 0
<1>1. /\ cpu' = [CpuPlace(b).tier EXCEPT !.mem[CpuPlace(b).slot] = Outgoing(b)]
      /\ cpuSlot' = [x \in Blocks |->
                       IF x = b THEN CpuPlace(b).slot
                       ELSE IF x = CpuPlace(b).victim /\ Registered(x) THEN NoSlot
                       ELSE cpuSlot[x]]
  BY DEF StageOutToCpu, CpuPlace
<1>2. CASE CpuPlace(b).victim # NoBlock /\ NvmeOn
  <2>1. nvme' = SpillTier(DownPlace(b), cpu.mem[CpuPlace(b).slot])
    BY <1>2 DEF StageOutToCpu, CpuPlace, DownPlace
  <2>2. nvmeSlot' = [SpillBacking(DownPlace(b), CpuPlace(b).victim) EXCEPT
                       ![b] = IF nvmeSlot[b] >= 0 THEN nvmeSlot[b] ELSE @]
    BY <1>2 DEF StageOutToCpu, CpuPlace, DownPlace
  <2>3. /\ \A x \in Blocks : tier'[x] = "SSD" => x # b
        /\ \A x \in Blocks :
             tier'[x] = "SSD" => \/ tier[x] = "SSD"
                                 \/ SpillBacking(DownPlace(b), CpuPlace(b).victim)[x] >= 0
    BY <1>2 DEF StageOutToCpu, CpuPlace, DownPlace
  <2>4. QED
    BY <1>1, <1>2, <2>1, <2>2, <2>3 DEF SpillTier
<1>3. CASE ~(CpuPlace(b).victim # NoBlock /\ NvmeOn)
  <2>1. /\ nvme' = nvme
        /\ nvmeSlot' = [nvmeSlot EXCEPT ![b] = IF nvmeSlot[b] >= 0 THEN nvmeSlot[b] ELSE @]
    BY <1>3 DEF StageOutToCpu, CpuPlace
  <2>2. \A x \in Blocks : tier'[x] = "SSD" => tier[x] = "SSD" \/ nvmeSlot[x] >= 0
    BY <1>3 DEF StageOutToCpu, CpuPlace
  <2>3. QED
    BY <1>1, <1>3, <2>1, <2>2
<1>4. QED
  BY <1>2, <1>3

\* What a step must show of the tiers and the records that name their slots.
LEMMA TierPartsKept ==
    ASSUME TierParts,
           cpu' \in TierType(CpuSlots), TierOK(cpu'),
           nvme' \in TierType(NvmeSlots), TierOK(nvme'),
           cpuSlot' \in [Blocks -> CpuSlots \cup {NoSlot}],
           nvmeSlot' \in [Blocks -> NvmeSlots \cup {NoSlot}]
    PROVE  TierParts' /\ CpuSlots' = CpuSlots /\ NvmeSlots' = NvmeSlots
<1>1. CpuSlots' = CpuSlots /\ NvmeSlots' = NvmeSlots
  BY DEF CpuSlots, NvmeSlots, TierType
<1>2. QED
  BY <1>1 DEF TierParts, SlotNumbers

\* Records over a placement in the file.
LEMMA BackingType ==
    ASSUME TierParts, NEW p, NEW v, Placed(nvme, v, NvmeSlots, p), NEW b
    PROVE  /\ EvictBacking(p) \in [Blocks -> NvmeSlots \cup {NoSlot}]
           /\ SpillBacking(p, b) \in [Blocks -> NvmeSlots \cup {NoSlot}]
<1>1. p.slot \in NvmeSlots
  BY DEF Placed
<1>2. QED
  BY <1>1 DEF EvictBacking, SpillBacking, TierParts

\* The steps that leave the tiers, the records that name their slots, and the
\* operations counted as failures alone.
QuietStep ==
    \/ \E k \in 1 .. MaxAppend :
         AppendUnderPressure(k) \/ AppendDirect(k) \/ AppendRefused(k)
    \/ \E S \in SUBSET Blocks : PrepareSelection(S)
    \/ BeginCachedTurn \/ KeepSelected \/ CommitResident
    \/ SpillBegin \/ SpillThrows \/ AdmitBegin
    \/ \E b \in Blocks : StageInResident(b)
    \/ FinishAppend \/ FinishSelection \/ Compute \/ UnwindSelect
    \/ UNCHANGED vars

\* A step is quiet, or one of those below.
LEMMA StepKinds ==
    ASSUME [Next]_vars
    PROVE  \/ QuietStep
           \/ \E p \in 0 .. MaxBlocks * BT : TruncateCached(p)
           \/ Clear \/ UnwindAppend
           \/ \E b \in Blocks : \/ PrefetchRead(b) \/ PrefetchThrows(b)
                                \/ StageOutToCpu(b) \/ VictimSpillThrows(b)
                                \/ StageOutToNvme(b) \/ BlockSpillThrows(b)
                                \/ StageOutDropped(b)
                                \/ StageInCold(b) \/ StageInThrows(b)
<1>1. CASE Request
  BY <1>1 DEF Request, QuietStep
<1>2. CASE Progress
  BY <1>2 DEF Progress, QuietStep
<1>3. CASE UNCHANGED vars
  BY <1>3 DEF QuietStep
<1>4. QED
  BY <1>1, <1>2, <1>3 DEF Next

LEMMA QuietTiers ==
    ASSUME QuietStep
    PROVE  UNCHANGED <<cpu, nvme, cpuSlot, nvmeSlot, scratch, spilled, faults>>
<1> USE DEF store, tiers, history, gpu
<1>1. ASSUME NEW k \in 1 .. MaxAppend,
             AppendUnderPressure(k) \/ AppendDirect(k) \/ AppendRefused(k)
      PROVE  UNCHANGED <<cpu, nvme, cpuSlot, nvmeSlot, scratch, spilled, faults>>
  BY <1>1 DEF AppendUnderPressure, AppendDirect, AppendRefused
<1>2. ASSUME NEW S, PrepareSelection(S)
      PROVE  UNCHANGED <<cpu, nvme, cpuSlot, nvmeSlot, scratch, spilled, faults>>
  BY <1>2 DEF PrepareSelection
<1>3. CASE BeginCachedTurn \/ KeepSelected \/ CommitResident \/ UNCHANGED vars
  BY <1>3 DEF BeginCachedTurn, KeepSelected, CommitResident, vars
<1>4. CASE SpillBegin \/ SpillThrows \/ AdmitBegin
  BY <1>4 DEF SpillBegin, SpillThrows, AdmitBegin
<1>5. ASSUME NEW b, StageInResident(b)
      PROVE  UNCHANGED <<cpu, nvme, cpuSlot, nvmeSlot, scratch, spilled, faults>>
  BY <1>5 DEF StageInResident
<1>6. CASE FinishAppend \/ FinishSelection \/ Compute \/ UnwindSelect
  BY <1>6 DEF FinishAppend, FinishSelection, Compute, UnwindSelect
<1>7. QED
  BY <1>1, <1>2, <1>3, <1>4, <1>5, <1>6 DEF QuietStep

LEMMA TruncateTiers ==
    ASSUME TierParts, NEW p, TruncateRecords(p)
    PROVE  TierParts' /\ CpuSlots' = CpuSlots /\ NvmeSlots' = NvmeSlots
<1> DEFINE R == {b \in Dropped(p) : cpuSlot[b] >= 0}
           Q == {b \in Dropped(p) : nvmeSlot[b] >= 0}
<1>1. cpu' = ReleaseAll(cpu, R) /\ nvme' = ReleaseAll(nvme, Q)
  BY DEF TruncateRecords
<1> HIDE DEF R, Q
<1>2. cpu' \in TierType(CpuSlots) /\ TierOK(cpu')
  BY <1>1, ReleaseAllFields, ReleaseAllOK DEF TierParts
<1>3. nvme' \in TierType(NvmeSlots) /\ TierOK(nvme')
  BY <1>1, ReleaseAllFields, ReleaseAllOK DEF TierParts
<1>4. /\ cpuSlot' \in [Blocks -> CpuSlots \cup {NoSlot}]
      /\ nvmeSlot' \in [Blocks -> NvmeSlots \cup {NoSlot}]
  BY DEF TruncateRecords, Hold, TierParts
<1>5. QED
  BY <1>2, <1>3, <1>4, TierPartsKept

LEMMA NextTierParts ==
    TiersInv /\ [Next]_vars => TierParts' /\ CpuSlots' = CpuSlots /\ NvmeSlots' = NvmeSlots
<1> SUFFICES ASSUME TiersInv, [Next]_vars
             PROVE  TierParts' /\ CpuSlots' = CpuSlots /\ NvmeSlots' = NvmeSlots
  OBVIOUS
<1> DEFINE Goal == TierParts' /\ CpuSlots' = CpuSlots /\ NvmeSlots' = NvmeSlots
<1>0. TierParts /\ SlotInv /\ ByteTypes
  BY DEF TiersInv
<1>a. /\ cpu \in TierType(CpuSlots) /\ TierOK(cpu)
      /\ nvme \in TierType(NvmeSlots) /\ TierOK(nvme)
      /\ cpuSlot \in [Blocks -> CpuSlots \cup {NoSlot}]
      /\ nvmeSlot \in [Blocks -> NvmeSlots \cup {NoSlot}]
  BY <1>0 DEF TierParts
<1>u. ASSUME UNCHANGED <<cpu, nvme, cpuSlot, nvmeSlot>> PROVE Goal
  BY <1>0, <1>a, <1>u, TierPartsKept
<1> HIDE DEF Goal
<1>1. CASE QuietStep
  <2>1. UNCHANGED <<cpu, nvme, cpuSlot, nvmeSlot>>
    BY <1>1, QuietTiers
  <2>2. QED
    BY <2>1, <1>u DEF Goal
<1>2. ASSUME NEW p, TruncateCached(p) PROVE Goal
  BY <1>0, <1>2, TruncateTiers DEF TruncateCached, Goal
<1>3. CASE Clear
  BY <1>0, <1>3, TruncateTiers DEF Clear, Goal
<1>4. CASE UnwindAppend
  BY <1>0, <1>4, TruncateTiers DEF UnwindAppend, Goal
<1>5. ASSUME NEW b \in Blocks, PrefetchRead(b) PROVE Goal
  <2>1. /\ nvme' = Touch(nvme, b) /\ nvme.map[b] # NoSlot
        /\ UNCHANGED <<cpu, cpuSlot, nvmeSlot>>
    BY <1>5 DEF PrefetchRead, store
  <2>2. nvme' \in TierType(NvmeSlots) /\ TierOK(nvme')
    BY <1>a, <2>1, TouchOK
  <2>3. QED
    BY <1>0, <1>a, <2>1, <2>2, TierPartsKept DEF Goal
<1>6. ASSUME NEW b \in Blocks, PrefetchThrows(b) \/ StageInThrows(b) PROVE Goal
  BY <1>6, <1>u DEF PrefetchThrows, StageInThrows, store, tiers
<1>7. ASSUME NEW b \in Blocks, StageOutToCpu(b) PROVE Goal
  <2> DEFINE p == CpuPlace(b)
             q == DownPlace(b)
  <2>1. Placed(cpu, b, CpuSlots, p)
    BY <1>0, <1>7, CpuPlaced DEF StageOutToCpu
  <2>2. p.slot \in CpuSlots /\ (p.victim \in Blocks \/ p.victim = NoBlock)
    BY <2>1, VictimOrNone DEF Placed
  <2>3. cpu' \in TierType(CpuSlots) /\ TierOK(cpu')
    <3>1. cpu' = [p.tier EXCEPT !.mem[p.slot] = Outgoing(b)]
      BY <1>7, StageOutToCpuSteps
    <3>2. Outgoing(b) \in Bytes
      BY <1>0, OutgoingType
    <3> HIDE DEF p
    <3>3. QED
      BY <2>1, <3>1, <3>2, WriteOK
  <2>4. cpuSlot' \in [Blocks -> CpuSlots \cup {NoSlot}]
    BY <1>a, <1>7, <2>2, StageOutToCpuSteps
  <2>5. CASE p.victim # NoBlock /\ NvmeOn
    <3>1. Placed(nvme, p.victim, NvmeSlots, q)
      BY <1>0, <2>2, <2>5, DownPlaced
    <3>2. cpu.mem[p.slot] \in Bytes
      BY <1>a, <2>2 DEF TierType
    <3>3. nvme' = [q.tier EXCEPT !.mem[q.slot] = cpu.mem[p.slot]]
      BY <1>7, <2>5, StageOutToCpuSteps
    <3>4. nvme' \in TierType(NvmeSlots) /\ TierOK(nvme')
      <4> DEFINE d == cpu.mem[p.slot]
      <4> HIDE DEF p, q, d
      <4>1. d \in Bytes /\ nvme' = [q.tier EXCEPT !.mem[q.slot] = d]
        BY <3>2, <3>3 DEF d
      <4>2. QED
        BY <3>1, <4>1, WriteOK
    <3>5. nvmeSlot' = [SpillBacking(q, p.victim) EXCEPT
                         ![b] = IF nvmeSlot[b] >= 0 THEN nvmeSlot[b] ELSE @]
      BY <1>7, <2>5, StageOutToCpuSteps
    <3>6. SpillBacking(q, p.victim) \in [Blocks -> NvmeSlots \cup {NoSlot}]
      BY <1>0, <3>1, BackingType
    <3> HIDE DEF p, q
    <3>7. nvmeSlot' \in [Blocks -> NvmeSlots \cup {NoSlot}]
      BY <1>a, <3>5, <3>6
    <3>8. QED
      BY <1>0, <2>3, <2>4, <3>4, <3>7, TierPartsKept DEF Goal
  <2>6. CASE ~(p.victim # NoBlock /\ NvmeOn)
    <3>1. nvme' = nvme /\ nvmeSlot' = [nvmeSlot EXCEPT
                            ![b] = IF nvmeSlot[b] >= 0 THEN nvmeSlot[b] ELSE @]
      BY <1>7, <2>6, StageOutToCpuSteps
    <3>2. nvmeSlot' = nvmeSlot
      BY <1>a, <3>1
    <3>3. QED
      BY <1>0, <1>a, <2>3, <2>4, <3>1, <3>2, TierPartsKept DEF Goal
  <2>7. QED
    BY <2>5, <2>6
<1>8. ASSUME NEW b \in Blocks, VictimSpillThrows(b) PROVE Goal
  <2> DEFINE p == CpuPlace(b)
             q == DownPlace(b)
  <2>1. /\ CpuOn /\ NvmeOn /\ p.victim # NoBlock /\ cpu' = p.tier
        /\ nvme' = [q.tier EXCEPT !.mem[q.slot] = Junk]
        /\ nvmeSlot' = EvictBacking(q) /\ cpuSlot' = cpuSlot
    BY <1>8 DEF VictimSpillThrows, CpuPlace, DownPlace, SpillTier
  <2>2. Placed(cpu, b, CpuSlots, p)
    BY <1>0, <2>1, CpuPlaced
  <2>3. Placed(nvme, p.victim, NvmeSlots, q)
    BY <1>0, <2>1, <2>2, DownPlaced, VictimOrNone
  <2>4. Junk \in Bytes
    BY DEF Bytes
  <2>5. cpu' \in TierType(CpuSlots) /\ TierOK(cpu')
    BY <2>1, <2>2 DEF Placed
  <2>6. nvme' \in TierType(NvmeSlots) /\ TierOK(nvme')
    BY <2>1, <2>3, <2>4, WriteOK
  <2>7. nvmeSlot' \in [Blocks -> NvmeSlots \cup {NoSlot}]
    BY <1>0, <2>1, <2>3, BackingType
  <2>8. QED
    BY <1>0, <1>a, <2>1, <2>5, <2>6, <2>7, TierPartsKept DEF Goal
<1>9. ASSUME NEW b \in Blocks, StageOutToNvme(b) \/ BlockSpillThrows(b) PROVE Goal
  <2> DEFINE q == FilePlace(b)
  <2>1. NvmeOn /\ cpu' = cpu
    BY <1>9 DEF StageOutToNvme, BlockSpillThrows
  <2>2. Placed(nvme, b, NvmeSlots, q)
    BY <1>0, <2>1, FilePlaced
  <2>3. PICK d \in Bytes : nvme' = [q.tier EXCEPT !.mem[q.slot] = d]
    <3>1. Junk \in Bytes /\ Outgoing(b) \in Bytes
      BY <1>0, OutgoingType DEF Bytes
    <3>2. QED
      BY <1>9, <3>1 DEF StageOutToNvme, BlockSpillThrows, SpillTier, FilePlace
  <2>4. nvmeSlot' = SpillBacking(q, b) \/ nvmeSlot' = EvictBacking(q)
    BY <1>9 DEF StageOutToNvme, BlockSpillThrows, FilePlace
  <2>5. cpuSlot' \in [Blocks -> CpuSlots \cup {NoSlot}]
    BY <1>a, <1>9 DEF StageOutToNvme, BlockSpillThrows
  <2> HIDE DEF q
  <2>6. nvme' \in TierType(NvmeSlots) /\ TierOK(nvme')
    BY <2>2, <2>3, WriteOK
  <2>7. nvmeSlot' \in [Blocks -> NvmeSlots \cup {NoSlot}]
    BY <1>0, <2>2, <2>4, BackingType
  <2>8. QED
    BY <1>0, <1>a, <2>1, <2>5, <2>6, <2>7, TierPartsKept DEF Goal
<1>10. ASSUME NEW b \in Blocks, StageOutDropped(b) PROVE Goal
  <2>1. UNCHANGED <<cpu, nvme, nvmeSlot>> /\ cpuSlot' = [cpuSlot EXCEPT ![b] = NoSlot]
    BY <1>10 DEF StageOutDropped, tiers
  <2>2. QED
    BY <1>0, <1>a, <2>1, TierPartsKept DEF Goal
<1>11. ASSUME NEW b \in Blocks, StageInCold(b) PROVE Goal
  <2>1. /\ cpu' = IF cpuSlot[b] >= 0 THEN Release(cpu, b) ELSE cpu
        /\ cpuSlot' = [cpuSlot EXCEPT ![b] = NoSlot] /\ nvmeSlot' = nvmeSlot
        /\ nvme' = IF ReadsFile(b) THEN Touch(nvme, b) ELSE nvme
        /\ ReadsFile(b) => nvme.map[b] # NoSlot
    BY <1>11 DEF StageInCold
  <2>2. cpu' \in TierType(CpuSlots) /\ TierOK(cpu')
    BY <1>a, <2>1, ReleaseFields, ReleaseOK
  <2>3. nvme' \in TierType(NvmeSlots) /\ TierOK(nvme')
    BY <1>a, <2>1, TouchOK
  <2>4. QED
    BY <1>0, <1>a, <2>1, <2>2, <2>3, TierPartsKept DEF Goal
<1>12. QED
  BY <1>1, <1>2, <1>3, <1>4, <1>5, <1>6, <1>7, <1>8, <1>9, <1>10, <1>11, StepKinds
  DEF Goal

-----------------------------------------------------------------------------
(* Types of bytes and the registration of copies.                           *)

LEMMA ReadAheadType ==
    ASSUME NEW S, NEW t, NEW kind, SetSelection(S, t, kind)
    PROVE  pre' \in [Blocks -> [st : {"none", "reading", "ready", "failed"}, bytes : Bytes]]
BY DEF SetSelection, Idle, Bytes

LEMMA NextByteTypes == TiersInv /\ [Next]_vars => ByteTypes'
<1> SUFFICES ASSUME TiersInv, [Next]_vars PROVE ByteTypes'
  OBVIOUS
<1>0. TierParts /\ SlotInv /\ ByteTypes /\ BatchSeated /\ VersionsLeft
  BY DEF TiersInv
<1>a. /\ ver \in [Blocks -> 0 .. MaxVer]
      /\ gpuMem \in [GpuSlots -> Bytes]
      /\ cells \in [GpuSlots -> Blocks \cup {NoBlock}]
      /\ scratch \in Bytes
      /\ pre \in [Blocks -> [st : {"none", "reading", "ready", "failed"}, bytes : Bytes]]
      /\ faults \in 0 .. MaxFaults
      /\ spilled \in [Blocks -> Bytes]
  BY <1>0 DEF ByteTypes
<1>b. /\ [b \in Blocks |-> Idle]
           \in [Blocks -> [st : {"none", "reading", "ready", "failed"}, bytes : Bytes]]
      /\ Junk \in Bytes
  BY DEF Idle, Bytes
<1>c. ASSUME UNCHANGED <<gpuMem, cells, spilled>>, scratch' \in Bytes,
             faults' = faults \/ (faults < MaxFaults /\ faults' = faults + 1),
             ver' = ver,
             pre' \in [Blocks -> [st : {"none", "reading", "ready", "failed"},
                                  bytes : Bytes]]
      PROVE  ByteTypes'
  BY <1>a, <1>c, SizesAssumption DEF ByteTypes
<1> USE DEF history, gpu, tiers
<1>1. ASSUME NEW k \in 1 .. MaxAppend,
             AppendUnderPressure(k) \/ AppendDirect(k) \/ AppendRefused(k)
      PROVE  ByteTypes'
  <2>1. pre' \in [Blocks -> [st : {"none", "reading", "ready", "failed"}, bytes : Bytes]]
    BY <1>1, <1>a, <1>b, ReadAheadType DEF AppendUnderPressure, AppendDirect, AppendRefused
  <2>2. UNCHANGED <<ver, gpuMem, cells, spilled, scratch, faults>>
    BY <1>1 DEF AppendUnderPressure, AppendDirect, AppendRefused
  <2>3. QED
    BY <1>a, <2>1, <2>2 DEF ByteTypes
<1>2. ASSUME NEW S, PrepareSelection(S) PROVE ByteTypes'
  <2>1. pre' \in [Blocks -> [st : {"none", "reading", "ready", "failed"}, bytes : Bytes]]
    BY <1>2, ReadAheadType DEF PrepareSelection
  <2>2. UNCHANGED <<ver, gpuMem, cells, spilled, scratch, faults>>
    BY <1>2 DEF PrepareSelection
  <2>3. QED
    BY <1>a, <2>1, <2>2 DEF ByteTypes
<1>3. CASE \/ BeginCachedTurn \/ KeepSelected \/ CommitResident \/ SpillBegin
           \/ SpillThrows \/ UnwindSelect \/ UNCHANGED vars
  <2>1. UNCHANGED <<ver, gpuMem, cells, spilled, scratch, faults, pre>>
    BY <1>3 DEF BeginCachedTurn, KeepSelected, CommitResident, SpillBegin,
       SpillThrows, UnwindSelect, vars
  <2>2. QED
    BY <1>a, <2>1 DEF ByteTypes
<1>4. CASE AdmitBegin
  <2>1. /\ UNCHANGED <<ver, gpuMem, spilled, scratch, faults, pre>>
        /\ cells' = [s \in GpuSlots |-> IF cells[s] \in plan.out THEN NoBlock ELSE cells[s]]
    BY <1>4 DEF AdmitBegin
  <2>2. QED
    BY <1>a, <2>1 DEF ByteTypes
<1>5. ASSUME NEW b, StageInResident(b) PROVE ByteTypes'
  <2>1. UNCHANGED <<ver, gpuMem, cells, spilled, scratch, faults, pre>>
    BY <1>5 DEF StageInResident
  <2>2. QED
    BY <1>a, <2>1 DEF ByteTypes
<1>6. CASE FinishAppend
  <2>1. UNCHANGED <<ver, gpuMem, cells, spilled, scratch, faults>>
        /\ pre' = [b \in Blocks |-> Idle]
    BY <1>6 DEF FinishAppend
  <2>2. QED
    BY <1>a, <1>b, <2>1 DEF ByteTypes
<1>7. CASE FinishSelection
  <2>1. UNCHANGED <<ver, spilled, scratch, faults>> /\ pre' = [b \in Blocks |-> Idle]
    BY <1>7 DEF FinishSelection
  <2>2. \A b \in Blocks : FromRaw(b) \in Bytes
    BY <1>a DEF FromRaw, Bytes
  <2>3. CASE RewriteStagedIn
    <3>1. plan.in \subseteq Blocks
      BY <1>0 DEF SlotInv, ControlTypeOK
    <3>2. gpuMem' \in [GpuSlots -> Bytes]
      BY <1>a, <2>2, <2>3, <3>1 DEF RewriteStagedIn
    <3>3. cells' \in [GpuSlots -> Blocks \cup {NoBlock}]
      BY <1>a, <2>3, <3>1 DEF RewriteStagedIn
    <3>4. QED
      BY <1>a, <1>b, <2>1, <3>2, <3>3 DEF ByteTypes
  <2>4. CASE Relayout
    <3>1. Seated \subseteq Blocks
      BY DEF Seated, Live
    <3>2. \A b \in Seated : gpuSlot[b] \in GpuSlots
      BY <1>0, <3>1, SlotOrNone DEF SlotInv, ControlTypeOK, Seated
    <3>3. \A b \in Seated : gpuMem[gpuSlot[b]] \in Bytes /\ FromRaw(b) \in Bytes
      BY <1>a, <2>2, <3>1, <3>2
    <3>4. gpuMem' \in [GpuSlots -> Bytes]
      BY <1>a, <2>4, <3>3 DEF Relayout
    <3>5. cells' \in [GpuSlots -> Blocks \cup {NoBlock}]
      BY <1>a, <2>4, <3>1 DEF Relayout
    <3>6. QED
      BY <1>a, <1>b, <2>1, <3>4, <3>5 DEF ByteTypes
  <2>5. QED
    BY <1>7, <2>3, <2>4 DEF FinishSelection
<1>8. CASE Compute
  <2>1. UNCHANGED <<spilled, scratch, faults, pre>>
    BY <1>8 DEF Compute
  <2>2. \A b \in Incoming(plan.t0, total) : b \in Blocks /\ ver[b] < MaxVer
    BY <1>0, <1>8 DEF Compute, BatchSeated, VersionsLeft, Incoming, Live
  <2>3. ver' \in [Blocks -> 0 .. MaxVer]
    BY <1>a, <1>8, <2>2, SizesAssumption DEF Compute
  <2>4. \A b \in Incoming(plan.t0, total) : <<b, ver[b] + 1>> \in Bytes
    BY <1>a, <2>2, SizesAssumption DEF Bytes
  <2>5. gpuMem' \in [GpuSlots -> Bytes]
    BY <1>a, <1>b, <1>8, <2>4 DEF Compute
  <2>6. cells' \in [GpuSlots -> Blocks \cup {NoBlock}]
    BY <1>a, <1>8, <2>2 DEF Compute
  <2>7. QED
    BY <1>a, <2>1, <2>3, <2>5, <2>6 DEF ByteTypes
<1>9. ASSUME NEW p, TruncateRecords(p) PROVE pre' = [b \in Blocks |-> Idle]
  BY <1>9 DEF TruncateRecords
<1>10. ASSUME NEW p, TruncateCached(p) PROVE ByteTypes'
  <2>1. /\ UNCHANGED <<ver, gpuMem, spilled, scratch, faults>> /\ pre' = [b \in Blocks |-> Idle]
        /\ cells' = [s \in GpuSlots |-> IF cells[s] \in Dropped(p) THEN NoBlock ELSE cells[s]]
    BY <1>9, <1>10 DEF TruncateCached
  <2>2. QED
    BY <1>a, <1>b, <2>1 DEF ByteTypes
<1>11. CASE Clear
  <2>1. /\ UNCHANGED <<ver, gpuMem, spilled, scratch, faults>> /\ pre' = [b \in Blocks |-> Idle]
        /\ cells' = [s \in GpuSlots |-> NoBlock]
    BY <1>9, <1>11 DEF Clear
  <2>2. QED
    BY <1>a, <1>b, <2>1 DEF ByteTypes
<1>12. CASE UnwindAppend
  <2>1. /\ UNCHANGED <<ver, gpuMem, cells, spilled, scratch, faults>>
        /\ pre' = [b \in Blocks |-> Idle]
    BY <1>9, <1>12 DEF UnwindAppend
  <2>2. QED
    BY <1>a, <1>b, <2>1 DEF ByteTypes
<1>13. ASSUME NEW b \in Blocks, PrefetchRead(b) PROVE ByteTypes'
  <2>1. nvme.mem[nvme.map[b]] \in Bytes
    BY <1>0, <1>13, CopyType DEF PrefetchRead
  <2>2. pre' \in [Blocks -> [st : {"none", "reading", "ready", "failed"}, bytes : Bytes]]
    BY <1>a, <1>13, <2>1 DEF PrefetchRead
  <2>3. QED
    BY <1>a, <1>c, <1>13, <2>2 DEF PrefetchRead
<1>14. ASSUME NEW b \in Blocks, PrefetchThrows(b) PROVE ByteTypes'
  <2>1. pre' \in [Blocks -> [st : {"none", "reading", "ready", "failed"}, bytes : Bytes]]
    BY <1>a, <1>14 DEF PrefetchThrows
  <2>2. QED
    BY <1>a, <1>c, <1>14, <2>1 DEF PrefetchThrows
<1>15. ASSUME NEW b \in Blocks, StageOutToCpu(b) \/ StageOutToNvme(b) \/ StageOutDropped(b)
       PROVE  ByteTypes'
  <2>1. Outgoing(b) \in Bytes
    BY <1>0, OutgoingType
  <2>2. /\ UNCHANGED <<ver, gpuMem, cells, faults, pre>>
        /\ spilled' = [spilled EXCEPT ![b] = Outgoing(b)]
        /\ scratch' = Outgoing(b) \/ scratch' = scratch
    BY <1>15 DEF StageOutToCpu, StageOutToNvme, StageOutDropped, Unseat
  <2>3. QED
    BY <1>a, <2>1, <2>2 DEF ByteTypes
<1>16. ASSUME NEW b \in Blocks, VictimSpillThrows(b) \/ BlockSpillThrows(b)
       PROVE  ByteTypes'
  <2>1. Outgoing(b) \in Bytes
    BY <1>0, OutgoingType
  <2>2. /\ UNCHANGED <<ver, gpuMem, cells, pre, spilled>> /\ scratch' = Outgoing(b)
        /\ faults < MaxFaults /\ faults' = faults + 1
    BY <1>16 DEF VictimSpillThrows, BlockSpillThrows
  <2>3. QED
    BY <1>a, <1>c, <2>1, <2>2
<1>17. ASSUME NEW b \in Blocks, StageInCold(b) PROVE ByteTypes'
  <2>1. ReadsFile(b) => nvme.map[b] # NoSlot
    BY <1>17 DEF StageInCold
  <2>2. Source(b) \subseteq Bytes /\ (ReadsFile(b) => nvme.mem[nvme.map[b]] \in Bytes)
    BY <1>0, <2>1, SourceType
  <2>3. gpuMem' \in [GpuSlots -> Bytes]
    BY <1>a, <1>17, <2>2 DEF StageInCold
  <2>4. scratch' \in Bytes
    BY <1>a, <1>17, <2>2 DEF StageInCold
  <2>5. UNCHANGED <<ver, cells, faults, pre, spilled>>
    BY <1>17 DEF StageInCold
  <2>6. QED
    BY <1>a, <2>3, <2>4, <2>5 DEF ByteTypes
<1>18. ASSUME NEW b \in Blocks, StageInThrows(b) PROVE ByteTypes'
  BY <1>a, <1>c, <1>18 DEF StageInThrows
<1>19. QED
  BY <1>1, <1>2, <1>3, <1>4, <1>5, <1>6, <1>7, <1>8, <1>10, <1>11, <1>12, <1>13,
     <1>14, <1>15, <1>16, <1>17, <1>18 DEF Next, Request, Progress

\* A batch is accepted while each of its blocks may be written once more.
LEMMA NextVersions == TiersInv /\ [Next]_vars => VersionsLeft'
<1> SUFFICES ASSUME TiersInv, [Next]_vars PROVE VersionsLeft'
  OBVIOUS
<1>0. VersionsLeft
  BY DEF TiersInv
<1>a. ASSUME mode' \in {"idle", "unwind"} PROVE VersionsLeft'
  BY <1>a DEF VersionsLeft
<1>b. ASSUME UNCHANGED <<plan, total, ver>>, mode \in {"fetch", "spill", "admit", "compute"}
      PROVE  VersionsLeft'
  BY <1>0, <1>b DEF VersionsLeft
<1> USE DEF Throw, Spilling, Admitting
<1>1. ASSUME NEW k \in 1 .. MaxAppend, AppendUnderPressure(k) \/ AppendDirect(k)
      PROVE  VersionsLeft'
  <2>1. /\ \A b \in Incoming(total, total + k) : ver[b] < MaxVer
        /\ ver' = ver /\ total' = total + k /\ plan'.t0 = total
    <3>1. CASE AppendUnderPressure(k)
      BY <3>1 DEF AppendUnderPressure, MayAppend, SetSelection
    <3>2. CASE AppendDirect(k)
      BY <3>2 DEF AppendDirect, MayAppend, NoPlan
    <3>3. QED
      BY <1>1, <3>1, <3>2
  <2>2. QED
    BY <2>1 DEF VersionsLeft
<1>2. ASSUME NEW k \in 1 .. MaxAppend, AppendRefused(k) PROVE VersionsLeft'
  BY <1>2, <1>a DEF AppendRefused, MayAppend
<1>3. ASSUME NEW S, PrepareSelection(S) PROVE VersionsLeft'
  BY <1>3 DEF PrepareSelection, SetSelection, VersionsLeft
<1>4. ASSUME NEW p, TruncateCached(p) PROVE VersionsLeft'
  BY <1>4, <1>a DEF TruncateCached
<1>5. CASE \/ Clear \/ BeginCachedTurn \/ KeepSelected \/ CommitResident
           \/ UnwindAppend \/ UnwindSelect \/ Compute \/ FinishSelection
           \/ SpillThrows
  BY <1>5, <1>a
  DEF Clear, BeginCachedTurn, KeepSelected, CommitResident, UnwindAppend,
      UnwindSelect, Compute, FinishSelection, SpillThrows
<1>6. ASSUME NEW b, VictimSpillThrows(b) \/ BlockSpillThrows(b) \/ StageInThrows(b)
      PROVE  VersionsLeft'
  BY <1>6, <1>a DEF VictimSpillThrows, BlockSpillThrows, StageInThrows
<1>7. ASSUME NEW b, \/ PrefetchRead(b) \/ PrefetchThrows(b) \/ StageOutToCpu(b)
                    \/ StageOutToNvme(b) \/ StageOutDropped(b)
                    \/ StageInResident(b) \/ StageInCold(b)
      PROVE  VersionsLeft'
  BY <1>7, <1>b
  DEF PrefetchRead, PrefetchThrows, StageOutToCpu, StageOutToNvme,
      StageOutDropped, StageInResident, StageInCold
<1>8. CASE SpillBegin \/ AdmitBegin \/ FinishAppend
  BY <1>8, <1>b DEF SpillBegin, AdmitBegin, FinishAppend
<1>9. CASE UNCHANGED vars
  BY <1>0, <1>9 DEF vars, VersionsLeft
<1>10. QED
  BY <1>1, <1>2, <1>3, <1>4, <1>5, <1>6, <1>7, <1>8, <1>9 DEF Next, Request, Progress

\* A plan evicts blocks that are registered when it is made; none is truncated
\* while it runs.
LEMMA NextOut == TiersInv /\ [Next]_vars => OutRegistered'
<1> SUFFICES ASSUME TiersInv, [Next]_vars PROVE OutRegistered'
  OBVIOUS
<1>0. OutRegistered
  BY DEF TiersInv
<1>a. ASSUME mode' \in {"idle", "unwind", "compute", "admit"} PROVE OutRegistered'
  BY <1>a DEF OutRegistered
<1> USE DEF Throw, Spilling, Admitting
<1>1. ASSUME NEW S, NEW t, NEW kind, SetSelection(S, t, kind), total' = t
      PROVE  OutRegistered'
  <2>1. mode' = "fetch" /\ plan'.out = PlanOut(S, t)
    BY <1>1 DEF SetSelection
  <2>2. QED
    BY <1>1, <2>1 DEF OutRegistered, PlanOut
<1>2. ASSUME NEW k \in 1 .. MaxAppend, AppendUnderPressure(k) PROVE OutRegistered'
  BY <1>1, <1>2 DEF AppendUnderPressure
<1>3. ASSUME NEW k \in 1 .. MaxAppend, AppendDirect(k) \/ AppendRefused(k)
      PROVE  OutRegistered'
  BY <1>3, <1>a DEF AppendDirect, AppendRefused, MayAppend
<1>4. ASSUME NEW S, PrepareSelection(S) PROVE OutRegistered'
  BY <1>1, <1>4 DEF PrepareSelection
<1>5. ASSUME NEW p, TruncateCached(p) PROVE OutRegistered'
  BY <1>5, <1>a DEF TruncateCached
<1>6. CASE \/ Clear \/ BeginCachedTurn \/ KeepSelected \/ CommitResident
           \/ UnwindAppend \/ UnwindSelect \/ Compute \/ FinishSelection
           \/ SpillThrows \/ AdmitBegin \/ FinishAppend
  BY <1>6, <1>a
  DEF Clear, BeginCachedTurn, KeepSelected, CommitResident, UnwindAppend, FinishAppend,
      UnwindSelect, Compute, FinishSelection, SpillThrows, AdmitBegin
<1>7. ASSUME NEW b, \/ VictimSpillThrows(b) \/ BlockSpillThrows(b) \/ StageInThrows(b)
                    \/ StageInResident(b) \/ StageInCold(b)
      PROVE  OutRegistered'
  BY <1>7, <1>a
  DEF VictimSpillThrows, BlockSpillThrows, StageInThrows, StageInResident, StageInCold
<1>8. ASSUME NEW b, \/ PrefetchRead(b) \/ PrefetchThrows(b)
      PROVE  OutRegistered'
  BY <1>0, <1>8 DEF PrefetchRead, PrefetchThrows, OutRegistered
<1>9. ASSUME NEW b, StageOutToCpu(b) \/ StageOutToNvme(b) \/ StageOutDropped(b)
      PROVE  OutRegistered'
  <2>1. UNCHANGED <<plan, total, mode>> /\ todo' \subseteq todo
    BY <1>9 DEF StageOutToCpu, StageOutToNvme, StageOutDropped, Unseat
  <2>2. QED
    BY <1>0, <2>1 DEF OutRegistered
<1>10. CASE SpillBegin
  BY <1>0, <1>10 DEF SpillBegin, OutRegistered
<1>11. CASE UNCHANGED vars
  BY <1>0, <1>11 DEF vars, OutRegistered
<1>12. QED
  BY <1>2, <1>3, <1>4, <1>5, <1>6, <1>7, <1>8, <1>9, <1>10, <1>11 DEF Next, Request, Progress

\* The block that is staged out is registered.
LEMMA OutgoingRegistered ==
    ASSUME OutRegistered, NEW b, Spilling(b)
    PROVE  Registered(b) /\ b \in todo /\ mode = "spill"
BY DEF OutRegistered, Spilling, First, Registered

\* The records a truncation leaves.
LEMMA TruncateUncopied ==
    ASSUME SlotInv, UnregisteredUncopied, NEW p \in 0 .. MaxBlocks * BT, TruncateRecords(p)
    PROVE  UnregisteredUncopied'
<1>1. total \in Nat /\ p \in Nat
  BY BoundIsNat DEF SlotInv, ControlTypeOK
<1>2. Live(total') = Live(total) \ Dropped(p)
  BY <1>1, LiveTruncated DEF TruncateRecords
<1>3. QED
  BY <1>2 DEF TruncateRecords, Hold, UnregisteredUncopied, Registered

LEMMA NextUncopied == TiersInv /\ [Next]_vars => UnregisteredUncopied'
<1> SUFFICES ASSUME TiersInv, [Next]_vars PROVE UnregisteredUncopied'
  OBVIOUS
<1>0. TierParts /\ SlotInv /\ ByteTypes /\ UnregisteredUncopied /\ OutRegistered
  BY DEF TiersInv
<1>t. total \in Nat
  BY <1>0, BoundIsNat DEF SlotInv, ControlTypeOK
<1>n. NoSlot < 0 /\ ~(NoSlot >= 0)
  BY DEF NoSlot
<1>a. ASSUME Live(total) \subseteq Live(total'),
             \A b \in Blocks : ~Registered(b) => \/ cpuSlot'[b] = cpuSlot[b]
                                                 \/ cpuSlot'[b] = NoSlot,
             \A b \in Blocks : ~Registered(b) => \/ nvmeSlot'[b] = nvmeSlot[b]
                                                 \/ nvmeSlot'[b] = NoSlot
      PROVE  UnregisteredUncopied'
  BY <1>0, <1>a DEF UnregisteredUncopied, Registered
<1> USE DEF store, tiers
<1>1. ASSUME NEW k \in 1 .. MaxAppend, AppendUnderPressure(k) \/ AppendDirect(k)
      PROVE  UnregisteredUncopied'
  <2>1. /\ total' = total + k /\ UNCHANGED <<cpuSlot, nvmeSlot>>
    BY <1>1 DEF AppendUnderPressure, AppendDirect
  <2>2. Live(total) \subseteq Live(total')
    BY <1>t, <2>1, LiveGrows, SizesAssumption
  <2>3. QED
    BY <1>a, <2>1, <2>2
<1>2. ASSUME NEW k \in 1 .. MaxAppend, AppendRefused(k) PROVE UnregisteredUncopied'
  BY <1>2, <1>a DEF AppendRefused
<1>3. ASSUME NEW S, PrepareSelection(S) PROVE UnregisteredUncopied'
  BY <1>3, <1>a DEF PrepareSelection
<1>4. ASSUME NEW p \in 0 .. MaxBlocks * BT, TruncateCached(p) PROVE UnregisteredUncopied'
  BY <1>0, <1>4, TruncateUncopied DEF TruncateCached
<1>5. CASE Clear
  <2>1. 0 \in 0 .. MaxBlocks * BT
    BY BoundIsNat
  <2>2. QED
    BY <1>0, <1>5, <2>1, TruncateUncopied DEF Clear
<1>6. CASE UnwindAppend
  <2>1. plan.t0 \in 0 .. MaxBlocks * BT
    BY <1>0 DEF SlotInv, ControlTypeOK
  <2>2. QED
    BY <1>0, <1>6, <2>1, TruncateUncopied DEF UnwindAppend
<1>7. CASE \/ BeginCachedTurn \/ KeepSelected \/ CommitResident \/ SpillBegin
           \/ SpillThrows \/ AdmitBegin \/ FinishAppend \/ FinishSelection
           \/ Compute \/ UnwindSelect \/ UNCHANGED vars
  BY <1>7, <1>a
  DEF BeginCachedTurn, KeepSelected, CommitResident, SpillBegin, SpillThrows,
      AdmitBegin, FinishAppend, FinishSelection, Compute, UnwindSelect, vars
<1>8. ASSUME NEW b, \/ PrefetchRead(b) \/ PrefetchThrows(b)
                    \/ StageInResident(b) \/ StageInThrows(b)
      PROVE  UnregisteredUncopied'
  BY <1>8, <1>a DEF PrefetchRead, PrefetchThrows, StageInResident, StageInThrows
<1>9. ASSUME NEW b \in Blocks, StageInCold(b) PROVE UnregisteredUncopied'
  <2>1. /\ cpuSlot' = [cpuSlot EXCEPT ![b] = NoSlot] /\ nvmeSlot' = nvmeSlot
        /\ total' = total
    BY <1>9 DEF StageInCold
  <2>2. QED
    BY <1>0, <1>a, <2>1 DEF TierParts
<1>10. ASSUME NEW b \in Blocks, StageOutToCpu(b) PROVE UnregisteredUncopied'
  <2>1. Registered(b) /\ total' = total /\ CpuOn
    BY <1>0, <1>10, OutgoingRegistered DEF StageOutToCpu
  <2>2. \A x \in Blocks : ~Registered(x) => cpuSlot'[x] = cpuSlot[x]
    BY <1>10, <2>1, StageOutToCpuSteps
  <2>3. \A x \in Blocks : ~Registered(x) => nvmeSlot'[x] = nvmeSlot[x]
    <3> DEFINE p == CpuPlace(b)
               q == DownPlace(b)
    <3>1. CASE p.victim # NoBlock /\ NvmeOn
      <4>1. nvmeSlot' = [SpillBacking(q, p.victim) EXCEPT
                           ![b] = IF nvmeSlot[b] >= 0 THEN nvmeSlot[b] ELSE @]
        BY <1>10, <3>1, StageOutToCpuSteps
      <4> HIDE DEF p, q
      <4>2. QED
        BY <2>1, <4>1 DEF SpillBacking, EvictBacking
    <3>2. CASE ~(p.victim # NoBlock /\ NvmeOn)
      <4>1. nvmeSlot' = [nvmeSlot EXCEPT
                           ![b] = IF nvmeSlot[b] >= 0 THEN nvmeSlot[b] ELSE @]
        BY <1>10, <3>2, StageOutToCpuSteps
      <4>2. QED
        BY <1>0, <2>1, <4>1 DEF TierParts
    <3>3. QED
      BY <3>1, <3>2
  <2>4. QED
    BY <1>a, <2>1, <2>2, <2>3
<1>11. ASSUME NEW b \in Blocks, StageOutToNvme(b) \/ StageOutDropped(b)
       PROVE  UnregisteredUncopied'
  <2>1. Registered(b) /\ total' = total /\ cpuSlot' = [cpuSlot EXCEPT ![b] = NoSlot]
    BY <1>0, <1>11, OutgoingRegistered DEF StageOutToNvme, StageOutDropped, Spilling
  <2>2. nvmeSlot' = SpillBacking(FilePlace(b), b) \/ nvmeSlot' = nvmeSlot
    BY <1>11 DEF StageOutToNvme, StageOutDropped, FilePlace
  <2>3. \A x \in Blocks : ~Registered(x) => nvmeSlot'[x] = nvmeSlot[x]
    BY <2>1, <2>2 DEF SpillBacking, EvictBacking
  <2>4. QED
    BY <1>0, <1>a, <2>1, <2>3 DEF TierParts
<1>12. ASSUME NEW b \in Blocks, VictimSpillThrows(b) \/ BlockSpillThrows(b)
       PROVE  UnregisteredUncopied'
  <2>1. /\ total' = total /\ cpuSlot' = cpuSlot
        /\ nvmeSlot' = EvictBacking(DownPlace(b)) \/ nvmeSlot' = EvictBacking(FilePlace(b))
    BY <1>12 DEF VictimSpillThrows, BlockSpillThrows, DownPlace, FilePlace, CpuPlace
  <2>2. \A x \in Blocks : ~Registered(x) => nvmeSlot'[x] = nvmeSlot[x]
    BY <2>1 DEF EvictBacking
  <2>3. QED
    BY <1>a, <2>1, <2>2
<1>13. QED
  BY <1>1, <1>2, <1>3, <1>4, <1>5, <1>6, <1>7, <1>8, <1>9, <1>10, <1>11, <1>12
  DEF Next, Request, Progress

LEMMA TiersInvStep == TiersInv /\ [Next]_vars => TiersInv'
BY SlotInvStep, NextBatchSeated, NextVersions, NextTierParts, NextByteTypes,
   NextUncopied, NextOut DEF TiersInv

\* Every variable keeps its type: no tier gives out a slot it does not have, no
\* record names one, and only bytes that some block had, or none, are moved.
THEOREM TypeCorrect == Spec => []TypeOK
<1>1. TiersInv => TypeOK
  BY DEF TiersInv, SlotInv, TypeOK, DataTypeOK, TierParts, ByteTypes
<1>2. QED
  BY <1>1, InitTiers, TiersInvStep, PTL DEF Spec

\* Placement, eviction and truncation keep the slots of each tier apart: a slot
\* of the arena or of the file never holds two blocks, whatever fails.
TierSlotsApart == OneToOne(cpu) /\ OneToOne(nvme)
THEOREM TiersKeepSlotsApart == Spec => []TierSlotsApart
<1>1. TiersInv => TierSlotsApart
  BY DEF TiersInv, TierParts, TierOK, TierSlotsApart
<1>2. QED
  BY <1>1, InitTiers, TiersInvStep, PTL DEF Spec

-----------------------------------------------------------------------------
(* The records and the tiers agree.                                         *)

\* Faults are counted, and a spill that fails is one.
LEMMA FaultFree ==
    ASSUME TiersInv, [Next]_vars, faults' = 0
    PROVE  faults = 0 /\ \A b \in Blocks : ~VictimSpillThrows(b) /\ ~BlockSpillThrows(b)
<1>0. faults \in Nat
  BY SizesAssumption DEF TiersInv, ByteTypes
<1>a. ASSUME faults' = faults \/ faults' = faults + 1 PROVE faults = 0 /\ faults' = faults
  BY <1>0, <1>a
<1>1. \A b \in Blocks : ~VictimSpillThrows(b) /\ ~BlockSpillThrows(b)
  BY <1>0 DEF VictimSpillThrows, BlockSpillThrows
<1> USE DEF history
<1>2. CASE QuietStep
  <2>1. faults' = faults
    BY <1>2, QuietTiers
  <2>2. QED
    BY <1>a, <1>1, <2>1
<1>3. ASSUME NEW p, TruncateCached(p) PROVE faults = 0
  BY <1>3, <1>a DEF TruncateCached
<1>4. CASE Clear \/ UnwindAppend
  BY <1>4, <1>a, <1>1 DEF Clear, UnwindAppend
<1>5. ASSUME NEW b, \/ PrefetchRead(b) \/ PrefetchThrows(b) \/ StageOutToCpu(b)
                    \/ StageOutToNvme(b) \/ StageOutDropped(b)
                    \/ StageInCold(b) \/ StageInThrows(b)
      PROVE  faults = 0
  <2>1. faults' = faults \/ faults' = faults + 1
    BY <1>5
    DEF PrefetchRead, PrefetchThrows, StageOutToCpu, StageOutToNvme, StageOutDropped,
        StageInCold, StageInThrows
  <2>2. QED
    BY <1>a, <2>1
<1>6. QED
  BY <1>1, <1>2, <1>3, <1>4, <1>5, StepKinds

\* The map a placement leaves.
LEMMA PlacedMap ==
    ASSUME NEW S \in SUBSET Nat, NEW t \in TierType(S), TierOK(t), NEW b \in Blocks,
           NEW p, Placed(t, b, S, p)
    PROVE  /\ \A x \in Blocks : p.tier.map[x] = IF x = b THEN p.slot
                                                ELSE IF x = p.victim THEN NoSlot
                                                ELSE t.map[x]
           /\ p.victim # NoBlock => /\ p.victim \in Blocks \ {b}
                                    /\ t.map[p.victim] = p.slot
           /\ p.slot \in S /\ p.slot # NoSlot
           /\ \A x \in Blocks : x # b /\ x # p.victim => t.map[x] # p.slot
           /\ p.tier.map \in [Blocks -> S \cup {NoSlot}]
<1>1. /\ t.map \in [Blocks -> S \cup {NoSlot}] /\ p.slot \in S /\ p.slot # NoSlot
      /\ p.tier.map \in [Blocks -> S \cup {NoSlot}]
      /\ \A x \in Blocks : x # NoBlock
  BY NoBlockIsNone DEF Placed, TierType, NoSlot
<1>2. \A x, y \in Blocks : t.map[x] = t.map[y] /\ t.map[x] # NoSlot => x = y
  BY DEF TierOK, OneToOne
<1>3. CASE t.map[b] = p.slot /\ p.victim = NoBlock /\ p.tier.map = t.map
  BY <1>1, <1>2, <1>3
<1>4. CASE /\ \A x \in Blocks : t.map[x] # p.slot
           /\ p.victim = NoBlock /\ p.tier.map = [t.map EXCEPT ![b] = p.slot]
  BY <1>1, <1>4
<1>5. CASE /\ p.victim \in Blocks /\ p.victim # b /\ t.map[p.victim] = p.slot
           /\ p.tier.map = [t.map EXCEPT ![p.victim] = NoSlot, ![b] = p.slot]
  <2>1. \A x \in Blocks : p.tier.map[x] = IF x = b THEN p.slot
                                          ELSE IF x = p.victim THEN NoSlot
                                          ELSE t.map[x]
    BY <1>1, <1>5
  <2>2. \A x \in Blocks : x # p.victim => t.map[x] # p.slot
    BY <1>1, <1>2, <1>5
  <2>3. QED
    BY <1>1, <1>5, <2>1, <2>2
<1>6. QED
  BY <1>3, <1>4, <1>5 DEF Placed

LEMMA SameFunction ==
    ASSUME NEW S, NEW f \in [Blocks -> S], NEW g \in [Blocks -> S],
           \A x \in Blocks : f[x] = g[x]
    PROVE  f = g
OBVIOUS

\* A tier with a slot for every block has no victim.
LEMMA NoVictim ==
    ASSUME NEW S \in SUBSET Nat, MaxBlocks <= Cardinality(S), NEW t \in TierType(S),
           NEW b \in Blocks, NEW p, Placed(t, b, S, p)
    PROVE  p.victim = NoBlock
BY RoomForEveryBlock DEF Placed

\* In the CPU arena: the record of the block, and of the victim.
LEMMA CpuPlacedMap ==
    ASSUME TiersInv, CpuAgrees, faults = 0, NEW b \in Blocks, StageOutToCpu(b)
    PROVE  LET p == CpuPlace(b)
           IN  /\ cpu'.map = p.tier.map
               /\ cpu'.mem = [cpu.mem EXCEPT ![p.slot] = Outgoing(b)]
               /\ p.slot \in CpuSlots
               /\ \A x \in Blocks : cpuSlot'[x] = p.tier.map[x]
               /\ \A x \in Blocks : x # b /\ x # p.victim =>
                    cpuSlot[x] # p.slot /\ cpuSlot'[x] = cpuSlot[x]
               /\ cpuSlot'[b] = p.slot
               /\ p.victim # NoBlock =>
                    /\ p.victim \in Blocks \ {b} /\ Registered(p.victim)
                    /\ cpuSlot[p.victim] = p.slot /\ cpuSlot'[p.victim] = NoSlot
<1> DEFINE p == CpuPlace(b)
<1>0. TierParts /\ SlotInv /\ ByteTypes /\ UnregisteredUncopied
  BY DEF TiersInv
<1>1. CpuOn /\ Placed(cpu, b, CpuSlots, p)
  BY <1>0, CpuPlaced DEF StageOutToCpu
<1>2. /\ CpuSlots \in SUBSET Nat /\ cpu \in TierType(CpuSlots) /\ TierOK(cpu)
  BY <1>0 DEF TierParts, SlotNumbers
<1>3. cpu' = [p.tier EXCEPT !.mem[p.slot] = Outgoing(b)] /\ Outgoing(b) \in Bytes
  BY <1>0, StageOutToCpuSteps, OutgoingType
<1>4. cpuSlot' = [x \in Blocks |-> IF x = b THEN p.slot
                                   ELSE IF x = p.victim /\ Registered(x) THEN NoSlot
                                   ELSE cpuSlot[x]]
  BY StageOutToCpuSteps
<1>5. cpuSlot = cpu.map
  BY DEF CpuAgrees
<1> HIDE DEF p
<1>6. cpu'.map = p.tier.map /\ cpu'.mem = [cpu.mem EXCEPT ![p.slot] = Outgoing(b)]
  <2> DEFINE d == Outgoing(b)
  <2>1. d \in Bytes /\ cpu' = [p.tier EXCEPT !.mem[p.slot] = d]
    BY <1>3
  <2> HIDE DEF d
  <2>2. cpu'.map = p.tier.map /\ cpu'.mem = [p.tier.mem EXCEPT ![p.slot] = d]
    BY <1>1, <2>1 DEF Placed, TierType
  <2>3. QED
    BY <1>1, <2>2 DEF d, Placed
<1>7. /\ \A x \in Blocks : p.tier.map[x] = IF x = b THEN p.slot
                                           ELSE IF x = p.victim THEN NoSlot
                                           ELSE cpuSlot[x]
      /\ p.victim # NoBlock => p.victim \in Blocks \ {b} /\ cpuSlot[p.victim] = p.slot
      /\ p.slot \in CpuSlots /\ p.slot # NoSlot
      /\ \A x \in Blocks : x # b /\ x # p.victim => cpuSlot[x] # p.slot
  BY <1>1, <1>2, <1>5, PlacedMap
<1>8. p.victim # NoBlock => Registered(p.victim)
  BY <1>0, <1>7 DEF UnregisteredUncopied
<1>9. \A x \in Blocks : cpuSlot'[x] = p.tier.map[x]
  <2> TAKE x \in Blocks
  <2>1. x # NoBlock
    BY NoBlockIsNone
  <2>2. QED
    BY <1>4, <1>7, <1>8, <2>1
<1>10. QED
  BY <1>4, <1>6, <1>7, <1>8, <1>9 DEF p

\* The records truncation leaves, in either tier.
LEMMA TruncateAgrees ==
    ASSUME TierParts, ByteTypes, NEW p, TruncateRecords(p)
    PROVE  /\ cpuSlot = cpu.map => cpuSlot' = cpu'.map
           /\ nvmeSlot = nvme.map => nvmeSlot' = nvme'.map
           /\ cpu'.mem = cpu.mem /\ nvme'.mem = nvme.mem
<1> DEFINE R == {b \in Dropped(p) : cpuSlot[b] >= 0}
           Q == {b \in Dropped(p) : nvmeSlot[b] >= 0}
<1>1. cpu' = ReleaseAll(cpu, R) /\ nvme' = ReleaseAll(nvme, Q)
  BY DEF TruncateRecords
<1>2. /\ cpuSlot' = [b \in Blocks |-> IF b \in Dropped(p) THEN NoSlot ELSE cpuSlot[b]]
      /\ nvmeSlot' = [b \in Blocks |-> IF b \in Dropped(p) THEN NoSlot ELSE nvmeSlot[b]]
  BY DEF TruncateRecords, Hold
<1>3. \A b \in Blocks : /\ cpuSlot[b] >= 0 \/ cpuSlot[b] = NoSlot
                        /\ nvmeSlot[b] >= 0 \/ nvmeSlot[b] = NoSlot
  <2> TAKE b \in Blocks
  <2>1. /\ cpuSlot[b] \in CpuSlots \cup {NoSlot} /\ nvmeSlot[b] \in NvmeSlots \cup {NoSlot}
    BY DEF TierParts
  <2>2. CpuSlots \subseteq Nat /\ NvmeSlots \subseteq Nat
    BY DEF TierParts, SlotNumbers
  <2>3. QED
    BY <2>1, <2>2, TierSlot
<1>4. \A b \in Blocks : (b \in R <=> b \in Dropped(p) /\ cpuSlot[b] >= 0)
                        /\ (b \in Q <=> b \in Dropped(p) /\ nvmeSlot[b] >= 0)
  OBVIOUS
<1> HIDE DEF R, Q
<1>5. /\ cpu'.map = [b \in Blocks |-> IF b \in R THEN NoSlot ELSE cpu.map[b]]
      /\ cpu'.mem = cpu.mem
      /\ nvme'.map = [b \in Blocks |-> IF b \in Q THEN NoSlot ELSE nvme.map[b]]
      /\ nvme'.mem = nvme.mem
  BY <1>1, ReleaseAllFields DEF TierParts
<1>6. ASSUME cpuSlot = cpu.map PROVE cpuSlot' = cpu'.map
  BY <1>2, <1>3, <1>4, <1>5, <1>6
<1>7. ASSUME nvmeSlot = nvme.map PROVE nvmeSlot' = nvme'.map
  BY <1>2, <1>3, <1>4, <1>5, <1>7
<1>8. QED
  BY <1>5, <1>6, <1>7

LEMMA NextCpuAgrees == TiersInv /\ CpuAgrees /\ [Next]_vars => CpuAgrees'
<1> SUFFICES ASSUME TiersInv, CpuAgrees, [Next]_vars, faults' = 0
             PROVE  cpuSlot' = cpu'.map
  BY DEF CpuAgrees
<1>0. TierParts /\ ByteTypes
  BY DEF TiersInv
<1>a. faults = 0 /\ \A b \in Blocks : ~VictimSpillThrows(b) /\ ~BlockSpillThrows(b)
  BY FaultFree
<1>b. cpuSlot = cpu.map
  BY <1>a DEF CpuAgrees
<1>u. ASSUME UNCHANGED <<cpu, cpuSlot>> PROVE cpuSlot' = cpu'.map
  BY <1>b, <1>u
<1>1. CASE QuietStep
  BY <1>b, <1>1, QuietTiers
<1>2. ASSUME NEW p, TruncateRecords(p) PROVE cpuSlot' = cpu'.map
  BY <1>0, <1>b, <1>2, TruncateAgrees
<1>3. ASSUME NEW p, TruncateCached(p) PROVE cpuSlot' = cpu'.map
  BY <1>2, <1>3 DEF TruncateCached
<1>4. CASE Clear \/ UnwindAppend
  BY <1>2, <1>4 DEF Clear, UnwindAppend
<1>5. ASSUME NEW b, PrefetchRead(b) \/ PrefetchThrows(b) \/ StageInThrows(b)
      PROVE  cpuSlot' = cpu'.map
  BY <1>5, <1>u DEF PrefetchRead, PrefetchThrows, StageInThrows, store, tiers
<1>6. ASSUME NEW b \in Blocks, StageOutToCpu(b) PROVE cpuSlot' = cpu'.map
  <2>1. /\ cpuSlot' \in [Blocks -> CpuSlots \cup {NoSlot}]
        /\ cpu'.map \in [Blocks -> CpuSlots \cup {NoSlot}]
    BY NextTierParts DEF TierParts, TierType
  <2>2. \A x \in Blocks : cpuSlot'[x] = cpu'.map[x]
    BY <1>a, <1>6, CpuPlacedMap
  <2>3. QED
    BY <2>1, <2>2, SameFunction
<1>7. ASSUME NEW b \in Blocks, StageOutToNvme(b) \/ StageOutDropped(b)
      PROVE  cpuSlot' = cpu'.map
  <2>1. /\ ~CpuOn /\ cpu' = cpu /\ cpuSlot' = [cpuSlot EXCEPT ![b] = NoSlot]
    BY <1>7 DEF StageOutToNvme, StageOutDropped, TiersOn, tiers
  <2>2. cpuSlot \in [Blocks -> {NoSlot}]
    BY <1>0, <2>1 DEF TierParts, CpuOn
  <2>3. QED
    BY <1>b, <2>1, <2>2
<1>8. ASSUME NEW b \in Blocks, StageInCold(b) PROVE cpuSlot' = cpu'.map
  <2>1. /\ cpu' = IF cpuSlot[b] >= 0 THEN Release(cpu, b) ELSE cpu
        /\ cpuSlot' = [cpuSlot EXCEPT ![b] = NoSlot]
    BY <1>8 DEF StageInCold
  <2>2. cpuSlot \in [Blocks -> CpuSlots \cup {NoSlot}]
    BY <1>0 DEF TierParts
  <2>3. CASE cpuSlot[b] >= 0
    BY <1>0, <1>b, <2>1, <2>3, ReleaseFields DEF TierParts
  <2>4. CASE ~(cpuSlot[b] >= 0)
    <3>1. cpuSlot[b] = NoSlot
      BY <1>0, <2>2, <2>4, CopyType
    <3>2. QED
      BY <1>b, <2>1, <2>2, <2>4, <3>1
  <2>5. QED
    BY <2>3, <2>4
<1>9. QED
  BY <1>a, <1>1, <1>3, <1>4, <1>5, <1>6, <1>7, <1>8, StepKinds

LEMMA InitAgrees == Init => CpuAgrees /\ NvmeAgrees
<1> SUFFICES ASSUME Init PROVE CpuAgrees /\ NvmeAgrees
  OBVIOUS
<1>1. PICK a \in Arenas : cpu = EmptyTier(a.cpu) /\ nvme = EmptyTier(a.nvme)
  BY DEF Init
<1>2. a.cpu \in Nat /\ a.nvme \in Nat
  BY SizesAssumption
<1>3. /\ cpu.map = [b \in Blocks |-> NoSlot] /\ nvme.map = [b \in Blocks |-> NoSlot]
  BY <1>1, <1>2, EmptyOK
<1>4. QED
  BY <1>3 DEF Init, CpuAgrees, NvmeAgrees

\* The residency table and the CPU arena agree on where every block is, at every
\* step and not only between calls, until a failed write unwinds a demotion.
THEOREM CpuRecordsKept == Spec => []CpuRecordsAgree
<1>1. CpuAgrees => CpuRecordsAgree
  BY DEF CpuAgrees, CpuRecordsAgree
<1>2. QED
  BY <1>1, InitTiers, InitAgrees, TiersInvStep, NextCpuAgrees, PTL DEF Spec

\* In the file: the record of the block written, and of the victim.
LEMMA FileBacking ==
    ASSUME TiersInv, NvmeAgrees, faults = 0, NEW v \in Blocks, Registered(v),
           NEW q, Placed(nvme, v, NvmeSlots, q)
    PROVE  /\ \A x \in Blocks : SpillBacking(q, v)[x] = q.tier.map[x]
           /\ q.slot \in NvmeSlots /\ q.tier.map[v] = q.slot
           /\ \A x \in Blocks : x # v =>
                /\ x # q.victim => q.tier.map[x] = nvmeSlot[x] /\ nvmeSlot[x] # q.slot
                /\ x = q.victim => q.tier.map[x] = NoSlot
<1>0. TierParts /\ UnregisteredUncopied
  BY DEF TiersInv
<1>1. /\ NvmeSlots \in SUBSET Nat /\ nvme \in TierType(NvmeSlots) /\ TierOK(nvme)
  BY <1>0 DEF TierParts, SlotNumbers
<1>2. nvmeSlot = nvme.map
  BY DEF NvmeAgrees
<1>3. /\ \A x \in Blocks : q.tier.map[x] = IF x = v THEN q.slot
                                           ELSE IF x = q.victim THEN NoSlot
                                           ELSE nvmeSlot[x]
      /\ q.victim # NoBlock => q.victim \in Blocks \ {v} /\ nvmeSlot[q.victim] = q.slot
      /\ q.slot \in NvmeSlots /\ q.slot # NoSlot
      /\ \A x \in Blocks : x # v /\ x # q.victim => nvmeSlot[x] # q.slot
  BY <1>1, <1>2, PlacedMap
<1>4. q.victim # NoBlock => Registered(q.victim)
  BY <1>0, <1>3 DEF UnregisteredUncopied
<1>5. \A x \in Blocks : SpillBacking(q, v)[x] = q.tier.map[x]
  <2> TAKE x \in Blocks
  <2>1. SpillBacking(q, v)[x] = IF x = v THEN q.slot
                                ELSE IF x = q.victim /\ Registered(x) THEN NoSlot
                                ELSE nvmeSlot[x]
    BY DEF SpillBacking, EvictBacking
  <2>2. x # NoBlock
    BY NoBlockIsNone
  <2>3. QED
    BY <1>3, <1>4, <2>1, <2>2
<1>6. QED
  BY <1>3, <1>5

\* stage_out to the file.
LEMMA FilePlacedMap ==
    ASSUME TiersInv, NvmeAgrees, faults = 0, NEW b \in Blocks, StageOutToNvme(b)
    PROVE  LET q == FilePlace(b)
           IN  /\ nvme'.map = q.tier.map
               /\ nvme'.mem = [nvme.mem EXCEPT ![q.slot] = Outgoing(b)]
               /\ q.slot \in NvmeSlots
               /\ \A x \in Blocks : nvmeSlot'[x] = q.tier.map[x]
               /\ nvmeSlot'[b] = q.slot
               /\ \A x \in Blocks : x # b /\ nvmeSlot'[x] # NoSlot =>
                    nvmeSlot'[x] = nvmeSlot[x] /\ nvmeSlot[x] # q.slot
<1> DEFINE q == FilePlace(b)
           d == Outgoing(b)
<1>0. TierParts /\ SlotInv /\ ByteTypes /\ OutRegistered
  BY DEF TiersInv
<1>1. NvmeOn /\ Registered(b)
  BY <1>0, OutgoingRegistered DEF StageOutToNvme
<1>2. Placed(nvme, b, NvmeSlots, q)
  BY <1>0, <1>1, FilePlaced
<1>3. /\ nvme' = [q.tier EXCEPT !.mem[q.slot] = d] /\ nvmeSlot' = SpillBacking(q, b)
      /\ d \in Bytes
  BY <1>0, OutgoingType DEF StageOutToNvme, FilePlace, SpillTier
<1> HIDE DEF q, d
<1>4. nvme'.map = q.tier.map /\ nvme'.mem = [nvme.mem EXCEPT ![q.slot] = d]
  BY <1>2, <1>3 DEF Placed, TierType
<1>5. /\ \A x \in Blocks : SpillBacking(q, b)[x] = q.tier.map[x]
      /\ q.slot \in NvmeSlots /\ q.tier.map[b] = q.slot
      /\ \A x \in Blocks : x # b =>
           /\ x # q.victim => q.tier.map[x] = nvmeSlot[x] /\ nvmeSlot[x] # q.slot
           /\ x = q.victim => q.tier.map[x] = NoSlot
  BY <1>1, <1>2, FileBacking
<1>6. QED
  BY <1>3, <1>4, <1>5 DEF q, d

\* The victim of the arena moves on to a file with room for it.
LEMMA DownPlacedMap ==
    ASSUME TiersInv, FileHoldsAll, CpuAgrees, NvmeAgrees, faults = 0,
           NEW b \in Blocks, StageOutToCpu(b), CpuPlace(b).victim # NoBlock, NvmeOn
    PROVE  LET p == CpuPlace(b)
               q == DownPlace(b)
           IN  /\ nvme'.map = q.tier.map
               /\ nvme'.mem = [nvme.mem EXCEPT ![q.slot] = cpu.mem[p.slot]]
               /\ q.slot \in NvmeSlots
               /\ \A x \in Blocks : nvmeSlot'[x] = q.tier.map[x]
               /\ nvmeSlot'[p.victim] = q.slot
               /\ \A x \in Blocks : x # p.victim =>
                    nvmeSlot'[x] = nvmeSlot[x] /\ nvmeSlot[x] # q.slot
               /\ \A x \in Blocks : SpillBacking(q, p.victim)[x] = nvmeSlot'[x]
<1> DEFINE p == CpuPlace(b)
           q == DownPlace(b)
           d == cpu.mem[p.slot]
           v == p.victim
<1>0. TierParts /\ ByteTypes
  BY DEF TiersInv
<1>1. v \in Blocks \ {b} /\ Registered(v) /\ p.slot \in CpuSlots
  BY CpuPlacedMap
<1>2. Placed(nvme, v, NvmeSlots, q)
  BY <1>0, <1>1, DownPlaced
<1>3. /\ nvme' = [q.tier EXCEPT !.mem[q.slot] = d]
      /\ nvmeSlot' = [SpillBacking(q, v) EXCEPT
                        ![b] = IF nvmeSlot[b] >= 0 THEN nvmeSlot[b] ELSE @]
  BY StageOutToCpuSteps
<1>4. /\ NvmeSlots \in SUBSET Nat /\ MaxBlocks <= Cardinality(NvmeSlots)
      /\ nvme \in TierType(NvmeSlots)
  BY <1>0 DEF TierParts, SlotNumbers, FileHoldsAll, StageOutToCpu
<1> HIDE DEF p, q, d, v
<1>5. nvme'.map = q.tier.map /\ nvme'.mem = [nvme.mem EXCEPT ![q.slot] = d]
  BY <1>2, <1>3 DEF Placed, TierType
<1>6. q.victim = NoBlock
  BY <1>1, <1>2, <1>4, NoVictim
<1>7. /\ \A x \in Blocks : SpillBacking(q, v)[x] = q.tier.map[x]
      /\ q.slot \in NvmeSlots /\ q.tier.map[v] = q.slot
      /\ \A x \in Blocks : x # v => q.tier.map[x] = nvmeSlot[x] /\ nvmeSlot[x] # q.slot
  BY <1>1, <1>2, <1>6, FileBacking, NoBlockIsNone
<1>8. \A x \in Blocks : nvmeSlot'[x] = q.tier.map[x]
  <2>1. SpillBacking(q, v) \in [Blocks -> NvmeSlots \cup {NoSlot}]
    BY <1>0, <1>2, BackingType
  <2>2. SpillBacking(q, v)[b] = nvmeSlot[b]
    BY <1>1, <1>7
  <2>3. QED
    BY <1>3, <1>7, <2>1, <2>2
<1>9. QED
  BY <1>1, <1>5, <1>7, <1>8 DEF p, q, d, v

LEMMA NextFileHolds ==
    TiersInv /\ FileHoldsAll /\ [Next]_vars
      => FileHoldsAll' /\ CpuOn' = CpuOn /\ NvmeOn' = NvmeOn
BY NextTierParts DEF FileHoldsAll, CpuOn, NvmeOn

\* Without a victim the arena sends nothing on.
LEMMA StageOutToCpuAlone ==
    ASSUME TiersInv, NEW b \in Blocks, StageOutToCpu(b),
           ~(CpuPlace(b).victim # NoBlock /\ NvmeOn)
    PROVE  UNCHANGED <<nvme, nvmeSlot>>
<1>1. /\ nvme' = nvme
      /\ nvmeSlot' = [nvmeSlot EXCEPT ![b] = IF nvmeSlot[b] >= 0 THEN nvmeSlot[b] ELSE @]
  BY StageOutToCpuSteps
<1>2. nvmeSlot \in [Blocks -> NvmeSlots \cup {NoSlot}]
  BY DEF TiersInv, TierParts
<1>3. QED
  BY <1>1, <1>2

LEMMA NextNvmeAgrees ==
    TiersInv /\ FileHoldsAll /\ CpuAgrees /\ NvmeAgrees /\ [Next]_vars => NvmeAgrees'
<1> SUFFICES ASSUME TiersInv, FileHoldsAll, CpuAgrees, NvmeAgrees, [Next]_vars, faults' = 0
             PROVE  nvmeSlot' = nvme'.map
  BY DEF NvmeAgrees
<1>0. TierParts /\ ByteTypes
  BY DEF TiersInv
<1>a. faults = 0 /\ \A b \in Blocks : ~VictimSpillThrows(b) /\ ~BlockSpillThrows(b)
  BY FaultFree
<1>b. nvmeSlot = nvme.map
  BY <1>a DEF NvmeAgrees
<1>u. ASSUME UNCHANGED <<nvme, nvmeSlot>> PROVE nvmeSlot' = nvme'.map
  BY <1>b, <1>u
<1>t. /\ nvmeSlot' \in [Blocks -> NvmeSlots' \cup {NoSlot}]
      /\ nvme'.map \in [Blocks -> NvmeSlots' \cup {NoSlot}]
  BY NextTierParts DEF TierParts, TierType
<1>1. CASE QuietStep
  BY <1>b, <1>1, QuietTiers
<1>2. ASSUME NEW p, TruncateRecords(p) PROVE nvmeSlot' = nvme'.map
  BY <1>0, <1>b, <1>2, TruncateAgrees
<1>3. ASSUME NEW p, TruncateCached(p) PROVE nvmeSlot' = nvme'.map
  BY <1>2, <1>3 DEF TruncateCached
<1>4. CASE Clear \/ UnwindAppend
  BY <1>2, <1>4 DEF Clear, UnwindAppend
<1>5. ASSUME NEW b, PrefetchThrows(b) \/ StageInThrows(b) \/ StageOutDropped(b)
      PROVE  nvmeSlot' = nvme'.map
  BY <1>5, <1>u DEF PrefetchThrows, StageInThrows, StageOutDropped, store, tiers
<1>6. ASSUME NEW b \in Blocks, PrefetchRead(b) \/ StageInCold(b)
      PROVE  nvmeSlot' = nvme'.map
  <2>1. nvmeSlot' = nvmeSlot /\ (nvme' = nvme \/ nvme' = Touch(nvme, b))
    BY <1>6 DEF PrefetchRead, StageInCold, store
  <2>2. QED
    BY <1>0, <1>b, <2>1, TouchFields DEF TierParts
<1>7. ASSUME NEW b \in Blocks, StageOutToCpu(b) PROVE nvmeSlot' = nvme'.map
  <2>1. CASE CpuPlace(b).victim # NoBlock /\ NvmeOn
    <3>1. \A x \in Blocks : nvmeSlot'[x] = nvme'.map[x]
      BY <1>a, <1>7, <2>1, DownPlacedMap
    <3>2. QED
      BY <1>t, <3>1, SameFunction
  <2>2. CASE ~(CpuPlace(b).victim # NoBlock /\ NvmeOn)
    BY <1>7, <1>u, <2>2, StageOutToCpuAlone
  <2>3. QED
    BY <2>1, <2>2
<1>8. ASSUME NEW b \in Blocks, StageOutToNvme(b) PROVE nvmeSlot' = nvme'.map
  <2>1. \A x \in Blocks : nvmeSlot'[x] = nvme'.map[x]
    BY <1>a, <1>8, FilePlacedMap
  <2>2. QED
    BY <1>t, <2>1, SameFunction
<1>9. QED
  BY <1>a, <1>1, <1>3, <1>4, <1>5, <1>6, <1>7, <1>8, StepKinds

RecordsInv == TiersInv /\ FileHoldsAll /\ CpuAgrees /\ NvmeAgrees

LEMMA RecordsInvStep == RecordsInv /\ [Next]_vars => RecordsInv'
BY TiersInvStep, NextFileHolds, NextCpuAgrees, NextNvmeAgrees DEF RecordsInv

\* The residency table agrees with both tiers on where every block is, in every
\* configuration whose file, if it backs a CPU arena, has room for the whole
\* history; until a failed operation.
THEOREM RecordsKept == Spec /\ FileHoldsAll => []RecordsAgree
<1>1. Init /\ FileHoldsAll => RecordsInv
  BY InitTiers, InitAgrees DEF RecordsInv
<1>2. RecordsInv => RecordsAgree
  BY DEF RecordsInv, CpuAgrees, NvmeAgrees, RecordsAgree, CpuRecordsAgree, NvmeRecordsAgree
<1>3. QED
  BY <1>1, <1>2, RecordsInvStep, PTL DEF Spec

-----------------------------------------------------------------------------
(* The copies are the bytes last staged out.                                *)

\* What a truncation leaves of the records: all of a block's, or none.
LEMMA TruncateHolds ==
    ASSUME TierParts, ByteTypes, NEW p, TruncateRecords(p)
    PROVE  \A x \in Blocks :
             \/ cpuSlot'[x] = NoSlot /\ nvmeSlot'[x] = NoSlot /\ tier'[x] = "GPU"
             \/ /\ cpuSlot'[x] = cpuSlot[x] /\ nvmeSlot'[x] = nvmeSlot[x]
                /\ tier'[x] = tier[x] /\ gpuSlot'[x] = gpuSlot[x]
BY DEF TruncateRecords, Hold

LEMMA NoCopy == ~(NoSlot >= 0) /\ NoSlot < 0
BY DEF NoSlot

\* With one tier off, no record names it.
LEMMA TierOff ==
    ASSUME TierParts
    PROVE  /\ ~CpuOn => \A x \in Blocks : cpuSlot[x] = NoSlot
           /\ ~NvmeOn => \A x \in Blocks : nvmeSlot[x] = NoSlot
BY DEF TierParts, CpuOn, NvmeOn

LEMMA NextCpuCopies ==
    TiersInv /\ CpuAgrees /\ CpuCopiesLast /\ [Next]_vars => CpuCopiesLast'
<1> SUFFICES ASSUME TiersInv, CpuAgrees, CpuCopiesLast, [Next]_vars, faults' = 0,
                    NEW x \in Blocks, cpuSlot'[x] >= 0
             PROVE  cpu'.mem[cpuSlot'[x]] = spilled'[x]
  BY DEF CpuCopiesLast
<1> DEFINE Goal == cpu'.mem[cpuSlot'[x]] = spilled'[x]
<1>0. TierParts /\ ByteTypes
  BY DEF TiersInv
<1>a. faults = 0 /\ \A b \in Blocks : ~VictimSpillThrows(b) /\ ~BlockSpillThrows(b)
  BY FaultFree
<1>b. \A y \in Blocks : cpuSlot[y] >= 0 => cpu.mem[cpuSlot[y]] = spilled[y]
  BY <1>a DEF CpuCopiesLast
<1>u. ASSUME cpu'.mem = cpu.mem, spilled' = spilled,
             cpuSlot'[x] = cpuSlot[x] \/ cpuSlot'[x] = NoSlot
      PROVE  Goal
  BY <1>b, <1>u, NoCopy
<1>s. spilled \in [Blocks -> Bytes] /\ cpuSlot \in [Blocks -> CpuSlots \cup {NoSlot}]
  BY <1>0 DEF ByteTypes, TierParts
<1> HIDE DEF Goal
<1>1. CASE QuietStep
  <2>1. cpu' = cpu /\ cpuSlot' = cpuSlot /\ spilled' = spilled
    BY <1>1, QuietTiers
  <2>2. QED
    BY <1>u, <2>1 DEF Goal
<1>2. ASSUME NEW p, TruncateRecords(p), spilled' = spilled PROVE Goal
  BY <1>0, <1>2, <1>u, TruncateAgrees, TruncateHolds
<1>3. ASSUME NEW p, TruncateCached(p) PROVE Goal
  BY <1>2, <1>3 DEF TruncateCached, history
<1>4. CASE Clear \/ UnwindAppend
  <2>1. spilled' = spilled /\ (TruncateRecords(0) \/ TruncateRecords(plan.t0))
    BY <1>4 DEF Clear, UnwindAppend, history
  <2>2. QED
    BY <1>2, <2>1 DEF Goal
<1>5. ASSUME NEW b, PrefetchRead(b) \/ PrefetchThrows(b) \/ StageInThrows(b) PROVE Goal
  BY <1>5, <1>u DEF PrefetchRead, PrefetchThrows, StageInThrows, store, tiers, history
<1>6. ASSUME NEW b \in Blocks, StageOutToCpu(b) PROVE Goal
  <2> DEFINE p == CpuPlace(b)
  <2>1. spilled' = [spilled EXCEPT ![b] = Outgoing(b)]
    BY <1>6 DEF StageOutToCpu, Unseat
  <2>2. /\ cpu'.mem = [cpu.mem EXCEPT ![p.slot] = Outgoing(b)] /\ p.slot \in CpuSlots
        /\ \A y \in Blocks : y # b /\ y # p.victim =>
             cpuSlot[y] # p.slot /\ cpuSlot'[y] = cpuSlot[y]
        /\ cpuSlot'[b] = p.slot
        /\ p.victim # NoBlock => cpuSlot'[p.victim] = NoSlot
    BY <1>a, <1>6, CpuPlacedMap
  <2>3. x # p.victim
    BY <2>2, NoCopy, NoBlockIsNone
  <2>4. cpu.mem \in [CpuSlots -> Bytes]
    BY <1>0 DEF TierParts, TierType
  <2> HIDE DEF p
  <2>5. CASE x = b
    BY <1>s, <2>1, <2>2, <2>4, <2>5 DEF Goal
  <2>6. CASE x # b
    <3>1. cpuSlot'[x] = cpuSlot[x] /\ cpuSlot[x] # p.slot /\ spilled'[x] = spilled[x]
      BY <1>s, <2>1, <2>2, <2>3, <2>6
    <3>2. cpuSlot[x] \in CpuSlots
      BY <1>0, <3>1, CopyType
    <3>3. cpu'.mem[cpuSlot[x]] = cpu.mem[cpuSlot[x]]
      BY <2>2, <2>4, <3>1, <3>2
    <3>4. QED
      BY <1>b, <3>1, <3>3 DEF Goal
  <2>7. QED
    BY <2>5, <2>6
<1>7. ASSUME NEW b \in Blocks, StageOutToNvme(b) \/ StageOutDropped(b) PROVE Goal
  <2>1. /\ ~CpuOn /\ cpuSlot' = [cpuSlot EXCEPT ![b] = NoSlot]
    BY <1>7 DEF StageOutToNvme, StageOutDropped, TiersOn
  <2>2. cpuSlot'[x] = NoSlot
    BY <1>0, <1>s, <2>1, TierOff
  <2>3. QED
    BY <2>2, NoCopy
<1>8. ASSUME NEW b \in Blocks, StageInCold(b) PROVE Goal
  <2>1. /\ cpu' = IF cpuSlot[b] >= 0 THEN Release(cpu, b) ELSE cpu
        /\ cpuSlot' = [cpuSlot EXCEPT ![b] = NoSlot] /\ spilled' = spilled
    BY <1>8 DEF StageInCold, history
  <2>2. cpu'.mem = cpu.mem
    BY <1>0, <2>1, ReleaseFields DEF TierParts
  <2>3. QED
    BY <1>s, <1>u, <2>1, <2>2
<1>9. QED
  BY <1>a, <1>1, <1>3, <1>4, <1>5, <1>6, <1>7, <1>8, StepKinds DEF Goal

\* No exception: every block in tier SSD is in the file, and a read of it that
\* finds no slot there would be the first fault.
LEMMA NextNoSurprise == RecordsInv /\ NoSurprise /\ [Next]_vars => NoSurprise'
<1> SUFFICES ASSUME RecordsInv, NoSurprise, [Next]_vars, CpuOn', faults' = 0
             PROVE  /\ ~thrown'
                    /\ \A b \in Blocks :
                         /\ tier'[b] = "SSD" => nvmeSlot'[b] >= 0
                         /\ mode' \in {"fetch", "spill"} => pre'[b].st # "failed"
                         /\ mode' = "fetch" /\ pre'[b].st = "reading" => nvmeSlot'[b] >= 0
  BY DEF NoSurprise
<1>0. TierParts /\ ByteTypes /\ SlotInv
  BY DEF RecordsInv, TiersInv
<1>a. faults = 0 /\ \A b \in Blocks : ~VictimSpillThrows(b) /\ ~BlockSpillThrows(b)
  BY FaultFree DEF RecordsInv
<1>c. CpuOn
  BY NextFileHolds DEF RecordsInv
<1>b. /\ ~thrown
      /\ \A b \in Blocks :
           /\ tier[b] = "SSD" => nvmeSlot[b] >= 0
           /\ mode \in {"fetch", "spill"} => pre[b].st # "failed"
           /\ mode = "fetch" /\ pre[b].st = "reading" => nvmeSlot[b] >= 0
  BY <1>a, <1>c DEF NoSurprise
<1>m. nvmeSlot = nvme.map
  BY <1>a DEF RecordsInv, NvmeAgrees
<1>s. tier \in [Blocks -> {"GPU", "CPU", "SSD"}]
  BY <1>0 DEF SlotInv, ControlTypeOK
<1> DEFINE Goal == /\ ~thrown'
                   /\ \A b \in Blocks :
                        /\ tier'[b] = "SSD" => nvmeSlot'[b] >= 0
                        /\ mode' \in {"fetch", "spill"} => pre'[b].st # "failed"
                        /\ mode' = "fetch" /\ pre'[b].st = "reading" => nvmeSlot'[b] >= 0
\* A step that adds no block to tier SSD and leaves the reads alone.
<1>u. ASSUME thrown' = thrown \/ thrown' = FALSE,
             \A b \in Blocks : tier'[b] = "SSD" => tier[b] = "SSD" /\ nvmeSlot'[b] = nvmeSlot[b],
             \/ mode' \notin {"fetch", "spill"}
             \/ mode' = mode /\ pre' = pre /\ nvmeSlot' = nvmeSlot
             \/ mode = "fetch" /\ mode' = "spill" /\ pre' = pre
      PROVE  Goal
  BY <1>b, <1>u
<1> HIDE DEF Goal
<1> USE DEF store, tiers, history, Throw, Spilling, Admitting
<1>1. ASSUME NEW S, NEW t, NEW kind, SetSelection(S, t, kind),
             UNCHANGED <<tier, nvmeSlot, thrown>>
      PROVE  Goal
  <2>1. /\ mode' = "fetch"
        /\ \A b \in Blocks : pre'[b].st = "reading" => b \in Prefetched(PlanIn(S))
        /\ \A b \in Blocks : pre'[b].st # "failed"
    BY <1>1 DEF SetSelection, Idle
  <2>2. QED
    BY <1>b, <1>1, <2>1 DEF Prefetched, Goal
<1>2. ASSUME NEW k \in 1 .. MaxAppend, AppendUnderPressure(k) PROVE Goal
  <2>1. SetSelection(PressureBlocks(total + k), total + k, "append")
    BY <1>2 DEF AppendUnderPressure
  <2>2. UNCHANGED <<tier, nvmeSlot, thrown>>
    BY <1>2 DEF AppendUnderPressure
  <2>3. QED
    BY <1>1, <2>1, <2>2
<1>3. ASSUME NEW k \in 1 .. MaxAppend, AppendDirect(k) PROVE Goal
  <2>1. /\ \A b \in Blocks : tier'[b] = "SSD" => tier[b] = "SSD"
        /\ UNCHANGED <<nvmeSlot, thrown>> /\ mode' = "compute"
    BY <1>3 DEF AppendDirect
  <2>2. QED
    BY <1>u, <2>1
<1>4. ASSUME NEW k \in 1 .. MaxAppend, AppendRefused(k) PROVE Goal
  <2>1. /\ UNCHANGED <<nvmeSlot, thrown>> /\ mode' = "idle"
        /\ tier' = tier \/ \E b \in Blocks : tier' = [tier EXCEPT ![b] = "GPU"]
    BY <1>4 DEF AppendRefused, MayAppend, Unseated, Incoming, Live
  <2>2. \A b \in Blocks : tier'[b] = "SSD" => tier[b] = "SSD"
    BY <1>s, <2>1
  <2>3. QED
    BY <1>u, <2>1, <2>2
<1>5. ASSUME NEW S, PrepareSelection(S) PROVE Goal
  <2>1. SetSelection(S, total, "select") /\ UNCHANGED <<tier, nvmeSlot, thrown>>
    BY <1>5 DEF PrepareSelection
  <2>2. QED
    BY <1>1, <2>1
<1>6. ASSUME \/ BeginCachedTurn \/ KeepSelected \/ CommitResident \/ UnwindSelect
             \/ SpillBegin \/ AdmitBegin \/ FinishAppend \/ Compute \/ UNCHANGED vars
      PROVE  Goal
  <2>1. /\ UNCHANGED <<tier, nvmeSlot, thrown>>
        /\ \/ mode' \notin {"fetch", "spill"}
           \/ mode' = mode /\ pre' = pre
           \/ mode = "fetch" /\ mode' = "spill" /\ pre' = pre
    BY <1>6
    DEF BeginCachedTurn, KeepSelected, CommitResident, UnwindSelect, SpillBegin,
        AdmitBegin, FinishAppend, Compute, vars
  <2>2. QED
    BY <1>u, <2>1
<1>7. ASSUME NEW b, StageInResident(b) PROVE Goal
  BY <1>7, <1>u DEF StageInResident
<1>8. ASSUME FinishSelection PROVE Goal
  <2>1. UNCHANGED <<nvmeSlot, thrown>> /\ mode' = "idle"
    BY <1>8 DEF FinishSelection
  <2>2. \A b \in Blocks : tier'[b] = "SSD" => tier[b] = "SSD"
    BY <1>8 DEF FinishSelection, RewriteStagedIn, Relayout
  <2>3. QED
    BY <1>u, <2>1, <2>2
<1>9. ASSUME SpillThrows PROVE Goal
  BY <1>b, <1>9 DEF SpillThrows
<1>10. ASSUME NEW p, TruncateRecords(p), thrown' = thrown \/ thrown' = FALSE, mode' = "idle"
       PROVE  Goal
  <2>1. \A b \in Blocks : tier'[b] = "SSD" => tier[b] = "SSD" /\ nvmeSlot'[b] = nvmeSlot[b]
    BY <1>10 DEF TruncateRecords, Hold
  <2>2. QED
    BY <1>10, <1>u, <2>1
<1>11. ASSUME NEW p, TruncateCached(p) PROVE Goal
  BY <1>10, <1>11 DEF TruncateCached
<1>12. ASSUME Clear \/ UnwindAppend PROVE Goal
  <2>1. /\ thrown' = thrown \/ thrown' = FALSE
        /\ mode' = "idle"
        /\ TruncateRecords(0) \/ TruncateRecords(plan.t0)
    BY <1>12 DEF Clear, UnwindAppend
  <2>2. QED
    BY <1>10, <2>1
<1>13. ASSUME NEW b \in Blocks, PrefetchRead(b) PROVE Goal
  <2>1. /\ pre' = [pre EXCEPT ![b] = [st |-> "ready", bytes |-> nvme.mem[nvme.map[b]]]]
        /\ UNCHANGED <<tier, nvmeSlot, thrown, mode>>
    BY <1>13 DEF PrefetchRead
  <2>2. \A x \in Blocks : pre'[x].st = pre[x].st \/ pre'[x].st = "ready"
    BY <1>0, <2>1 DEF ByteTypes
  <2>3. QED
    BY <1>b, <2>1, <2>2 DEF Goal
<1>14. ASSUME NEW b \in Blocks, PrefetchThrows(b) PROVE Goal
  <2>1. nvmeSlot[b] >= 0 /\ nvme.map[b] = NoSlot
    BY <1>0, <1>a, <1>b, <1>14, SizesAssumption DEF PrefetchThrows, ByteTypes
  <2>2. QED
    BY <1>m, <2>1, NoCopy
<1>15. ASSUME NEW b \in Blocks, StageOutToCpu(b) PROVE Goal
  <2>1. UNCHANGED <<mode, pre, thrown>> /\ mode = "spill"
    BY <1>15 DEF StageOutToCpu
  <2>2. ASSUME NEW x \in Blocks, tier'[x] = "SSD" PROVE nvmeSlot'[x] >= 0
    <3>1. CASE CpuPlace(b).victim # NoBlock /\ NvmeOn
      <4> DEFINE p == CpuPlace(b)
                 q == DownPlace(b)
      <4>1. tier[x] = "SSD" \/ SpillBacking(q, p.victim)[x] >= 0
        BY <1>15, <2>2, <3>1, StageOutToCpuSteps
      <4>2. /\ nvmeSlot'[p.victim] = q.slot /\ q.slot \in NvmeSlots
            /\ \A y \in Blocks : y # p.victim => nvmeSlot'[y] = nvmeSlot[y]
            /\ \A y \in Blocks : SpillBacking(q, p.victim)[y] = nvmeSlot'[y]
        BY <1>a, <1>15, <3>1, DownPlacedMap DEF RecordsInv
      <4> HIDE DEF p, q
      <4>3. q.slot >= 0
        <5>1. NvmeSlots \in SUBSET Nat
          BY <1>0 DEF TierParts, SlotNumbers
        <5>2. QED
          BY <4>2, <5>1, TierSlot
      <4>4. QED
        BY <1>b, <4>1, <4>2, <4>3
    <3>2. CASE ~(CpuPlace(b).victim # NoBlock /\ NvmeOn)
      <4>1. tier[x] = "SSD" \/ nvmeSlot[x] >= 0
        BY <1>15, <2>2, <3>2, StageOutToCpuSteps
      <4>2. nvmeSlot' = nvmeSlot
        BY <1>15, <3>2, StageOutToCpuAlone DEF RecordsInv
      <4>3. QED
        BY <1>b, <4>1, <4>2
    <3>3. QED
      BY <3>1, <3>2
  <2>3. QED
    BY <1>b, <2>1, <2>2 DEF Goal
<1>16. ASSUME NEW b \in Blocks, StageOutToNvme(b) \/ StageOutDropped(b) PROVE Goal
  BY <1>c, <1>16 DEF StageOutToNvme, StageOutDropped, TiersOn
<1>17. ASSUME NEW b \in Blocks, StageInCold(b) PROVE Goal
  <2>1. /\ tier' = [tier EXCEPT ![b] = "GPU"]
        /\ UNCHANGED <<nvmeSlot, thrown, mode, pre>> /\ mode = "admit"
    BY <1>17 DEF StageInCold
  <2>2. \A x \in Blocks : tier'[x] = "SSD" => tier[x] = "SSD"
    BY <1>s, <2>1
  <2>3. QED
    BY <1>u, <2>1, <2>2
<1>18. ASSUME NEW b \in Blocks, StageInThrows(b) PROVE Goal
  <2>1. nvmeSlot[b] >= 0 /\ nvme.map[b] = NoSlot
    BY <1>0, <1>a, <1>b, <1>18, SizesAssumption DEF StageInThrows, ReadsFile, ByteTypes
  <2>2. QED
    BY <1>m, <2>1, NoCopy
<1>19. Goal
  BY <1>a, <1>2, <1>3, <1>4, <1>5, <1>6, <1>7, <1>8, <1>9, <1>11, <1>12, <1>13, <1>14,
     <1>15, <1>16, <1>17, <1>18 DEF Next, Request, Progress
<1>20. QED
  BY <1>19 DEF Goal

\* A step that demotes no block leaves the resident blocks on the GPU.
LEMMA QuietSeats ==
    ASSUME SlotInv, QuietStep, NEW x \in Blocks, OnGpu(x)
    PROVE  OnGpu(x)'
<1>0. /\ tier \in [Blocks -> {"GPU", "CPU", "SSD"}]
      /\ gpuSlot \in [Blocks -> GpuSlots \cup {NoSlot}] /\ free \subseteq GpuSlots
      /\ \A b \in Blocks : ~Registered(b) => gpuSlot[b] = NoSlot
  BY DEF SlotInv, ControlTypeOK, UnregisteredUnseated
<1>1. tier[x] = "GPU" /\ gpuSlot[x] >= 0 /\ gpuSlot[x] # NoSlot /\ ~(gpuSlot[x] < 0)
  <2>1. tier[x] = "GPU" /\ gpuSlot[x] >= 0 /\ gpuSlot[x] \in Int
    BY <1>0, SlotIsInt DEF OnGpu
  <2>2. QED
    BY <2>1, SlotIsInt
<1>u. ASSUME tier'[x] = "GPU", gpuSlot'[x] = gpuSlot[x] PROVE OnGpu(x)'
  BY <1>1, <1>u DEF OnGpu
<1> USE DEF store
<1>2. ASSUME NEW k \in 1 .. MaxAppend, AppendUnderPressure(k) \/ AppendDirect(k)
      PROVE  OnGpu(x)'
  <2>1. CASE AppendUnderPressure(k)
    BY <1>1, <1>u, <2>1 DEF AppendUnderPressure
  <2>2. CASE AppendDirect(k)
    <3>1. x \notin Unseated(k)
      BY <1>1 DEF Unseated
    <3>2. tier'[x] = tier[x] /\ gpuSlot'[x] = gpuSlot[x]
      BY <2>2, <3>1 DEF AppendDirect
    <3>3. QED
      BY <1>1, <1>u, <3>2
  <2>3. QED
    BY <1>2, <2>1, <2>2
<1>3. ASSUME NEW k \in 1 .. MaxAppend, AppendRefused(k) PROVE OnGpu(x)'
  <2>1. \/ tier' = tier /\ gpuSlot' = gpuSlot
        \/ \E b \in Unseated(k), s \in free : /\ gpuSlot' = [gpuSlot EXCEPT ![b] = s]
                                              /\ tier' = [tier EXCEPT ![b] = "GPU"]
    BY <1>3 DEF AppendRefused
  <2>2. \A b \in Unseated(k) : b # x
    BY <1>1 DEF Unseated
  <2>3. QED
    BY <1>0, <1>1, <1>u, <2>1, <2>2
<1>4. ASSUME NEW S, PrepareSelection(S) PROVE OnGpu(x)'
  BY <1>1, <1>4, <1>u DEF PrepareSelection
<1>5. ASSUME \/ BeginCachedTurn \/ KeepSelected \/ CommitResident \/ SpillBegin
             \/ SpillThrows \/ AdmitBegin \/ FinishAppend \/ Compute \/ UnwindSelect
             \/ UNCHANGED vars
      PROVE  tier' = tier /\ gpuSlot' = gpuSlot
  BY <1>5
  DEF BeginCachedTurn, KeepSelected, CommitResident, SpillBegin, SpillThrows,
      AdmitBegin, FinishAppend, Compute, UnwindSelect, vars
<1>6. ASSUME NEW b, StageInResident(b) PROVE OnGpu(x)'
  BY <1>1, <1>6, <1>u DEF StageInResident
<1>7. CASE FinishSelection
  <2>1. CASE RewriteStagedIn
    BY <1>1, <1>u, <2>1 DEF RewriteStagedIn
  <2>2. CASE Relayout
    <3>1. x \in Seated
      BY <1>0, <1>1 DEF Seated, Registered
    <3>2. tier'[x] = "GPU" /\ gpuSlot'[x] \in GpuSlots
      BY <2>2, <3>1 DEF Relayout
    <3>3. QED
      BY <3>2 DEF OnGpu, GpuSlots
  <2>3. QED
    BY <1>7, <2>1, <2>2 DEF FinishSelection
<1>8. QED
  BY <1>1, <1>u, <1>2, <1>3, <1>4, <1>5, <1>6, <1>7 DEF QuietStep

\* Admission seats the block: the pool still holds a slot for it.
LEMMA AdmittedSeated ==
    ASSUME WorkingSetInv, ~thrown, NEW b \in Blocks, StageInCold(b)
    PROVE  OnGpu(b)'
<1>1. mode = "admit" /\ b \in todo /\ ~OnGpu(b)
  BY DEF StageInCold, Admitting, First
<1>2. /\ tier \in [Blocks -> {"GPU", "CPU", "SSD"}] /\ todo \subseteq Blocks
      /\ gpuSlot \in [Blocks -> GpuSlots \cup {NoSlot}] /\ free \subseteq GpuSlots
  BY DEF WorkingSetInv, SlotInv, ControlTypeOK
<1> DEFINE cold == {x \in todo : ~OnGpu(x)}
<1>3. Cardinality(cold) <= Cardinality(free)
  BY <1>1, RoomForAll
<1>4. cold \subseteq Blocks /\ b \in cold
  BY <1>1, <1>2
<1>5. free # {}
  <2> SUFFICES ASSUME free = {} PROVE FALSE
    OBVIOUS
  <2> HIDE DEF cold
  <2>1. IsFiniteSet(cold) /\ Cardinality(cold) \in Nat
    BY <1>4, FiniteBlocks
  <2>2. Cardinality(free) = 0
    BY FS_EmptySet
  <2>3. Cardinality(cold) = 0
    BY <1>3, <2>1, <2>2
  <2>4. QED
    BY <1>4, <2>1, <2>3, FS_EmptySet
<1>6. PICK s \in free : gpuSlot' = [gpuSlot EXCEPT ![b] = s]
  BY <1>5 DEF StageInCold, Allocatable
<1>7. tier' = [tier EXCEPT ![b] = "GPU"]
  BY DEF StageInCold
<1>8. gpuSlot'[b] \in GpuSlots /\ tier'[b] = "GPU"
  BY <1>2, <1>6, <1>7
<1>9. QED
  BY <1>8 DEF OnGpu, GpuSlots

\* What stage_out to the arena does to the GPU records of the other blocks.
LEMMA OthersSeated ==
    ASSUME NEW b \in Blocks, StageOutToCpu(b) \/ StageOutToNvme(b), SlotInv,
           NEW x \in Blocks, x # b, OnGpu(x)
    PROVE  OnGpu(x)'
<1>0. /\ tier \in [Blocks -> {"GPU", "CPU", "SSD"}]
      /\ gpuSlot \in [Blocks -> GpuSlots \cup {NoSlot}]
  BY DEF SlotInv, ControlTypeOK
<1>1. tier[x] = "GPU" /\ gpuSlot[x] >= 0
  BY DEF OnGpu
<1>2. CASE StageOutToCpu(b)
  <2>1. tier'[x] = "GPU" /\ gpuSlot'[x] = gpuSlot[x]
    BY <1>1, <1>2 DEF StageOutToCpu
  <2>2. QED
    BY <1>1, <2>1 DEF OnGpu
<1>3. CASE StageOutToNvme(b)
  <2>1. tier' = [tier EXCEPT ![b] = "SSD"] /\ gpuSlot' = [gpuSlot EXCEPT ![b] = NoSlot]
    BY <1>3 DEF StageOutToNvme
  <2>2. QED
    BY <1>0, <1>1, <2>1 DEF OnGpu
<1>4. QED
  BY <1>2, <1>3

\* The copy of a block in the file, when it is the only one.
FileCopy(x) == nvmeSlot[x] >= 0 /\ (CpuOn => ~OnGpu(x) /\ cpuSlot[x] < 0)

LEMMA NextFileCopies == CopiesInv /\ [Next]_vars => FileCopiesLast'
<1> SUFFICES ASSUME CopiesInv, [Next]_vars, faults' = 0, NEW x \in Blocks, FileCopy(x)'
             PROVE  nvme'.mem[nvmeSlot'[x]] = spilled'[x]
  BY DEF FileCopiesLast, FileCopy
<1> DEFINE Goal == nvme'.mem[nvmeSlot'[x]] = spilled'[x]
<1> HIDE DEF Goal
<1>0. TierParts /\ ByteTypes /\ SlotInv /\ RecordsInv /\ TiersInv
  BY DEF CopiesInv, TiersInv, RecordsInv
<1>a. faults = 0 /\ \A b \in Blocks : ~VictimSpillThrows(b) /\ ~BlockSpillThrows(b)
  BY <1>0, FaultFree
<1>b. \A y \in Blocks : FileCopy(y) => nvme.mem[nvmeSlot[y]] = spilled[y]
  BY <1>a DEF CopiesInv, FileCopiesLast, FileCopy
<1>c. CpuOn' = CpuOn /\ NvmeOn' = NvmeOn
  BY <1>0, NextFileHolds DEF RecordsInv
<1>d. /\ nvmeSlot'[x] >= 0
      /\ CpuOn => ~OnGpu(x)' /\ cpuSlot'[x] < 0
  BY <1>c DEF FileCopy
\* The copy is the old one.
<1>u. ASSUME nvme'.mem[nvmeSlot[x]] = nvme.mem[nvmeSlot[x]], spilled'[x] = spilled[x],
             nvmeSlot'[x] = nvmeSlot[x],
             CpuOn => (OnGpu(x) => OnGpu(x)') /\ cpuSlot[x] < 0
      PROVE  Goal
  <2>1. FileCopy(x)
    BY <1>d, <1>u DEF FileCopy
  <2>2. QED
    BY <1>b, <1>u, <2>1 DEF Goal
<1>s. /\ spilled \in [Blocks -> Bytes] /\ cpuSlot \in [Blocks -> CpuSlots \cup {NoSlot}]
      /\ nvmeSlot \in [Blocks -> NvmeSlots \cup {NoSlot}] /\ nvme.mem \in [NvmeSlots -> Bytes]
  BY <1>0 DEF ByteTypes, TierParts, TierType
<1>1. ASSUME QuietStep PROVE Goal
  <2>1. /\ cpu' = cpu /\ nvme' = nvme /\ spilled' = spilled
        /\ cpuSlot' = cpuSlot /\ nvmeSlot' = nvmeSlot
    BY <1>1, QuietTiers
  <2>2. OnGpu(x) => OnGpu(x)'
    BY <1>0, <1>1, QuietSeats
  <2>3. QED
    BY <1>d, <1>u, <2>1, <2>2
<1>2. ASSUME NEW p, TruncateRecords(p), spilled' = spilled PROVE Goal
  <2>1. nvme'.mem = nvme.mem
    BY <1>0, <1>2, TruncateAgrees
  <2>2. /\ cpuSlot'[x] = cpuSlot[x] /\ nvmeSlot'[x] = nvmeSlot[x]
        /\ tier'[x] = tier[x] /\ gpuSlot'[x] = gpuSlot[x]
    BY <1>0, <1>2, <1>d, TruncateHolds, NoCopy
  <2>3. OnGpu(x)' = OnGpu(x)
    BY <2>2 DEF OnGpu
  <2>4. QED
    BY <1>2, <1>d, <1>u, <2>1, <2>2, <2>3
<1>3. ASSUME NEW p, TruncateCached(p) PROVE Goal
  BY <1>2, <1>3 DEF TruncateCached, history
<1>4. ASSUME Clear \/ UnwindAppend PROVE Goal
  <2>1. spilled' = spilled /\ (TruncateRecords(0) \/ TruncateRecords(plan.t0))
    BY <1>4 DEF Clear, UnwindAppend, history
  <2>2. QED
    BY <1>2, <2>1
<1>5. ASSUME NEW b \in Blocks, PrefetchRead(b) \/ PrefetchThrows(b) \/ StageInThrows(b)
      PROVE  Goal
  <2>1. /\ nvme' = nvme \/ nvme' = Touch(nvme, b)
        /\ spilled' = spilled /\ cpuSlot' = cpuSlot /\ nvmeSlot' = nvmeSlot
        /\ tier' = tier /\ gpuSlot' = gpuSlot
    BY <1>5 DEF PrefetchRead, PrefetchThrows, StageInThrows, store, tiers, history
  <2>2. nvme'.mem = nvme.mem
    BY <1>0, <2>1, TouchFields DEF TierParts
  <2>3. OnGpu(x)' = OnGpu(x)
    BY <2>1 DEF OnGpu
  <2>4. QED
    BY <1>d, <1>u, <2>1, <2>2, <2>3
<1>6. ASSUME NEW b \in Blocks, StageOutToCpu(b) PROVE Goal
  <2> DEFINE p == CpuPlace(b)
             q == DownPlace(b)
  <2>0. CpuOn /\ spilled' = [spilled EXCEPT ![b] = Outgoing(b)]
    BY <1>6 DEF StageOutToCpu, Unseat
  <2>1. /\ \A y \in Blocks : y # b /\ y # p.victim => cpuSlot'[y] = cpuSlot[y]
        /\ cpuSlot'[b] = p.slot /\ p.slot \in CpuSlots
        /\ p.victim # NoBlock => p.victim \in Blocks \ {b} /\ cpuSlot[p.victim] = p.slot
    <3>1. TiersInv /\ CpuAgrees /\ faults = 0 /\ StageOutToCpu(b)
      BY <1>a, <1>6 DEF CopiesInv
    <3>2. /\ p.slot \in CpuSlots /\ cpuSlot'[b] = p.slot
          /\ \A y \in Blocks : y # b /\ y # p.victim =>
               cpuSlot[y] # p.slot /\ cpuSlot'[y] = cpuSlot[y]
          /\ p.victim # NoBlock =>
               /\ p.victim \in Blocks \ {b} /\ Registered(p.victim)
               /\ cpuSlot[p.victim] = p.slot /\ cpuSlot'[p.victim] = NoSlot
      BY <3>1, CpuPlacedMap
    <3>3. QED
      BY <3>2
  <2>2. x # b
    <3>1. p.slot \in CpuSlots /\ CpuSlots \in SUBSET Nat /\ cpuSlot'[x] < 0
      BY <1>0, <1>d, <2>0, <2>1 DEF TierParts, SlotNumbers
    <3> HIDE DEF p
    <3>2. p.slot \in Nat
      BY <3>1
    <3>3. QED
      BY <2>1, <3>1, <3>2
  <2>3. spilled'[x] = spilled[x] /\ (OnGpu(x) => OnGpu(x)')
    BY <1>0, <1>6, <1>s, <2>0, <2>2, OthersSeated
  <2>4. CASE p.victim # NoBlock /\ NvmeOn
    <3>1. /\ nvme'.mem = [nvme.mem EXCEPT ![q.slot] = cpu.mem[p.slot]]
          /\ q.slot \in NvmeSlots /\ nvmeSlot'[p.victim] = q.slot
          /\ \A y \in Blocks : y # p.victim => nvmeSlot'[y] = nvmeSlot[y] /\ nvmeSlot[y] # q.slot
      BY <1>0, <1>a, <1>6, <2>4, DownPlacedMap DEF CopiesInv
    <3>2. CASE x = p.victim
      <4>1. cpuSlot[x] = p.slot /\ cpuSlot[x] >= 0
        BY <1>0, <2>1, <2>4, <3>2, CopyType
      <4>2. cpu.mem[p.slot] = spilled[x]
        BY <1>a, <4>1 DEF CopiesInv, CpuCopiesLast
      <4> HIDE DEF p, q
      <4>3. QED
        BY <1>s, <2>3, <3>1, <3>2, <4>2 DEF Goal
    <3>3. CASE x # p.victim
      <4> HIDE DEF p, q
      <4>1. /\ nvmeSlot'[x] = nvmeSlot[x] /\ nvmeSlot[x] # q.slot
            /\ cpuSlot'[x] = cpuSlot[x]
        BY <2>1, <2>2, <3>1, <3>3
      <4>2. nvmeSlot[x] \in NvmeSlots
        BY <1>0, <1>d, <4>1, CopyType
      <4>3. nvme'.mem[nvmeSlot[x]] = nvme.mem[nvmeSlot[x]]
        BY <1>s, <3>1, <4>1, <4>2
      <4>4. QED
        BY <1>d, <1>u, <2>3, <4>1, <4>3
    <3>4. QED
      BY <3>2, <3>3
  <2>5. CASE ~(p.victim # NoBlock /\ NvmeOn)
    <3>1. nvme' = nvme /\ nvmeSlot' = nvmeSlot
      BY <1>0, <1>6, <2>5, StageOutToCpuAlone
    <3>2. x # p.victim
      <4>1. NvmeOn
        BY <1>0, <1>d, <3>1, TierOff, NoCopy
      <4>2. QED
        BY <2>5, <4>1, NoBlockIsNone
    <3>3. cpuSlot'[x] = cpuSlot[x]
      BY <2>1, <2>2, <3>2
    <3>4. QED
      BY <1>d, <1>u, <2>0, <2>3, <3>1, <3>3
  <2>6. QED
    BY <2>4, <2>5
<1>7. ASSUME NEW b \in Blocks, StageOutToNvme(b) PROVE Goal
  <2> DEFINE q == FilePlace(b)
             d == Outgoing(b)
  <2>0. ~CpuOn /\ spilled' = [spilled EXCEPT ![b] = d]
    BY <1>7 DEF StageOutToNvme, Unseat
  <2>1. /\ nvme'.mem = [nvme.mem EXCEPT ![q.slot] = d] /\ q.slot \in NvmeSlots
        /\ nvmeSlot'[b] = q.slot
        /\ \A y \in Blocks : y # b /\ nvmeSlot'[y] # NoSlot =>
             nvmeSlot'[y] = nvmeSlot[y] /\ nvmeSlot[y] # q.slot
    BY <1>0, <1>a, <1>7, FilePlacedMap DEF CopiesInv
  <2> HIDE DEF q, d
  <2>2. CASE x = b
    BY <1>s, <2>0, <2>1, <2>2 DEF Goal
  <2>3. CASE x # b
    <3>1. nvmeSlot'[x] # NoSlot
      BY <1>d, NoCopy
    <3>2. nvmeSlot'[x] = nvmeSlot[x] /\ nvmeSlot[x] # q.slot /\ spilled'[x] = spilled[x]
      BY <1>s, <2>0, <2>1, <2>3, <3>1
    <3>3. nvmeSlot[x] \in NvmeSlots
      BY <1>s, <3>1, <3>2
    <3>4. nvme'.mem[nvmeSlot[x]] = nvme.mem[nvmeSlot[x]]
      BY <1>s, <2>1, <3>2, <3>3
    <3>5. QED
      BY <1>u, <2>0, <3>2, <3>4
  <2>4. QED
    BY <2>2, <2>3
<1>8. ASSUME NEW b \in Blocks, StageOutDropped(b) PROVE Goal
  <2>1. ~NvmeOn /\ nvmeSlot' = nvmeSlot
    BY <1>8 DEF StageOutDropped, TiersOn
  <2>2. QED
    BY <1>0, <1>d, <2>1, TierOff, NoCopy
<1>9. ASSUME NEW b \in Blocks, StageInCold(b) PROVE Goal
  <2>1. /\ cpuSlot' = [cpuSlot EXCEPT ![b] = NoSlot] /\ nvmeSlot' = nvmeSlot
        /\ nvme' = nvme \/ nvme' = Touch(nvme, b)
        /\ spilled' = spilled
        /\ tier' = [tier EXCEPT ![b] = "GPU"]
        /\ \E s \in Allocatable : gpuSlot' = [gpuSlot EXCEPT ![b] = s]
    BY <1>9 DEF StageInCold, history
  <2>2. nvme'.mem = nvme.mem
    BY <1>0, <2>1, TouchFields DEF TierParts
  <2>3. CASE CpuOn /\ x = b
    <3>1. ~thrown
      BY <1>a, <2>3 DEF CopiesInv, NoSurprise
    <3>2. OnGpu(x)'
      BY <1>9, <2>3, <3>1, AdmittedSeated DEF CopiesInv
    <3>3. QED
      BY <1>d, <2>3, <3>2
  <2>4. CASE CpuOn /\ x # b
    <3>1. cpuSlot'[x] = cpuSlot[x] /\ tier'[x] = tier[x] /\ gpuSlot'[x] = gpuSlot[x]
      <4>1. /\ tier \in [Blocks -> {"GPU", "CPU", "SSD"}]
            /\ gpuSlot \in [Blocks -> GpuSlots \cup {NoSlot}]
        BY <1>0 DEF SlotInv, ControlTypeOK
      <4>2. QED
        BY <1>s, <2>1, <2>4, <4>1
    <3>2. OnGpu(x) = OnGpu(x)'
      BY <3>1 DEF OnGpu
    <3>3. QED
      BY <1>d, <1>u, <2>1, <2>2, <2>4, <3>1, <3>2
  <2>5. CASE ~CpuOn
    BY <1>u, <2>1, <2>2, <2>5
  <2>6. QED
    BY <2>3, <2>4, <2>5
<1>10. Goal
  BY <1>a, <1>1, <1>3, <1>4, <1>5, <1>6, <1>7, <1>8, <1>9, StepKinds
<1>11. QED
  BY <1>10 DEF Goal

LEMMA CopiesInvStep == CopiesInv /\ [Next]_vars => CopiesInv'
<1> SUFFICES ASSUME CopiesInv, [Next]_vars PROVE CopiesInv'
  OBVIOUS
<1>1. RecordsInv /\ WorkingSetInv /\ CpuCopiesLast /\ NoSurprise
  BY DEF CopiesInv, RecordsInv
<1>2. RecordsInv'
  BY <1>1, RecordsInvStep
<1>3. WorkingSetInv'
  BY <1>1, SlotInvStep, NextCellsType, NextUnmarked, NextFits DEF WorkingSetInv
<1>4. CpuCopiesLast'
  BY <1>1, NextCpuCopies DEF RecordsInv
<1>5. NoSurprise'
  BY <1>1, NextNoSurprise
<1>6. FileCopiesLast'
  BY NextFileCopies
<1>7. QED
  BY <1>2, <1>3, <1>4, <1>5, <1>6 DEF CopiesInv, RecordsInv

LEMMA InitCopies == Init /\ FileHoldsAll => CopiesInv
<1> SUFFICES ASSUME Init, FileHoldsAll PROVE CopiesInv
  OBVIOUS
<1>1. CpuCopiesLast /\ FileCopiesLast
  BY NoCopy DEF Init, CpuCopiesLast, FileCopiesLast
<1>2. NoSurprise
  BY DEF Init, NoSurprise
<1>3. QED
  BY <1>1, <1>2, InitTiers, InitAgrees, InitWorkingSet DEF CopiesInv

\* The best copy of a block that is off the GPU, the arena's or else the file's,
\* holds the bytes of its last stage_out: no eviction, truncation or reuse of a
\* slot leaves a stale copy in front of a current one.
THEOREM CopiesAreCurrent == Spec /\ FileHoldsAll => []CopiesHoldLastSpill
<1>1. CopiesInv => CopiesHoldLastSpill
  <2> SUFFICES ASSUME CopiesInv, faults = 0, NEW b \in Live(total), ~OnGpu(b)
               PROVE  /\ cpuSlot[b] >= 0 => cpu.mem[cpuSlot[b]] = spilled[b]
                      /\ cpuSlot[b] < 0 /\ nvmeSlot[b] >= 0 =>
                           nvme.mem[nvmeSlot[b]] = spilled[b]
    BY DEF CopiesHoldLastSpill
  <2>1. b \in Blocks
    BY DEF Live
  <2>2. QED
    BY <2>1 DEF CopiesInv, CpuCopiesLast, FileCopiesLast
<1>2. QED
  BY <1>1, InitCopies, CopiesInvStep, PTL DEF Spec

-----------------------------------------------------------------------------
(* Bytes read ahead are still the last spill when they are staged in.       *)

LEMMA NextReadAhead == RestoreInv /\ [Next]_vars => ReadAheadLast'
<1> SUFFICES ASSUME RestoreInv, [Next]_vars PROVE ReadAheadLast'
  OBVIOUS
<1>0. /\ CopiesInv /\ TiersInv /\ TierParts /\ ByteTypes /\ OneTier /\ ReadAheadLast
      /\ faults \in Nat
  BY SizesAssumption DEF RestoreInv, CopiesInv, TiersInv, ByteTypes
<1>r. /\ plan.in \cap plan.out = {}
      /\ mode = "spill" => todo \subseteq plan.out
      /\ mode \in {"fetch", "spill"} => \A b \in Blocks : pre[b].st # "none" => b \in plan.in
      /\ faults = 0 /\ mode \in {"fetch", "spill", "admit"} =>
           \A b \in Blocks : pre[b].st = "ready" => pre[b].bytes = spilled[b]
  BY <1>0 DEF ReadAheadLast
\* A plan is over, or was never begun.
<1>i. ASSUME plan'.in \cap plan'.out = {}, mode' \notin {"fetch", "spill", "admit"}
      PROVE  ReadAheadLast'
  BY <1>i DEF ReadAheadLast
\* A plan goes on, and nothing is read or spilled.
<1>u. ASSUME plan' = plan, pre' = pre, faults' = faults, spilled' = spilled,
             mode' = "spill" => todo' \subseteq plan.out,
             mode \in {"fetch", "spill", "admit"},
             mode' \in {"fetch", "spill"} => mode \in {"fetch", "spill"}
      PROVE  ReadAheadLast'
  BY <1>r, <1>u DEF ReadAheadLast
<1> USE DEF history, Throw, Spilling, Admitting
<1>1. ASSUME NEW S, NEW t, NEW kind, SetSelection(S, t, kind) PROVE ReadAheadLast'
  <2>1. /\ mode' = "fetch" /\ plan'.in = PlanIn(S) /\ plan'.out = PlanOut(S, t)
        /\ \A b \in Blocks : pre'[b].st # "none" => b \in Prefetched(PlanIn(S))
        /\ \A b \in Blocks : pre'[b].st # "ready"
    BY <1>1 DEF SetSelection, Idle
  <2>2. PlanIn(S) \cap PlanOut(S, t) = {} /\ Prefetched(PlanIn(S)) \subseteq PlanIn(S)
    BY DEF PlanIn, PlanOut, Prefetched
  <2>3. QED
    BY <2>1, <2>2 DEF ReadAheadLast
<1>2. ASSUME NEW k \in 1 .. MaxAppend, AppendUnderPressure(k) PROVE ReadAheadLast'
  BY <1>1, <1>2 DEF AppendUnderPressure
<1>3. ASSUME NEW k \in 1 .. MaxAppend, AppendDirect(k) PROVE ReadAheadLast'
  <2>1. plan'.in = {} /\ mode' = "compute"
    BY <1>3 DEF AppendDirect, NoPlan
  <2>2. QED
    BY <1>i, <2>1
<1>4. ASSUME NEW S, PrepareSelection(S) PROVE ReadAheadLast'
  BY <1>1, <1>4 DEF PrepareSelection
<1>5. CASE CommitResident
  <2>1. plan'.in = {} /\ mode' = "idle"
    BY <1>5 DEF CommitResident, NoPlan
  <2>2. QED
    BY <1>i, <2>1
<1>6. ASSUME plan' = plan, mode' \in {"idle", "compute", "unwind"} PROVE ReadAheadLast'
  BY <1>6, <1>i, <1>r
<1>7. ASSUME NEW k \in 1 .. MaxAppend, AppendRefused(k) PROVE ReadAheadLast'
  BY <1>6, <1>7 DEF AppendRefused, MayAppend
<1>8. ASSUME NEW p, TruncateCached(p) PROVE ReadAheadLast'
  BY <1>6, <1>8 DEF TruncateCached
<1>9. CASE \/ Clear \/ BeginCachedTurn \/ KeepSelected \/ UnwindAppend \/ UnwindSelect
           \/ Compute \/ FinishSelection \/ FinishAppend \/ SpillThrows
  <2>1. plan' = plan /\ mode' \in {"idle", "compute", "unwind"}
    BY <1>9
    DEF Clear, BeginCachedTurn, KeepSelected, UnwindAppend, UnwindSelect, Compute,
        FinishSelection, FinishAppend, SpillThrows
  <2>2. QED
    BY <1>6, <2>1
<1>10. ASSUME NEW b, VictimSpillThrows(b) \/ BlockSpillThrows(b) \/ StageInThrows(b)
       PROVE  ReadAheadLast'
  <2>1. plan' = plan /\ mode' \in {"idle", "compute", "unwind"}
    BY <1>10 DEF VictimSpillThrows, BlockSpillThrows, StageInThrows
  <2>2. QED
    BY <1>6, <2>1
<1>11. ASSUME NEW b, StageInResident(b) \/ StageInCold(b) PROVE ReadAheadLast'
  <2>1. /\ plan' = plan /\ pre' = pre /\ faults' = faults /\ spilled' = spilled
        /\ mode = "admit" /\ mode' = "admit"
    BY <1>11 DEF StageInResident, StageInCold
  <2>2. QED
    BY <1>u, <2>1
<1>12. CASE SpillBegin \/ AdmitBegin
  <2>1. /\ plan' = plan /\ pre' = pre /\ faults' = faults /\ spilled' = spilled
        /\ \/ mode = "fetch" /\ mode' = "spill" /\ todo' = plan.out
           \/ mode = "spill" /\ mode' = "admit"
    BY <1>12 DEF SpillBegin, AdmitBegin
  <2>2. QED
    BY <1>u, <2>1
<1>13. ASSUME NEW b \in Blocks, StageOutToCpu(b) \/ StageOutToNvme(b) \/ StageOutDropped(b)
       PROVE  ReadAheadLast'
  <2>1. /\ plan' = plan /\ pre' = pre /\ faults' = faults /\ mode = "spill" /\ mode' = mode
        /\ spilled' = [spilled EXCEPT ![b] = Outgoing(b)]
        /\ todo' = todo \ {b} /\ b \in todo
    BY <1>13 DEF StageOutToCpu, StageOutToNvme, StageOutDropped, Unseat, First
  <2>2. b \notin plan.in
    BY <1>r, <2>1
  <2>3. \A x \in Blocks : pre[x].st = "ready" => spilled'[x] = spilled[x]
    BY <1>0, <1>r, <2>1, <2>2 DEF ByteTypes
  <2>4. QED
    BY <1>r, <2>1, <2>3 DEF ReadAheadLast
<1>14. ASSUME NEW b \in Blocks, PrefetchRead(b) PROVE ReadAheadLast'
  <2> DEFINE d == nvme.mem[nvme.map[b]]
  <2>1. /\ pre' = [pre EXCEPT ![b] = [st |-> "ready", bytes |-> d]]
        /\ pre[b].st = "reading" /\ nvme.map[b] # NoSlot
        /\ UNCHANGED <<plan, faults, spilled, mode>> /\ mode = "fetch"
    BY <1>14 DEF PrefetchRead
  <2>2. ASSUME faults = 0 PROVE d = spilled[b]
    <3>1. nvmeSlot = nvme.map
      BY <1>0, <2>2 DEF CopiesInv, NvmeAgrees
    <3>2. nvmeSlot[b] >= 0
      BY <1>0, <2>1, <3>1, CopyType
    <3>3. NvmeOn
      BY <1>0, <2>1, <3>1, TierOff
    <3>4. ~CpuOn
      BY <1>0, <3>3 DEF OneTier
    <3>5. QED
      BY <1>0, <2>2, <3>1, <3>2, <3>4 DEF CopiesInv, FileCopiesLast
  <2> HIDE DEF d
  <2>3. \A x \in Blocks : pre'[x] = IF x = b THEN [st |-> "ready", bytes |-> d] ELSE pre[x]
    BY <1>0, <2>1 DEF ByteTypes
  <2>4. QED
    BY <1>r, <2>1, <2>2, <2>3 DEF ReadAheadLast
<1>15. ASSUME NEW b \in Blocks, PrefetchThrows(b) PROVE ReadAheadLast'
  <2>1. /\ pre' = [pre EXCEPT ![b].st = "failed"] /\ pre[b].st = "reading"
        /\ UNCHANGED <<plan, spilled, mode>> /\ mode = "fetch"
        /\ faults' = 0 => faults = 0
    BY <1>0, <1>15 DEF PrefetchThrows
  <2>2. \A x \in Blocks : IF x = b THEN pre'[x].st = "failed" ELSE pre'[x] = pre[x]
    BY <1>0, <2>1 DEF ByteTypes
  <2>3. QED
    BY <1>r, <2>1, <2>2 DEF ReadAheadLast
<1>16. CASE UNCHANGED vars
  BY <1>r, <1>16 DEF vars, ReadAheadLast
<1>17. QED
  BY <1>2, <1>3, <1>4, <1>5, <1>7, <1>8, <1>9, <1>10, <1>11, <1>12, <1>13, <1>14,
     <1>15, <1>16 DEF Next, Request, Progress

LEMMA RestoreInvStep == RestoreInv /\ [Next]_vars => RestoreInv'
<1> SUFFICES ASSUME RestoreInv, [Next]_vars PROVE RestoreInv'
  OBVIOUS
<1>1. CopiesInv' /\ ReadAheadLast'
  BY CopiesInvStep, NextReadAhead DEF RestoreInv
<1>2. CpuOn' = CpuOn /\ NvmeOn' = NvmeOn
  BY NextFileHolds DEF RestoreInv, CopiesInv
<1>3. QED
  BY <1>1, <1>2 DEF RestoreInv, OneTier

\* With one lower tier on, stage_in restores the bytes the block had when it was
\* last staged out, whichever of the three sources they come from: those read
\* ahead, the arena's or a read of the file.
THEOREM OneTierRestores == Spec /\ OneTier => []StageInRestores
<1>1. Init /\ OneTier => RestoreInv
  BY InitCopies DEF Init, NoPlan, Idle, OneTier, FileHoldsAll, ReadAheadLast, RestoreInv
<1>2. RestoreInv => StageInRestores
  <2> SUFFICES ASSUME RestoreInv, faults = 0, NEW b \in Blocks,
                      Admitting(b), ~OnGpu(b), ReadsFile(b) => nvme.map[b] # NoSlot
               PROVE  Source(b) \subseteq {spilled[b]}
    BY DEF StageInRestores
  <2>1. /\ TierParts /\ ByteTypes /\ CpuCopiesLast /\ FileCopiesLast
        /\ nvmeSlot = nvme.map
    BY DEF RestoreInv, CopiesInv, TiersInv, NvmeAgrees
  <2>2. pre[b].st = "ready" => pre[b].bytes = spilled[b]
    BY DEF RestoreInv, ReadAheadLast, Admitting
  <2>3. cpuSlot[b] >= 0 => cpu.mem[cpuSlot[b]] = spilled[b]
    BY <2>1 DEF CpuCopiesLast
  <2>4. ReadsFile(b) => nvme.mem[nvme.map[b]] = spilled[b]
    <3> SUFFICES ASSUME ReadsFile(b) PROVE nvme.mem[nvme.map[b]] = spilled[b]
      OBVIOUS
    <3>1. nvmeSlot[b] >= 0 /\ cpuSlot[b] < 0
      BY <2>1, CopyType DEF ReadsFile
    <3>2. QED
      BY <2>1, <3>1 DEF FileCopiesLast
  <2>5. QED
    BY <2>2, <2>3, <2>4 DEF Source
<1>3. QED
  BY <1>1, <1>2, RestoreInvStep, PTL DEF Spec
=============================================================================

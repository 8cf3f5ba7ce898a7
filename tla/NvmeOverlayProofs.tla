------------------------- MODULE NvmeOverlayProofs -------------------------
(* The overlay implements one memory, for any number of threads, slots and  *)
(* parts, any archive length and any number of writes and faults.           *)
EXTENDS NvmeOverlay, FiniteSetTheorems, TLAPS

-----------------------------------------------------------------------------
(* Type correctness.                                                        *)

LEMMA BaseType == base \in [Slots -> [Parts -> Values \ {Sparse}]]
BY OverlayAssumption DEF base, Values, Sparse, Archived, EndOf, Slots, Parts

LEMMA SparseType == Sparse \in Values
BY OverlayAssumption DEF Values, Sparse

LEMMA IdleType == Idle \in Calls
BY OverlayAssumption, SparseType DEF Idle, Calls, Pcs, Slots

LEMMA CopyUpType == \A P \in SUBSET Parts : CopyUp(P) \in SUBSET Parts
BY DEF CopyUp

LEMMA InitType == Init => TypeOK
BY OverlayAssumption, SparseType, IdleType DEF Init, TypeOK

\* A thread's step moves its call, and only its call, to another place.
LEMMA Moved ==
    ASSUME TypeOK, NEW t \in Threads, NEW pc \in Pcs, NEW T \in SUBSET Parts,
           op' = [op EXCEPT ![t].pc = pc, ![t].todo = T]
    PROVE  /\ op' \in [Threads -> Calls]
           /\ \A u \in Threads \ {t} : op'[u] = op[u]
           /\ op'[t].pc = pc /\ op'[t].todo = T
           /\ op'[t].slot = op[t].slot /\ op'[t].parts = op[t].parts
           /\ op'[t].val = op[t].val /\ op'[t].got = op[t].got
BY DEF TypeOK, Calls

LEMMA Went ==
    ASSUME TypeOK, NEW t \in Threads, NEW pc \in Pcs, Goto(t, pc)
    PROVE  /\ op' \in [Threads -> Calls]
           /\ \A u \in Threads \ {t} : op'[u] = op[u]
           /\ op'[t].pc = pc /\ op'[t].todo = op[t].todo
           /\ op'[t].slot = op[t].slot /\ op'[t].parts = op[t].parts
           /\ op'[t].val = op[t].val /\ op'[t].got = op[t].got
BY DEF TypeOK, Calls, Goto

LEMMA CallType ==
    ASSUME TypeOK, NEW t \in Threads, NEW s \in Slots, NEW P \in SUBSET Parts,
           WriteCall(t, s, P) \/ ReadCall(t, s, P)
    PROVE  TypeOK' /\ \A u \in Threads \ {t} : op'[u] = op[u]
<1>1. CASE WriteCall(t, s, P)
  <2>1. gen + 2 \in Values /\ gen + 1 \in 0 .. MaxWrites
    BY <1>1, OverlayAssumption DEF WriteCall, TypeOK, Values
  <2>2. op'[t] \in Calls
    BY <1>1, <2>1 DEF WriteCall, TypeOK, Calls, Pcs
  <2>3. QED
    BY <1>1, <2>1, <2>2 DEF WriteCall, TypeOK
<1>2. CASE ReadCall(t, s, P)
  <2>1. op'[t] \in Calls
    BY <1>2, SparseType DEF ReadCall, TypeOK, Calls, Pcs
  <2>2. QED
    BY <1>2, <2>1 DEF ReadCall, TypeOK
<1>3. QED
  BY <1>1, <1>2

\* What each step does to the call of its thread.
LEMMA WriteClaimOp ==
    ASSUME TypeOK, NEW t \in Threads, WriteClaim(t)
    PROVE  /\ op' \in [Threads -> Calls]
           /\ \A u \in Threads \ {t} : op'[u] = op[u]
           /\ op'[t].pc = "copy" /\ op'[t].todo = CopyUp(op[t].parts)
           /\ op'[t].slot = op[t].slot /\ op'[t].parts = op[t].parts
           /\ op'[t].val = op[t].val /\ op'[t].got = op[t].got
<1>1. CopyUp(op[t].parts) \in SUBSET Parts
  BY CopyUpType DEF TypeOK, Calls
<1>2. QED
  BY <1>1 DEF WriteClaim, TypeOK, Calls, Pcs

LEMMA TodoOp ==
    ASSUME TypeOK, NEW t \in Threads, NEW p \in Parts,
           op' = [op EXCEPT ![t].todo = @ \ {p}]
    PROVE  /\ op' \in [Threads -> Calls]
           /\ \A u \in Threads \ {t} : op'[u] = op[u]
           /\ op'[t].pc = op[t].pc /\ op'[t].todo = op[t].todo \ {p}
           /\ op'[t].slot = op[t].slot /\ op'[t].parts = op[t].parts
           /\ op'[t].val = op[t].val /\ op'[t].got = op[t].got
BY DEF TypeOK, Calls

LEMMA CopyDoneOp ==
    ASSUME TypeOK, NEW t \in Threads, CopyDone(t)
    PROVE  /\ op' \in [Threads -> Calls]
           /\ \A u \in Threads \ {t} : op'[u] = op[u]
           /\ op'[t].pc = "own" /\ op'[t].todo = op[t].parts
           /\ op'[t].slot = op[t].slot /\ op'[t].parts = op[t].parts
           /\ op'[t].val = op[t].val /\ op'[t].got = op[t].got
BY DEF CopyDone, TypeOK, Calls, Pcs

LEMMA ReadPartOp ==
    ASSUME TypeOK, NEW t \in Threads, NEW p \in Parts,
           op[t].pc \in {"over", "base"},
           op' = [op EXCEPT ![t].todo = @ \ {p}, ![t].got[p] = Source(t)[p]]
    PROVE  /\ op' \in [Threads -> Calls]
           /\ \A u \in Threads \ {t} : op'[u] = op[u]
           /\ op'[t].pc = op[t].pc /\ op'[t].todo = op[t].todo \ {p}
           /\ op'[t].slot = op[t].slot /\ op'[t].parts = op[t].parts
           /\ op'[t].val = op[t].val
           /\ op'[t].got = [op[t].got EXCEPT ![p] = Source(t)[p]]
<1>1. Source(t)[p] \in Values
  BY BaseType DEF Source, TypeOK, Calls
<1> HIDE DEF Source
<1>2. QED
  BY <1>1 DEF TypeOK, Calls

LEMMA PutType ==
    ASSUME TypeOK, NEW s \in Slots, NEW p \in Parts, NEW v \in Values, Put(s, p, v)
    PROVE  over' \in [Slots -> [Parts -> Values]]
BY DEF TypeOK, Put

LEMMA StateType ==
    ASSUME TypeOK, NEW s \in Slots, NEW x \in {"base", "initializing", "valid"},
           state' = [state EXCEPT ![s] = x]
    PROVE  state' \in [Slots -> {"base", "initializing", "valid"}]
BY DEF TypeOK

LEMMA FaultType == TypeOK /\ (Fault \/ UNCHANGED faults) => faults' \in 0 .. MaxFaults
BY OverlayAssumption DEF TypeOK, Fault

LEMMA StepType ==
    ASSUME TypeOK, NEW t \in Threads, Step(t)
    PROVE  TypeOK'
<1> DEFINE s == op[t].slot
<1>0. op[t] \in Calls /\ s \in Slots
  BY DEF TypeOK, Calls
<1>1. CASE WriteClaim(t)
  <2>1. state' \in [Slots -> {"base", "initializing", "valid"}]
    BY <1>0, <1>1, StateType DEF WriteClaim
  <2>2. QED
    BY <1>1, <2>1, WriteClaimOp DEF WriteClaim, TypeOK
<1>2. CASE WriteFound(t)
  BY <1>2, Went DEF WriteFound, TypeOK, Pcs
<1>3. CASE CopyPart(t)
  <2>1. PICK p \in Parts :
            /\ op[t].pc = "copy" /\ First(op[t].todo, p)
            /\ Put(s, p, base[s][p])
            /\ op' = [op EXCEPT ![t].todo = @ \ {p}]
            /\ UNCHANGED <<state, gen, faults>>
    BY <1>3 DEF CopyPart
  <2>2. over' \in [Slots -> [Parts -> Values]]
    BY <1>0, <2>1, PutType, BaseType
  <2>3. QED
    BY <2>1, <2>2, TodoOp DEF TypeOK
<1>4. CASE CopyDone(t)
  BY <1>4, CopyDoneOp DEF CopyDone, TypeOK
<1>5. CASE WritePart(t)
  <2>1. PICK p \in Parts :
            /\ Put(s, p, op[t].val)
            /\ op' = [op EXCEPT ![t].todo = @ \ {p}]
            /\ UNCHANGED <<state, gen, faults>>
    BY <1>5 DEF WritePart
  <2>2. op[t].val \in Values
    BY <1>0 DEF Calls
  <2>3. over' \in [Slots -> [Parts -> Values]]
    BY <1>0, <2>1, <2>2, PutType
  <2>4. QED
    BY <2>1, <2>3, TodoOp DEF TypeOK
<1>6. CASE Publish(t)
  <2>1. state' \in [Slots -> {"base", "initializing", "valid"}]
    BY <1>0, <1>6, StateType DEF Publish
  <2>2. QED
    BY <1>6, <2>1, Went DEF Publish, TypeOK, Pcs
<1>7. CASE InitFails(t)
  <2>1. state' \in [Slots -> {"base", "initializing", "valid"}]
    BY <1>0, <1>7, StateType DEF InitFails, Reverted
  <2>2. QED
    BY <1>7, <2>1, Went, FaultType DEF InitFails, TypeOK, Pcs
<1>8. CASE ChooseFile(t)
  BY <1>8, Went DEF ChooseFile, FileOf, TypeOK, Pcs
<1>9. CASE ReadPart(t)
  <2>1. PICK p \in Parts :
            /\ op[t].pc \in {"over", "base"}
            /\ op' = [op EXCEPT ![t].todo = @ \ {p}, ![t].got[p] = Source(t)[p]]
            /\ UNCHANGED <<state, over, gen, faults>>
    BY <1>9 DEF ReadPart
  <2>2. QED
    BY <2>1, ReadPartOp DEF TypeOK
<1>10. CASE CallDone(t)
  BY <1>10, Went DEF CallDone, TypeOK, Pcs
<1>11. CASE CallFails(t)
  BY <1>11, Went, FaultType DEF CallFails, TypeOK, Pcs
<1>12. CASE Return(t)
  BY <1>12, IdleType DEF Return, TypeOK
<1>13. QED
  BY <1>1, <1>2, <1>3, <1>4, <1>5, <1>6, <1>7, <1>8, <1>9, <1>10, <1>11, <1>12 DEF Step

LEMMA StutterType == TypeOK /\ UNCHANGED vars => TypeOK'
BY DEF TypeOK, vars

\* The calls, the slots' states and the files always have their types.
THEOREM TypeCorrect == Spec => []TypeOK
<1>1. TypeOK /\ [Next]_vars => TypeOK'
  BY CallType, StepType, StutterType DEF Next, Call
<1>2. QED
  BY InitType, <1>1, PTL DEF Spec

-----------------------------------------------------------------------------
(* The inductive invariant: what a call has done so far, by where it is.    *)

CallInv(c) ==
    /\ c.pc = "idle" => c = Idle
    /\ c.pc \in {"test", "choose"} => c.todo = c.parts
    /\ c.pc \in {"own", "direct", "over", "base"} => c.todo \subseteq c.parts
    /\ c.pc # "idle" => c.parts # {}
    /\ c.pc \in {"test", "copy", "own", "direct"} => c.val # Sparse
    /\ c.pc \in {"copy", "own"} => state[c.slot] = "initializing"
    /\ c.pc \in {"direct", "over"} => state[c.slot] = "valid"
    /\ c.pc = "copy" =>
          \A p \in CopyUp(c.parts) \ c.todo : over[c.slot][p] = base[c.slot][p]
    /\ c.pc = "own" =>
          /\ \A p \in c.parts \ c.todo : over[c.slot][p] = c.val
          /\ \A p \in Parts \ c.parts : over[c.slot][p] = base[c.slot][p]
    /\ c.pc = "base" => \A p \in c.parts \ c.todo : c.got[p] = base[c.slot][p]
    /\ c.pc = "ok" => c.todo = {}

Initializes(t, s) == op[t].slot = s /\ op[t].pc \in {"copy", "own"}

\* A slot is being initialized by one thread, or by none and says so.
ClaimInv ==
    /\ \A t, u \in Threads, s \in Slots :
          Initializes(t, s) /\ Initializes(u, s) => t = u
    /\ \A s \in Slots :
          state[s] = "initializing" => \E t \in Threads : Initializes(t, s)

OverlayInv == (\A t \in Threads : CallInv(op[t])) /\ ClaimInv /\ VisibleIsWhole

LEMMA InitInv == Init => OverlayInv
BY DEF Init, OverlayInv, CallInv, ClaimInv, Initializes, VisibleIsWhole, Idle

\* A step of thread t leaves the others' part of the invariant alone, where t
\* changes a slot that it initializes, or rewrites one that is visible, or
\* claims one that nobody has written.
LEMMA OthersInv ==
    ASSUME TypeOK, OverlayInv, NEW t \in Threads, NEW u \in Threads, u # t,
           op'[u] = op[u],
           \A x \in Slots \ {op[t].slot} : state'[x] = state[x] /\ over'[x] = over[x],
           \/ UNCHANGED <<state, over>>
           \/ op[t].pc \in {"copy", "own"}
           \/ state[op[t].slot] = "valid" /\ UNCHANGED state
           \/ state[op[t].slot] = "base" /\ UNCHANGED over
    PROVE  CallInv(op[u])'
<1> DEFINE c == op[u]
           s == op[t].slot
<1>1. op[u] \in Calls /\ op[t] \in Calls /\ c.slot \in Slots /\ s \in Slots
  BY DEF TypeOK, Calls
<1>2. CallInv(op[u]) /\ CallInv(op[t])
  BY DEF OverlayInv
<1>3. c.slot # s => state'[c.slot] = state[c.slot] /\ over'[c.slot] = over[c.slot]
  BY <1>1
<1>4. base' = base
  BY DEF base
<1>5. CASE UNCHANGED <<state, over>> \/ c.slot # s
  BY <1>2, <1>3, <1>4, <1>5 DEF CallInv
<1>6. CASE op[t].pc \in {"copy", "own"} /\ c.slot = s
  <2>1. state[s] = "initializing" /\ c.pc \notin {"copy", "own"}
    BY <1>1, <1>2, <1>6 DEF CallInv, OverlayInv, ClaimInv, Initializes
  <2>2. c.pc \notin {"direct", "over"}
    BY <1>2, <1>6, <2>1 DEF CallInv
  <2>3. QED
    BY <1>2, <1>4, <2>1, <2>2 DEF CallInv
<1>7. CASE state[s] = "valid" /\ UNCHANGED state /\ c.slot = s
  <2>1. c.pc \notin {"copy", "own"}
    BY <1>2, <1>7 DEF CallInv
  <2>2. QED
    BY <1>2, <1>4, <1>7, <2>1 DEF CallInv
<1>8. CASE state[s] = "base" /\ UNCHANGED over /\ c.slot = s
  <2>1. c.pc \notin {"copy", "own", "direct", "over"}
    BY <1>2, <1>8 DEF CallInv
  <2>2. QED
    BY <1>2, <1>4, <1>8, <2>1 DEF CallInv
<1>9. QED
  BY <1>5, <1>6, <1>7, <1>8

\* The claims on slots stay as they are.
LEMMA SameClaims ==
    ASSUME ClaimInv, UNCHANGED state,
           \A u \in Threads, x \in Slots : Initializes(u, x)' <=> Initializes(u, x)
    PROVE  ClaimInv'
<1> HIDE DEF Initializes
<1>1. QED
  BY DEF ClaimInv

\* A step that leaves the slots and files alone and claims nothing keeps the
\* invariant, when it keeps its own call's part.
LEMMA QuietStep ==
    ASSUME TypeOK, OverlayInv, NEW t \in Threads,
           UNCHANGED <<state, over>>,
           \A u \in Threads \ {t} : op'[u] = op[u],
           CallInv(op[t])',
           op'[t].pc \in {"copy", "own"} <=> op[t].pc \in {"copy", "own"},
           op[t].pc \in {"copy", "own"} => op'[t].slot = op[t].slot
    PROVE  OverlayInv'
<1>1. \A u \in Threads : CallInv(op[u])'
  <2>1. \A u \in Threads \ {t} : CallInv(op[u])'
    BY OthersInv
  <2>2. QED
    BY <2>1
<1>2. \A u \in Threads, x \in Slots : Initializes(u, x)' <=> Initializes(u, x)
  BY DEF Initializes
<1>3. ClaimInv'
  BY <1>2, SameClaims DEF OverlayInv
<1>4. VisibleIsWhole'
  BY DEF OverlayInv, VisibleIsWhole
<1>5. QED
  BY <1>1, <1>3, <1>4 DEF OverlayInv

LEMMA CallKeepsInv ==
    ASSUME TypeOK, OverlayInv, NEW t \in Threads, NEW s \in Slots,
           NEW P \in SUBSET Parts, WriteCall(t, s, P) \/ ReadCall(t, s, P)
    PROVE  OverlayInv'
<1>1. \A u \in Threads \ {t} : op'[u] = op[u]
  BY CallType
<1>2. op[t].pc = "idle"
  BY DEF WriteCall, ReadCall, Idle
<1>3. gen + 2 # Sparse
  BY DEF TypeOK, Sparse
<1>4. /\ op'[t].pc \in {"test", "choose"} /\ op'[t].todo = P /\ op'[t].parts = P
      /\ P # {} /\ (op'[t].pc = "test" => op'[t].val # Sparse)
  BY <1>3 DEF WriteCall, ReadCall, TypeOK
<1>5. CallInv(op[t])'
  BY <1>4 DEF CallInv
<1>6. UNCHANGED <<state, over>>
  BY DEF WriteCall, ReadCall
<1>7. QED
  BY <1>1, <1>2, <1>4, <1>5, <1>6, QuietStep

LEMMA QuietKeepsInv ==
    ASSUME TypeOK, OverlayInv, NEW t \in Threads,
           WriteFound(t) \/ CopyDone(t) \/ ChooseFile(t) \/ ReadPart(t)
             \/ CallDone(t) \/ CallFails(t) \/ Return(t)
    PROVE  OverlayInv'
<1>0. op[t] \in Calls /\ CallInv(op[t])
  BY DEF TypeOK, OverlayInv
<1>1. base' = base
  BY DEF base
<1>2. CASE WriteFound(t)
  <2>1. CallInv(op[t])'
    BY <1>0, <1>2, Went DEF WriteFound, CallInv, Pcs
  <2>2. QED
    BY <1>2, <2>1, Went, QuietStep DEF WriteFound, Pcs
<1>3. CASE CopyDone(t)
  <2>1. \A p \in Parts \ op[t].parts : p \in CopyUp(op[t].parts) \ op[t].todo
    BY <1>0, <1>3 DEF CopyDone, CopyUp, Calls
  <2>2. \A p \in Parts \ op[t].parts : over[op[t].slot][p] = base[op[t].slot][p]
    BY <1>0, <1>3, <2>1 DEF CopyDone, CallInv
  <2>3. /\ op[t].parts # {} /\ op[t].val # Sparse
        /\ state[op[t].slot] = "initializing"
    BY <1>0, <1>3 DEF CopyDone, CallInv
  <2>4. UNCHANGED <<state, over>>
    BY <1>3 DEF CopyDone
  <2>5. CallInv(op[t])'
    BY <1>1, <1>3, <2>2, <2>3, <2>4, CopyDoneOp DEF CallInv
  <2>6. QED
    BY <1>3, <2>4, <2>5, CopyDoneOp, QuietStep DEF CopyDone
<1>4. CASE ChooseFile(t)
  <2>1. FileOf(op[t].slot) \in {"over", "base"} /\ FileOf(op[t].slot) \in Pcs
    BY DEF FileOf, Pcs
  <2>2. FileOf(op[t].slot) = "over" => state[op[t].slot] = "valid"
    BY DEF FileOf
  <2>3. CallInv(op[t])'
    BY <1>0, <1>4, <2>1, <2>2, Went DEF ChooseFile, CallInv
  <2>4. QED
    BY <1>4, <2>1, <2>3, Went, QuietStep DEF ChooseFile
<1>5. CASE ReadPart(t)
  <2>1. PICK p \in Parts :
            /\ op[t].pc \in {"over", "base"} /\ First(op[t].todo, p)
            /\ op' = [op EXCEPT ![t].todo = @ \ {p}, ![t].got[p] = Source(t)[p]]
            /\ UNCHANGED <<state, over, gen, faults>>
    BY <1>5 DEF ReadPart
  <2>2. CallInv(op[t])'
    <3>1. op[t].pc = "base" =>
            \A q \in op[t].parts \ (op[t].todo \ {p}) :
                op'[t].got[q] = base[op[t].slot][q]
      BY <1>0, <2>1, ReadPartOp DEF CallInv, Source, Calls
    <3>2. /\ op[t].parts # {} /\ op[t].todo \ {p} \subseteq op[t].parts
          /\ (op[t].pc = "over" => state[op[t].slot] = "valid")
      BY <1>0, <2>1 DEF CallInv
    <3>3. UNCHANGED <<state, over>>
      BY <2>1
    <3>4. /\ op'[t].pc = op[t].pc /\ op'[t].todo = op[t].todo \ {p}
          /\ op'[t].slot = op[t].slot /\ op'[t].parts = op[t].parts
      BY <2>1, ReadPartOp
    <3>5. CASE op[t].pc = "over"
      BY <3>2, <3>3, <3>4, <3>5 DEF CallInv
    <3>6. CASE op[t].pc = "base"
      BY <1>1, <3>1, <3>2, <3>4, <3>6 DEF CallInv
    <3>7. QED
      BY <2>1, <3>5, <3>6
  <2>3. QED
    BY <2>1, <2>2, ReadPartOp, QuietStep
<1>6. CASE CallDone(t)
  <2>1. CallInv(op[t])'
    BY <1>0, <1>6, Went DEF CallDone, CallInv, Pcs
  <2>2. QED
    BY <1>6, <2>1, Went, QuietStep DEF CallDone, Pcs
<1>7. CASE CallFails(t)
  <2>1. CallInv(op[t])'
    BY <1>0, <1>7, Went DEF CallFails, CallInv, Pcs
  <2>2. QED
    BY <1>7, <2>1, Went, QuietStep DEF CallFails, Pcs
<1>8. CASE Return(t)
  <2>1. op'[t] = Idle /\ \A u \in Threads \ {t} : op'[u] = op[u]
    BY <1>8 DEF Return, TypeOK
  <2>2. Idle.pc = "idle"
    BY DEF Idle
  <2>3. Idle' = Idle
    BY DEF Idle
  <2>4. CallInv(op[t])'
    BY <2>1, <2>2, <2>3 DEF CallInv
  <2>5. QED
    BY <1>8, <2>1, <2>2, <2>4, QuietStep DEF Return
<1>9. QED
  BY <1>2, <1>3, <1>4, <1>5, <1>6, <1>7, <1>8

LEMMA ClaimKeepsInv ==
    ASSUME TypeOK, OverlayInv, NEW t \in Threads, WriteClaim(t)
    PROVE  OverlayInv'
<1> DEFINE s == op[t].slot
<1>0. op[t] \in Calls /\ s \in Slots /\ CallInv(op[t])
  BY DEF TypeOK, Calls, OverlayInv
<1>1. /\ state[s] = "base" /\ op[t].pc = "test" /\ UNCHANGED over
      /\ state' = [state EXCEPT ![s] = "initializing"]
  BY DEF WriteClaim
<1>2. /\ state'[s] = "initializing"
      /\ \A x \in Slots \ {s} : state'[x] = state[x]
  BY <1>0, <1>1 DEF TypeOK
<1>3. \A u \in Threads \ {t} : CallInv(op[u])'
  <2>1. TAKE u \in Threads \ {t}
  <2>2. op'[u] = op[u]
    BY WriteClaimOp
  <2>3. QED
    BY <1>1, <1>2, <2>2, OthersInv
<1>4. CallInv(op[t])'
  BY <1>0, <1>1, <1>2, WriteClaimOp DEF CallInv
<1>5. \A u \in Threads, x \in Slots :
          Initializes(u, x)' <=> Initializes(u, x) \/ (u = t /\ x = s)
  BY <1>1, WriteClaimOp DEF Initializes
<1>6. \A u \in Threads : ~Initializes(u, s)
  BY <1>1 DEF OverlayInv, CallInv, Initializes
<1>7. ClaimInv'
  <2> HIDE DEF Initializes, s
  <2>1. \A u, v \in Threads, x \in Slots :
            Initializes(u, x)' /\ Initializes(v, x)' => u = v
    BY <1>5, <1>6 DEF OverlayInv, ClaimInv
  <2>2. \A x \in Slots :
            state'[x] = "initializing" => \E u \in Threads : Initializes(u, x)'
    BY <1>2, <1>5 DEF OverlayInv, ClaimInv
  <2>3. QED
    BY <2>1, <2>2 DEF ClaimInv
<1>8. VisibleIsWhole'
  BY <1>1, <1>2 DEF OverlayInv, VisibleIsWhole
<1>9. QED
  BY <1>3, <1>4, <1>7, <1>8 DEF OverlayInv

\* A step puts one part into the slot of its call.
LEMMA PutKeepsInv ==
    ASSUME TypeOK, OverlayInv, NEW t \in Threads, NEW p \in Parts,
           NEW v \in Values, v # Sparse,
           Put(op[t].slot, p, v), UNCHANGED state,
           op' = [op EXCEPT ![t].todo = @ \ {p}],
           op[t].pc \in {"copy", "own", "direct"},
           CallInv(op[t])'
    PROVE  OverlayInv'
<1> DEFINE s == op[t].slot
<1>0. op[t] \in Calls /\ s \in Slots /\ CallInv(op[t])
  BY DEF TypeOK, Calls, OverlayInv
<1>1. /\ over'[s] = [over[s] EXCEPT ![p] = v]
      /\ \A x \in Slots \ {s} : over'[x] = over[x]
  BY <1>0 DEF Put, TypeOK
<1>2. op[t].pc = "direct" => state[s] = "valid"
  BY <1>0 DEF CallInv
<1>3. \A u \in Threads \ {t} : CallInv(op[u])'
  <2>1. TAKE u \in Threads \ {t}
  <2>2. op'[u] = op[u]
    BY TodoOp
  <2>3. QED
    BY <1>1, <1>2, <2>2, OthersInv
<1>4. \A u \in Threads, x \in Slots : Initializes(u, x)' <=> Initializes(u, x)
  BY TodoOp DEF Initializes
<1>5. ClaimInv'
  BY <1>4, SameClaims DEF OverlayInv
<1>6. VisibleIsWhole'
  BY <1>0, <1>1 DEF OverlayInv, VisibleIsWhole, TypeOK
<1>7. QED
  BY <1>3, <1>5, <1>6 DEF OverlayInv

LEMMA CopyPartKeepsInv ==
    ASSUME TypeOK, OverlayInv, NEW t \in Threads, CopyPart(t)
    PROVE  OverlayInv'
<1> DEFINE s == op[t].slot
<1>0. op[t] \in Calls /\ s \in Slots /\ CallInv(op[t])
  BY DEF TypeOK, Calls, OverlayInv
<1>1. PICK p \in Parts :
          /\ op[t].pc = "copy" /\ Put(s, p, base[s][p])
          /\ op' = [op EXCEPT ![t].todo = @ \ {p}]
          /\ UNCHANGED <<state, gen, faults>>
  BY DEF CopyPart
<1>2. base[s][p] \in Values /\ base[s][p] # Sparse /\ base' = base
  BY <1>0, BaseType DEF base
<1>3. over'[s] = [over[s] EXCEPT ![p] = base[s][p]]
  BY <1>0, <1>1 DEF Put, TypeOK
<1>4. \A q \in CopyUp(op[t].parts) \ (op[t].todo \ {p}) : over'[s][q] = base[s][q]
  BY <1>0, <1>1, <1>3, CopyUpType DEF CallInv, TypeOK, Calls
<1>5. /\ op[t].parts # {} /\ op[t].val # Sparse /\ state'[s] = "initializing"
  BY <1>0, <1>1 DEF CallInv
<1>6. /\ op'[t].pc = "copy" /\ op'[t].todo = op[t].todo \ {p}
      /\ op'[t].slot = s /\ op'[t].parts = op[t].parts /\ op'[t].val = op[t].val
  BY <1>1, TodoOp
<1>7. CallInv(op[t])'
  BY <1>2, <1>4, <1>5, <1>6 DEF CallInv
<1>8. QED
  BY <1>1, <1>2, <1>7, PutKeepsInv

LEMMA WritePartKeepsInv ==
    ASSUME TypeOK, OverlayInv, NEW t \in Threads, WritePart(t)
    PROVE  OverlayInv'
<1> DEFINE s == op[t].slot
<1>0. op[t] \in Calls /\ s \in Slots /\ CallInv(op[t])
  BY DEF TypeOK, Calls, OverlayInv
<1>1. PICK p \in Parts :
          /\ op[t].pc \in {"own", "direct"} /\ First(op[t].todo, p)
          /\ Put(s, p, op[t].val)
          /\ op' = [op EXCEPT ![t].todo = @ \ {p}]
          /\ UNCHANGED <<state, gen, faults>>
  BY DEF WritePart
<1>2. op[t].val \in Values /\ op[t].val # Sparse /\ base' = base
  BY <1>0, <1>1 DEF base, CallInv, Calls
<1>3. over'[s] = [over[s] EXCEPT ![p] = op[t].val]
  BY <1>0, <1>1 DEF Put, TypeOK
<1>4. p \in op[t].parts
  BY <1>0, <1>1 DEF CallInv, First
<1>5. op[t].pc = "own" =>
        /\ \A q \in op[t].parts \ (op[t].todo \ {p}) : over'[s][q] = op[t].val
        /\ \A q \in Parts \ op[t].parts : over'[s][q] = base[s][q]
        /\ state'[s] = "initializing"
  BY <1>0, <1>1, <1>3, <1>4 DEF CallInv, TypeOK, Calls
<1>6. /\ op[t].parts # {} /\ op[t].todo \ {p} \subseteq op[t].parts
      /\ (op[t].pc = "direct" => state'[s] = "valid")
  BY <1>0, <1>1 DEF CallInv
<1>7. /\ op'[t].pc = op[t].pc /\ op'[t].todo = op[t].todo \ {p}
      /\ op'[t].slot = s /\ op'[t].parts = op[t].parts /\ op'[t].val = op[t].val
  BY <1>1, TodoOp
<1>8. CallInv(op[t])'
  <2>1. CASE op[t].pc = "own"
    BY <1>2, <1>5, <1>6, <1>7, <2>1 DEF CallInv
  <2>2. CASE op[t].pc = "direct"
    BY <1>2, <1>6, <1>7, <2>2 DEF CallInv
  <2>3. QED
    BY <1>1, <2>1, <2>2
<1>9. QED
  BY <1>1, <1>2, <1>8, PutKeepsInv

\* The thread that initializes a slot lets it go.
LEMMA LetGoKeepsInv ==
    ASSUME TypeOK, OverlayInv, NEW t \in Threads,
           NEW pc \in {"direct", "failed"}, NEW x \in {"valid", "base"},
           op[t].pc \in {"copy", "own"}, Goto(t, pc), UNCHANGED over,
           state' = [state EXCEPT ![op[t].slot] = x],
           pc = "direct" =>
               /\ x = "valid" /\ op[t].val # Sparse
               /\ op[t].todo \subseteq op[t].parts,
           x = "valid" => \A p \in Parts : over[op[t].slot][p] # Sparse
    PROVE  OverlayInv'
<1> DEFINE s == op[t].slot
<1>0. op[t] \in Calls /\ s \in Slots /\ CallInv(op[t]) /\ pc \in Pcs
  BY DEF TypeOK, Calls, OverlayInv, Pcs
<1>1. /\ state'[s] = x
      /\ \A y \in Slots \ {s} : state'[y] = state[y]
  BY <1>0 DEF TypeOK
<1>2. \A u \in Threads \ {t} : CallInv(op[u])'
  <2>1. TAKE u \in Threads \ {t}
  <2>2. op'[u] = op[u]
    BY <1>0, Went
  <2>3. QED
    BY <1>1, <2>2, OthersInv
<1>3. op[t].parts # {}
  BY <1>0 DEF CallInv
<1>4. CallInv(op[t])'
  BY <1>0, <1>1, <1>3, Went DEF CallInv
<1>5. \A u \in Threads, y \in Slots :
          Initializes(u, y)' <=> Initializes(u, y) /\ u # t
  BY <1>0, Went DEF Initializes
<1>6. Initializes(t, s) /\ \A y \in Slots : Initializes(t, y) => y = s
  BY DEF Initializes
<1>7. ClaimInv'
  <2> HIDE DEF Initializes, s
  <2>1. \A u, v \in Threads, y \in Slots :
            Initializes(u, y)' /\ Initializes(v, y)' => u = v
    BY <1>5 DEF OverlayInv, ClaimInv
  <2>2. \A y \in Slots :
            state'[y] = "initializing" => \E u \in Threads : Initializes(u, y)'
    BY <1>1, <1>5, <1>6 DEF OverlayInv, ClaimInv
  <2>3. QED
    BY <2>1, <2>2 DEF ClaimInv
<1>8. VisibleIsWhole'
  BY <1>0, <1>1 DEF OverlayInv, VisibleIsWhole
<1>9. QED
  BY <1>2, <1>4, <1>7, <1>8 DEF OverlayInv

\* A slot is whole when the thread that initializes it has nothing left to do.
LEMMA OwnIsWhole ==
    ASSUME TypeOK, OverlayInv, NEW t \in Threads,
           op[t].pc = "own", op[t].todo = {}
    PROVE  \A p \in Parts :
              over[op[t].slot][p] = IF p \in op[t].parts THEN op[t].val
                                    ELSE base[op[t].slot][p]
BY DEF OverlayInv, CallInv

LEMMA PublishKeepsInv ==
    ASSUME TypeOK, OverlayInv, NEW t \in Threads, Publish(t)
    PROVE  OverlayInv'
<1>0. op[t] \in Calls /\ op[t].slot \in Slots /\ CallInv(op[t])
  BY DEF TypeOK, Calls, OverlayInv
<1>1. op[t].val # Sparse /\ op[t].pc = "own" /\ op[t].todo \subseteq op[t].parts
  BY <1>0 DEF Publish, CallInv
<1>2. \A p \in Parts : over[op[t].slot][p] # Sparse
  BY <1>0, <1>1, OwnIsWhole, BaseType DEF Publish
<1>3. QED
  BY <1>1, <1>2, LetGoKeepsInv DEF Publish

LEMMA InitFailsKeepsInv ==
    ASSUME TypeOK, OverlayInv, NEW t \in Threads, InitFails(t)
    PROVE  OverlayInv'
BY LetGoKeepsInv DEF InitFails, Reverted

LEMMA StepKeepsInv ==
    ASSUME TypeOK, OverlayInv, NEW t \in Threads, Step(t)
    PROVE  OverlayInv'
BY QuietKeepsInv, ClaimKeepsInv, CopyPartKeepsInv, WritePartKeepsInv,
   PublishKeepsInv, InitFailsKeepsInv DEF Step

LEMMA StutterKeepsInv == OverlayInv /\ UNCHANGED vars => OverlayInv'
<1> SUFFICES ASSUME OverlayInv, UNCHANGED vars PROVE OverlayInv'
  OBVIOUS
<1>1. base' = base /\ Idle' = Idle
  BY DEF base, Idle
<1>2. UNCHANGED <<state, over, op>>
  BY DEF vars
<1>3. ASSUME NEW t \in Threads PROVE CallInv(op[t])'
  <2>1. CallInv(op[t])
    BY DEF OverlayInv
  <2>2. QED
    BY <1>1, <1>2, <2>1 DEF CallInv
<1>4. \A u \in Threads, x \in Slots : Initializes(u, x)' <=> Initializes(u, x)
  BY <1>2 DEF Initializes
<1>5. ClaimInv'
  BY <1>2, <1>4, SameClaims DEF OverlayInv
<1>6. VisibleIsWhole'
  BY <1>2 DEF OverlayInv, VisibleIsWhole
<1>7. QED
  BY <1>3, <1>5, <1>6 DEF OverlayInv

\* The invariant holds in every reachable state.
THEOREM Invariant == Spec => [](TypeOK /\ OverlayInv)
<1>1. Init => TypeOK /\ OverlayInv
  BY InitType, InitInv
<1>2. TypeOK /\ OverlayInv /\ [Next]_vars => TypeOK' /\ OverlayInv'
  BY CallType, StepType, StutterType, CallKeepsInv, StepKeepsInv, StutterKeepsInv
     DEF Next, Call
<1>3. QED
  BY <1>1, <1>2, PTL DEF Spec

\* A published slot has no hole, whatever fails and whoever writes.
THEOREM SlotsWhole == Spec => []VisibleIsWhole
BY Invariant, PTL DEF OverlayInv

LEMMA OneOrNone == TypeOK /\ OverlayInv => OneInitializer
<1> SUFFICES ASSUME TypeOK, OverlayInv, NEW s \in Slots
             PROVE  Cardinality({t \in Threads : Initializes(t, s)})
                      = IF state[s] = "initializing" THEN 1 ELSE 0
  BY DEF OneInitializer, Initializes
<1>1. CASE state[s] = "initializing"
  <2>1. PICK t \in Threads : Initializes(t, s)
    BY <1>1 DEF OverlayInv, ClaimInv
  <2>2. {u \in Threads : Initializes(u, s)} = {t}
    BY <2>1 DEF OverlayInv, ClaimInv
  <2>3. QED
    BY <1>1, <2>2, FS_Singleton
<1>2. CASE state[s] # "initializing"
  <2>1. {u \in Threads : Initializes(u, s)} = {}
    BY <1>2 DEF OverlayInv, CallInv, Initializes
  <2>2. QED
    BY <1>2, <2>1, FS_EmptySet
<1>3. QED
  BY <1>1, <1>2

\* A slot is claimed exactly while one thread copies it up.
THEOREM ClaimedByOne == Spec => []OneInitializer
BY Invariant, OneOrNone, PTL

-----------------------------------------------------------------------------
(* The refinement: every step is one of the memory's, or none.              *)

Seen == [t \in Threads |-> CallSeen(op[t])]
View(x, kind, left, got) ==
    [slot |-> x.slot, val |-> x.val, kind |-> kind, left |-> left, got |-> got]

\* How the memory sees a call, by where the call is.
LEMMA SeenAs ==
    ASSUME NEW x \in Calls
    PROVE  /\ x.pc = "idle" => CallSeen(x) = Memory!Idle
           /\ x.pc = "failed" => CallSeen(x) = [kind |-> "failed"]
           /\ x.pc \in {"test", "copy", "own"} =>
                 CallSeen(x) = View(x, "write", x.parts, x.got)
           /\ x.pc = "direct" => CallSeen(x) = View(x, "write", x.todo, x.got)
           /\ x.pc \in {"choose", "over"} =>
                 CallSeen(x) = View(x, "read", x.todo, x.got)
           /\ x.pc = "base" =>
                 CallSeen(x) = View(x, "read", {},
                     [p \in Parts |-> IF p \in x.parts THEN base[x.slot][p]
                                      ELSE x.got[p]])
           /\ x.pc = "ok" => CallSeen(x) = View(x, "ok", x.todo, x.got)
<1>1. x.got = [p \in Parts |-> x.got[p]]
  BY DEF Calls
<1>2. QED
  BY <1>1 DEF CallSeen, View, Memory!Idle

\* The memory sees the step of one thread only.
LEMMA SeenStep ==
    ASSUME TypeOK, TypeOK', NEW t \in Threads,
           \A u \in Threads \ {t} : op'[u] = op[u]
    PROVE  /\ Seen' = [Seen EXCEPT ![t] = CallSeen(op'[t])]
           /\ Seen[t] = CallSeen(op[t])
<1>1. \A x : CallSeen(x)' = CallSeen(x')
  BY DEF CallSeen, base
<1>2. QED
  BY <1>1 DEF Seen

LEMMA SameContents ==
    ASSUME UNCHANGED <<state, over>>
    PROVE  UNCHANGED Contents
BY DEF Contents, base

LEMMA AsStutter ==
    ASSUME TypeOK, TypeOK', NEW t \in Threads,
           \A u \in Threads \ {t} : op'[u] = op[u],
           CallSeen(op'[t]) = CallSeen(op[t]), UNCHANGED Contents
    PROVE  UNCHANGED Memory!vars
<1>1. Seen' = Seen
  BY SeenStep DEF Seen
<1>2. QED
  BY <1>1 DEF Memory!vars, Seen

LEMMA AsCall ==
    ASSUME TypeOK, TypeOK', NEW t \in Threads, NEW s \in Slots,
           NEW P \in SUBSET Parts, NEW v \in Values, NEW kind \in {"write", "read"},
           \A u \in Threads \ {t} : op'[u] = op[u],
           CallSeen(op[t]) = Memory!Idle,
           op'[t].slot = s, op'[t].val = v,
           CallSeen(op'[t]) = View(op'[t], kind, P, [p \in Parts |-> v]),
           UNCHANGED Contents
    PROVE  Memory!Next
<1>1. Memory!Call(t, kind, s, P, v)
  BY SeenStep DEF Memory!Call, View, Seen
<1>2. QED
  BY <1>1 DEF Memory!Next, Memory!Write, Memory!Read

\* The memory after the parts P of slot s took v, and what a read of them got.
Landed(s, P, v) ==
    [Contents EXCEPT ![s] = [p \in Parts |-> IF p \in P THEN v ELSE @[p]]]
Sampled(s, P, g) ==
    [p \in Parts |-> IF p \in P THEN Contents[s][p] ELSE g[p]]

LEMMA AsLand ==
    ASSUME TypeOK, TypeOK', NEW t \in Threads, NEW P \in SUBSET Parts, P # {},
           NEW L \in SUBSET Parts, NEW g, P \subseteq L,
           \A u \in Threads \ {t} : op'[u] = op[u],
           CallSeen(op[t]) = View(op[t], "write", L, g),
           CallSeen(op'[t]) = View(op[t], "write", L \ P, g),
           Contents' = Landed(op[t].slot, P, op[t].val)
    PROVE  Memory!Next
<1>1. Seen[t] = View(op[t], "write", L, g) /\ Seen' = [Seen EXCEPT ![t] = CallSeen(op'[t])]
  BY SeenStep
<1>2. [Seen[t] EXCEPT !.left = @ \ P] = CallSeen(op'[t])
  BY <1>1 DEF View
<1>3. Seen' = [Seen EXCEPT ![t].left = @ \ P]
  BY <1>1, <1>2 DEF Seen
<1>4. /\ Seen[t].kind = "write" /\ Seen[t].left = L
      /\ Seen[t].slot = op[t].slot /\ Seen[t].val = op[t].val
  BY <1>1 DEF View
<1>5. Memory!Land(t, P)
  BY <1>3, <1>4 DEF Memory!Land, Seen, Landed
<1>6. QED
  BY <1>5 DEF Memory!Next

LEMMA AsSample ==
    ASSUME TypeOK, TypeOK', NEW t \in Threads, NEW P \in SUBSET Parts, P # {},
           NEW L \in SUBSET Parts, NEW g \in [Parts -> Values], P \subseteq L,
           \A u \in Threads \ {t} : op'[u] = op[u],
           CallSeen(op[t]) = View(op[t], "read", L, g),
           CallSeen(op'[t]) =
               View(op[t], "read", L \ P,
                    Sampled(op[t].slot, P, g)),
           UNCHANGED Contents
    PROVE  Memory!Next
<1>1. Seen[t] = View(op[t], "read", L, g) /\ Seen' = [Seen EXCEPT ![t] = CallSeen(op'[t])]
  BY SeenStep
<1>2. /\ Seen[t].kind = "read" /\ Seen[t].left = L /\ Seen[t].got = g
      /\ Seen[t].slot = op[t].slot
  BY <1>1 DEF View
<1>3. CallSeen(op'[t]) =
        [kind |-> "read", slot |-> Seen[t].slot, val |-> Seen[t].val,
         left |-> Seen[t].left \ P,
         got |-> [p \in Parts |-> IF p \in P THEN Contents[Seen[t].slot][p]
                                  ELSE Seen[t].got[p]]]
  BY <1>1, <1>2 DEF View, Sampled
<1>4. Memory!Sample(t, P)
  BY <1>1, <1>2, <1>3 DEF Memory!Sample, Seen
<1>5. QED
  BY <1>4 DEF Memory!Next

LEMMA AsComplete ==
    ASSUME TypeOK, TypeOK', NEW t \in Threads, NEW kind \in {"write", "read"},
           NEW g, \A u \in Threads \ {t} : op'[u] = op[u],
           CallSeen(op[t]) = View(op[t], kind, {}, g),
           CallSeen(op'[t]) = View(op[t], "ok", {}, g),
           UNCHANGED Contents
    PROVE  Memory!Next
<1>1. /\ Seen[t] = View(op[t], kind, {}, g)
      /\ Seen' = [Seen EXCEPT ![t] = CallSeen(op'[t])]
  BY SeenStep
<1>2. Seen[t].kind \in {"write", "read"} /\ Seen[t].left = {}
  BY <1>1 DEF View
<1>3. [Seen[t] EXCEPT !.kind = "ok"] = CallSeen(op'[t])
  BY <1>1 DEF View
<1>4. Seen' = [Seen EXCEPT ![t].kind = "ok"]
  BY <1>1, <1>3 DEF Seen
<1>5. Memory!Complete(t)
  BY <1>2, <1>4 DEF Memory!Complete, Seen
<1>6. QED
  BY <1>5 DEF Memory!Next

LEMMA AsFail ==
    ASSUME TypeOK, TypeOK', NEW t \in Threads,
           \A u \in Threads \ {t} : op'[u] = op[u],
           CallSeen(op[t]).kind \in {"write", "read"},
           CallSeen(op'[t]) = [kind |-> "failed"], UNCHANGED Contents
    PROVE  Memory!Next
<1>1. Memory!Fail(t)
  BY SeenStep DEF Memory!Fail, Seen
<1>2. QED
  BY <1>1 DEF Memory!Next

LEMMA AsReturn ==
    ASSUME TypeOK, TypeOK', NEW t \in Threads,
           \A u \in Threads \ {t} : op'[u] = op[u],
           CallSeen(op[t]).kind \in {"ok", "failed"},
           CallSeen(op'[t]) = Memory!Idle, UNCHANGED Contents
    PROVE  Memory!Next
<1>1. Memory!Return(t)
  BY SeenStep DEF Memory!Return, Seen
<1>2. QED
  BY <1>1 DEF Memory!Next

LEMMA CallRefines ==
    ASSUME TypeOK, TypeOK', NEW t \in Threads, NEW s \in Slots,
           NEW P \in SUBSET Parts, WriteCall(t, s, P) \/ ReadCall(t, s, P)
    PROVE  Memory!Next
<1>1. CallSeen(op[t]) = Memory!Idle
  <2>1. op[t] = Idle /\ Idle.pc = "idle"
    BY DEF WriteCall, ReadCall, Idle
  <2>2. QED
    BY <2>1, IdleType, SeenAs
<1>2. \A u \in Threads \ {t} : op'[u] = op[u]
  BY CallType
<1>3. UNCHANGED Contents
  BY SameContents DEF WriteCall, ReadCall
<1>4. op'[t] \in Calls
  BY DEF TypeOK
<1>5. CASE WriteCall(t, s, P)
  <2>1. /\ op'[t].pc = "test" /\ op'[t].slot = s /\ op'[t].parts = P
        /\ op'[t].val = gen + 2 /\ op'[t].got = [p \in Parts |-> gen + 2]
    BY <1>5 DEF WriteCall, TypeOK
  <2>2. gen + 2 \in Values
    BY <1>5, OverlayAssumption DEF WriteCall, TypeOK, Values
  <2>3. CallSeen(op'[t]) = View(op'[t], "write", P, [p \in Parts |-> gen + 2])
    BY <1>4, <2>1, SeenAs
  <2>4. QED
    BY <1>1, <1>2, <1>3, <2>1, <2>2, <2>3, AsCall
<1>6. CASE ReadCall(t, s, P)
  <2>1. /\ op'[t].pc = "choose" /\ op'[t].slot = s /\ op'[t].todo = P
        /\ op'[t].val = Sparse /\ op'[t].got = [p \in Parts |-> Sparse]
    BY <1>6 DEF ReadCall, TypeOK
  <2>2. CallSeen(op'[t]) = View(op'[t], "read", P, [p \in Parts |-> Sparse])
    BY <1>4, <2>1, SeenAs
  <2>3. QED
    BY <1>1, <1>2, <1>3, <2>1, <2>2, SparseType, AsCall
<1>7. QED
  BY <1>5, <1>6

\* Claiming, copying up and filling a slot that is not visible yet.
LEMMA HiddenRefines ==
    ASSUME TypeOK, TypeOK', OverlayInv, NEW t \in Threads,
           WriteClaim(t) \/ CopyPart(t) \/ CopyDone(t)
             \/ (WritePart(t) /\ op[t].pc = "own")
    PROVE  UNCHANGED Memory!vars
<1> DEFINE s == op[t].slot
<1>0. op[t] \in Calls /\ op'[t] \in Calls /\ s \in Slots /\ CallInv(op[t])
  BY DEF TypeOK, Calls, OverlayInv
<1>1. /\ \A u \in Threads \ {t} : op'[u] = op[u]
      /\ op[t].pc \in {"test", "copy", "own"} /\ op'[t].pc \in {"copy", "own"}
      /\ op'[t].slot = s /\ op'[t].parts = op[t].parts
      /\ op'[t].val = op[t].val /\ op'[t].got = op[t].got
  BY WriteClaimOp, TodoOp, CopyDoneOp DEF WriteClaim, CopyPart, CopyDone, WritePart
<1>2. CallSeen(op'[t]) = CallSeen(op[t])
  BY <1>0, <1>1, SeenAs DEF View
<1>3. /\ state[s] # "valid" /\ state'[s] # "valid"
      /\ \A x \in Slots \ {s} : state'[x] = state[x] /\ over'[x] = over[x]
  <2>1. CASE WriteClaim(t)
    BY <1>0, <2>1 DEF WriteClaim, TypeOK
  <2>2. CASE CopyDone(t)
    BY <1>0, <2>2 DEF CopyDone, CallInv
  <2>3. CASE CopyPart(t) \/ (WritePart(t) /\ op[t].pc = "own")
    BY <1>0, <2>3 DEF CopyPart, WritePart, Put, CallInv, TypeOK
  <2>4. QED
    BY <2>1, <2>2, <2>3
<1>4. UNCHANGED Contents
  BY <1>3 DEF Contents, base
<1>5. QED
  BY <1>1, <1>2, <1>4, AsStutter

LEMMA WriteFoundRefines ==
    ASSUME TypeOK, TypeOK', OverlayInv, NEW t \in Threads, WriteFound(t)
    PROVE  UNCHANGED Memory!vars
<1>0. op[t] \in Calls /\ op'[t] \in Calls /\ CallInv(op[t])
  BY DEF TypeOK, Calls, OverlayInv
<1>1. /\ \A u \in Threads \ {t} : op'[u] = op[u]
      /\ op[t].pc = "test" /\ op'[t].pc = "direct" /\ op'[t].todo = op[t].todo
      /\ op'[t].slot = op[t].slot /\ op'[t].parts = op[t].parts
      /\ op'[t].val = op[t].val /\ op'[t].got = op[t].got
  BY Went DEF WriteFound, Pcs
<1>2. CallSeen(op'[t]) = CallSeen(op[t])
  BY <1>0, <1>1, SeenAs DEF View, CallInv
<1>3. UNCHANGED Contents
  BY SameContents DEF WriteFound
<1>4. QED
  BY <1>1, <1>2, <1>3, AsStutter

\* A write to a visible slot lands part by part.
LEMMA DirectRefines ==
    ASSUME TypeOK, TypeOK', OverlayInv, NEW t \in Threads, WritePart(t),
           op[t].pc = "direct"
    PROVE  Memory!Next
<1> DEFINE s == op[t].slot
<1>0. op[t] \in Calls /\ op'[t] \in Calls /\ s \in Slots /\ CallInv(op[t])
  BY DEF TypeOK, Calls, OverlayInv
<1>1. PICK p \in Parts :
          /\ First(op[t].todo, p) /\ Put(s, p, op[t].val)
          /\ op' = [op EXCEPT ![t].todo = @ \ {p}]
          /\ UNCHANGED <<state, gen, faults>>
  BY DEF WritePart
<1>2. /\ \A u \in Threads \ {t} : op'[u] = op[u]
      /\ op'[t].pc = "direct" /\ op'[t].todo = op[t].todo \ {p}
      /\ op'[t].slot = s /\ op'[t].val = op[t].val /\ op'[t].got = op[t].got
  BY <1>1, TodoOp
<1>3. CallSeen(op[t]) = View(op[t], "write", op[t].todo, op[t].got)
  BY <1>0, SeenAs
<1>4. CallSeen(op'[t]) = View(op[t], "write", op[t].todo \ {p}, op[t].got)
  BY <1>0, <1>2, SeenAs DEF View
<1>5. state[s] = "valid"
  BY <1>0 DEF CallInv
<1>6. over' = [over EXCEPT ![s] = [q \in Parts |->
                 IF q \in {p} THEN op[t].val ELSE over[s][q]]]
  BY <1>0, <1>1 DEF Put, TypeOK
<1>7. Contents' = [Contents EXCEPT ![s] = [q \in Parts |->
                     IF q \in {p} THEN op[t].val ELSE @[q]]]
  BY <1>0, <1>1, <1>5, <1>6 DEF Contents, TypeOK, base
<1>8. /\ {p} \subseteq op[t].todo /\ op[t].todo \in SUBSET Parts
      /\ {p} # {} /\ {p} \in SUBSET Parts
  BY <1>0, <1>1 DEF First, Calls
<1>9. PICK P \in SUBSET Parts : P = {p}
  BY <1>8
<1>10. CallSeen(op'[t]) = View(op[t], "write", op[t].todo \ P, op[t].got)
  BY <1>4, <1>9
<1>11. Contents' = Landed(s, P, op[t].val)
  BY <1>7, <1>9 DEF Landed
<1>12. P # {} /\ P \subseteq op[t].todo
  BY <1>8, <1>9
<1>13. QED
  BY <1>2, <1>3, <1>8, <1>10, <1>11, <1>12, AsLand

\* A first write lands whole, when its slot is published.
LEMMA PublishRefines ==
    ASSUME TypeOK, TypeOK', OverlayInv, NEW t \in Threads, Publish(t)
    PROVE  Memory!Next
<1> DEFINE s == op[t].slot
<1>0. op[t] \in Calls /\ op'[t] \in Calls /\ s \in Slots /\ CallInv(op[t])
  BY DEF TypeOK, Calls, OverlayInv
<1>1. /\ \A u \in Threads \ {t} : op'[u] = op[u]
      /\ op[t].pc = "own" /\ op[t].todo = {} /\ op'[t].pc = "direct"
      /\ op'[t].todo = {} /\ op'[t].slot = s
      /\ op'[t].val = op[t].val /\ op'[t].got = op[t].got
  BY Went DEF Publish, Pcs
<1>2. CallSeen(op[t]) = View(op[t], "write", op[t].parts, op[t].got)
  BY <1>0, <1>1, SeenAs
<1>3. CallSeen(op'[t]) = View(op[t], "write", {}, op[t].got)
  BY <1>0, <1>1, SeenAs DEF View
<1>4. op[t].parts \ op[t].parts = {} /\ op[t].parts # {} /\ op[t].parts \in SUBSET Parts
  BY <1>0, <1>1 DEF Calls, CallInv
<1>5. over[s] = [p \in Parts |-> IF p \in op[t].parts THEN op[t].val ELSE base[s][p]]
  BY <1>0, <1>1, OwnIsWhole DEF TypeOK
<1>6. state[s] = "initializing"
  BY <1>0, <1>1 DEF CallInv
<1>7. Contents' = [Contents EXCEPT ![s] = over[s]]
  BY <1>0 DEF Publish, Contents, TypeOK, base
<1>8. Contents[s] = base[s]
  BY <1>0, <1>6 DEF Contents
<1>9. Contents' = Landed(s, op[t].parts, op[t].val)
  BY <1>5, <1>7, <1>8 DEF Landed
<1>10. QED
  BY <1>1, <1>2, <1>3, <1>4, <1>9, AsLand
\* A read of the archive samples it all when the archive is chosen: nothing
\* writes the archive, so it does not matter when its parts are read.
LEMMA ChooseRefines ==
    ASSUME TypeOK, TypeOK', OverlayInv, NEW t \in Threads, ChooseFile(t)
    PROVE  Memory!Next \/ UNCHANGED Memory!vars
<1> DEFINE s == op[t].slot
<1>0. op[t] \in Calls /\ op'[t] \in Calls /\ s \in Slots /\ CallInv(op[t])
  BY DEF TypeOK, Calls, OverlayInv
<1>1. FileOf(s) \in {"over", "base"} /\ FileOf(s) \in Pcs
  BY DEF FileOf, Pcs
<1>2. /\ \A u \in Threads \ {t} : op'[u] = op[u]
      /\ op[t].pc = "choose" /\ op'[t].pc = FileOf(s)
      /\ op'[t].todo = op[t].todo /\ op'[t].slot = s
      /\ op'[t].parts = op[t].parts
      /\ op'[t].val = op[t].val /\ op'[t].got = op[t].got
  BY <1>1, Went DEF ChooseFile
<1>3. UNCHANGED Contents
  BY SameContents DEF ChooseFile
<1>4. /\ op[t].todo = op[t].parts /\ op[t].parts # {}
      /\ op[t].parts \in SUBSET Parts /\ op[t].got \in [Parts -> Values]
  BY <1>0, <1>2 DEF CallInv, Calls
<1>5. CallSeen(op[t]) = View(op[t], "read", op[t].parts, op[t].got)
  BY <1>0, <1>2, <1>4, SeenAs
<1>6. CASE FileOf(s) = "over"
  <2>1. CallSeen(op'[t]) = CallSeen(op[t])
    BY <1>0, <1>2, <1>6, SeenAs DEF View
  <2>2. QED
    BY <1>2, <1>3, <2>1, AsStutter
<1>7. CASE FileOf(s) = "base"
  <2>1. Contents[s] = base[s]
    BY <1>0, <1>7 DEF FileOf, Contents
  <2>2. op[t].parts \ op[t].parts = {}
    OBVIOUS
  <2>3. CallSeen(op'[t]) =
          View(op'[t], "read", {}, [p \in Parts |->
              IF p \in op[t].parts THEN base[s][p] ELSE op[t].got[p]])
    BY <1>0, <1>2, <1>7, SeenAs
  <2>4. CallSeen(op'[t]) =
          View(op[t], "read", op[t].parts \ op[t].parts,
               Sampled(s, op[t].parts, op[t].got))
    BY <1>2, <2>1, <2>2, <2>3 DEF View, Sampled
  <2>5. QED
    BY <1>2, <1>3, <1>4, <1>5, <2>4, AsSample
<1>8. QED
  BY <1>1, <1>6, <1>7

LEMMA ReadPartRefines ==
    ASSUME TypeOK, TypeOK', OverlayInv, NEW t \in Threads, ReadPart(t)
    PROVE  Memory!Next \/ UNCHANGED Memory!vars
<1> DEFINE s == op[t].slot
<1>0. op[t] \in Calls /\ op'[t] \in Calls /\ s \in Slots /\ CallInv(op[t])
  BY DEF TypeOK, Calls, OverlayInv
<1>1. PICK p \in Parts :
          /\ op[t].pc \in {"over", "base"} /\ First(op[t].todo, p)
          /\ op' = [op EXCEPT ![t].todo = @ \ {p}, ![t].got[p] = Source(t)[p]]
          /\ UNCHANGED <<state, over, gen, faults>>
  BY DEF ReadPart
<1>2. /\ \A u \in Threads \ {t} : op'[u] = op[u]
      /\ op'[t].pc = op[t].pc /\ op'[t].todo = op[t].todo \ {p}
      /\ op'[t].slot = s /\ op'[t].parts = op[t].parts
      /\ op'[t].val = op[t].val
      /\ op'[t].got = [op[t].got EXCEPT ![p] = Source(t)[p]]
  BY <1>1, ReadPartOp
<1>3. UNCHANGED Contents
  BY <1>1, SameContents
<1>4. /\ op[t].got \in [Parts -> Values] /\ {p} # {} /\ {p} \in SUBSET Parts
      /\ {p} \subseteq op[t].todo /\ op[t].todo \in SUBSET Parts
      /\ p \in op[t].parts
  BY <1>0, <1>1 DEF CallInv, Calls, First
<1>5. CASE op[t].pc = "over"
  <2>1. CallSeen(op[t]) = View(op[t], "read", op[t].todo, op[t].got)
    BY <1>0, <1>5, SeenAs
  <2>2. Contents[s] = over[s] /\ Source(t) = over[s]
    BY <1>0, <1>5 DEF CallInv, Contents, Source
  <2>3. PICK P \in SUBSET Parts : P = {p}
    BY <1>4
  <2>4. op'[t].got = Sampled(s, P, op[t].got)
    BY <1>2, <1>4, <2>2, <2>3 DEF Sampled
  <2>5. CallSeen(op'[t]) =
          View(op[t], "read", op[t].todo \ P, Sampled(s, P, op[t].got))
    BY <1>0, <1>2, <1>5, <2>3, <2>4, SeenAs DEF View
  <2>6. P # {} /\ P \subseteq op[t].todo
    BY <1>4, <2>3
  <2>7. op[t].got \in [Parts -> Values] /\ op[t].todo \in SUBSET Parts
    BY <1>4
  <2>8. \A u \in Threads \ {t} : op'[u] = op[u]
    BY <1>2
  <2>9. Memory!Next
    BY <1>3, <2>1, <2>5, <2>6, <2>7, <2>8, AsSample
  <2>10. QED
    BY <2>9
<1>6. CASE op[t].pc = "base"
  <2>1. [q \in Parts |-> IF q \in op[t].parts THEN base[s][q] ELSE op'[t].got[q]]
        = [q \in Parts |-> IF q \in op[t].parts THEN base[s][q] ELSE op[t].got[q]]
    BY <1>2, <1>4
  <2>2. CallSeen(op[t]) = View(op[t], "read", {}, [q \in Parts |->
            IF q \in op[t].parts THEN base[s][q] ELSE op[t].got[q]])
    BY <1>0, <1>6, SeenAs
  <2>3. CallSeen(op'[t]) = View(op'[t], "read", {}, [q \in Parts |->
            IF q \in op[t].parts THEN base[s][q] ELSE op'[t].got[q]])
    BY <1>0, <1>2, <1>6, SeenAs
  <2>4. CallSeen(op'[t]) = View(op[t], "read", {}, [q \in Parts |->
            IF q \in op[t].parts THEN base[s][q] ELSE op'[t].got[q]])
    BY <1>2, <2>3 DEF View
  <2>5. CallSeen(op'[t]) = CallSeen(op[t])
    BY <2>1, <2>2, <2>4
  <2>6. QED
    BY <1>2, <1>3, <2>5, AsStutter
<1>7. QED
  BY <1>1, <1>5, <1>6

\* The end of a call, well or badly.
LEMMA EndRefines ==
    ASSUME TypeOK, TypeOK', OverlayInv, NEW t \in Threads,
           CallDone(t) \/ CallFails(t) \/ InitFails(t) \/ Return(t)
    PROVE  Memory!Next
<1> DEFINE s == op[t].slot
<1>0. op[t] \in Calls /\ op'[t] \in Calls /\ s \in Slots /\ CallInv(op[t])
  BY DEF TypeOK, Calls, OverlayInv
<1>1. CASE CallDone(t)
  <2>1. /\ \A u \in Threads \ {t} : op'[u] = op[u]
        /\ op[t].pc \in {"direct", "over", "base"} /\ op[t].todo = {}
        /\ op'[t].pc = "ok" /\ op'[t].todo = {} /\ op'[t].slot = s
        /\ op'[t].val = op[t].val /\ op'[t].got = op[t].got
    BY <1>1, Went DEF CallDone, Pcs
  <2>2. CallSeen(op'[t]) = View(op[t], "ok", {}, op[t].got)
    BY <1>0, <2>1, SeenAs DEF View
  <2>3. op[t].pc = "base" =>
          op[t].got = [p \in Parts |-> IF p \in op[t].parts THEN base[s][p]
                                       ELSE op[t].got[p]]
    BY <1>0, <2>1 DEF CallInv, Calls
  <2>4. \E kind \in {"write", "read"} :
            CallSeen(op[t]) = View(op[t], kind, {}, op[t].got)
    BY <1>0, <2>1, <2>3, SeenAs
  <2>5. UNCHANGED Contents
    BY <1>1, SameContents DEF CallDone
  <2>6. QED
    BY <2>1, <2>2, <2>4, <2>5, AsComplete
<1>2. CASE CallFails(t) \/ InitFails(t)
  <2>1. /\ \A u \in Threads \ {t} : op'[u] = op[u]
        /\ op[t].pc \in {"direct", "over", "base", "copy", "own"}
        /\ op'[t].pc = "failed"
    BY <1>2, Went DEF CallFails, InitFails, Pcs
  <2>2. CallSeen(op'[t]) = [kind |-> "failed"]
    BY <1>0, <2>1, SeenAs
  <2>3. CallSeen(op[t]).kind \in {"write", "read"}
    BY <1>0, <2>1, SeenAs DEF View
  <2>4. UNCHANGED Contents
    <3>1. CASE CallFails(t)
      BY <3>1, SameContents DEF CallFails
    <3>2. CASE InitFails(t)
      <4>1. state[s] = "initializing"
        BY <1>0, <3>2 DEF InitFails, CallInv
      <4>2. QED
        BY <1>0, <3>2, <4>1 DEF InitFails, Reverted, Contents, TypeOK, base
    <3>3. QED
      BY <1>2, <3>1, <3>2
  <2>5. QED
    BY <2>1, <2>2, <2>3, <2>4, AsFail
<1>3. CASE Return(t)
  <2>1. /\ \A u \in Threads \ {t} : op'[u] = op[u]
        /\ op[t].pc \in {"ok", "failed"} /\ op'[t] = Idle /\ Idle.pc = "idle"
    BY <1>3 DEF Return, TypeOK, Idle
  <2>2. CallSeen(op[t]).kind \in {"ok", "failed"}
    BY <1>0, <2>1, SeenAs DEF View
  <2>3. CallSeen(op'[t]) = Memory!Idle
    BY <1>0, <2>1, SeenAs
  <2>4. UNCHANGED Contents
    BY <1>3, SameContents DEF Return
  <2>5. QED
    BY <2>1, <2>2, <2>3, <2>4, AsReturn
<1>4. QED
  BY <1>1, <1>2, <1>3

LEMMA StepRefines ==
    ASSUME TypeOK, TypeOK', OverlayInv, NEW t \in Threads, Step(t)
    PROVE  Memory!Next \/ UNCHANGED Memory!vars
<1>1. WritePart(t) => op[t].pc \in {"own", "direct"}
  BY DEF WritePart
<1>2. QED
  BY <1>1, HiddenRefines, WriteFoundRefines, DirectRefines, PublishRefines,
     ChooseRefines, ReadPartRefines, EndRefines DEF Step

LEMMA InitRefines == Init => Memory!Init
<1> SUFFICES ASSUME Init PROVE Memory!Init
  OBVIOUS
<1>1. \A t \in Threads : CallSeen(op[t]) = Memory!Idle
  BY SeenAs, IdleType DEF Init, Idle
<1>2. Contents = base
  BY DEF Init, Contents, base
<1>3. QED
  BY <1>1, <1>2 DEF Memory!Init

LEMMA StutterRefines == UNCHANGED vars => UNCHANGED Memory!vars
<1> SUFFICES ASSUME UNCHANGED vars PROVE UNCHANGED Memory!vars
  OBVIOUS
<1>1. UNCHANGED Contents
  BY SameContents DEF vars
<1>2. Seen' = Seen
  BY DEF vars, Seen, CallSeen, base
<1>3. QED
  BY <1>1, <1>2 DEF Memory!vars, Seen

\* The archive with its overlay is one memory to the threads that use it.
THEOREM Refinement == Spec => ImplementsMemory
<1>1. TypeOK /\ TypeOK' /\ OverlayInv /\ [Next]_vars
        => Memory!Next \/ UNCHANGED Memory!vars
  BY CallRefines, StepRefines, StutterRefines DEF Next, Call
<1>2. QED
  BY <1>1, InitRefines, Invariant, PTL DEF Spec, ImplementsMemory, Memory!Spec
=============================================================================

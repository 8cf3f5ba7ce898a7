----------------------------- MODULE NvmeOverlay -----------------------------
(***************************************************************************)
(* NvmeKvTier over a sealed archive: reads go to the archive until a slot  *)
(* is written, and the first write of a slot copies it up into a sparse    *)
(* overlay file.  Threads share nothing but the files and the atomic state *)
(* of each slot (overlay_valid_): Base, Initializing, Valid.               *)
(*                                                                         *)
(* A slot has parts; a system call transfers one part, and calls of other  *)
(* threads come between two of them.  A part's bytes are the number of the *)
(* write that produced them.                                               *)
(***************************************************************************)
EXTENDS Integers, FiniteSets

CONSTANTS
    Threads,       \* session threads that read and write the arena
    NSlots,        \* slot_count_
    NParts,        \* ranges of a slot that a system call transfers whole
    ArchiveSlots,  \* slots the archive file reaches; beyond it is end of file
    MaxWrites,     \* bound: calls that write
    MaxFaults      \* bound: system calls that fail

Slots == 0 .. NSlots - 1
Parts == 0 .. NParts - 1

ASSUME OverlayAssumption ==
    /\ NSlots \in Nat \ {0} /\ NParts \in Nat \ {0}
    /\ ArchiveSlots \in SUBSET Slots
    /\ MaxWrites \in Nat /\ MaxFaults \in Nat

Sparse   == 0                     \* a hole of the overlay reads as zeros
Archived == 1                     \* bytes of the archive
EndOf    == -1                    \* past the end of the archive file
Values   == -1 .. MaxWrites + 1   \* write number w produces w + 1

\* The archive file, fd_: nothing writes it while an overlay is open.
base == [s \in Slots |-> [p \in Parts |->
            IF s \in ArchiveSlots THEN Archived ELSE EndOf]]

VARIABLES
    state,   \* overlay_valid_[slot]
    over,    \* over[s][p]: the overlay file, overlay_fd_
    op,      \* op[t]: the call thread t is in
    gen,     \* bound: writes so far
    faults   \* bound: failed system calls so far

vars == <<state, over, op, gen, faults>>

\* The record of a thread that is in no call.
Idle == [pc |-> "idle", slot |-> 0, parts |-> {}, todo |-> {}, val |-> Sparse,
         got |-> [p \in Parts |-> Sparse]]

Init ==
    /\ state = [s \in Slots |-> "base"]
    /\ over = [s \in Slots |-> [p \in Parts |-> Sparse]]
    /\ op = [t \in Threads |-> Idle]
    /\ gen = 0 /\ faults = 0

First(P, p) == p \in P /\ \A r \in P : p <= r
Goto(t, pc) == op' = [op EXCEPT ![t].pc = pc]

\* A step of t's next system call fails; the exception leaves the call.
Fault == faults < MaxFaults /\ faults' = faults + 1

-----------------------------------------------------------------------------
(* write_slot_range of the parts P of slot s.                              *)

WriteCall(t, s, P) ==
    /\ op[t] = Idle /\ gen < MaxWrites /\ P # {}
    /\ gen' = gen + 1
    /\ op' = [op EXCEPT ![t] = [pc |-> "test", slot |-> s, parts |-> P,
                                todo |-> P, val |-> gen + 2,
                                got |-> [p \in Parts |-> gen + 2]]]
    /\ UNCHANGED <<state, over, faults>>

\* Mutant of CopyUp: the untouched parts of a slot are left as holes.
CopyUpNothing(P) == {}
\* The parts copied from the archive: all, unless the write covers the slot.
CopyUp(P) == IF P = Parts THEN {} ELSE Parts

\* One thread turns a Base slot Initializing (compare_exchange_strong).
WriteClaim(t) ==
    /\ op[t].pc = "test" /\ state[op[t].slot] = "base"
    /\ state' = [state EXCEPT ![op[t].slot] = "initializing"]
    /\ op' = [op EXCEPT ![t].pc = "copy", ![t].todo = CopyUp(op[t].parts)]
    /\ UNCHANGED <<over, gen, faults>>

\* The others yield until the slot is Valid or Base again.
WriteFound(t) ==
    /\ op[t].pc = "test" /\ state[op[t].slot] = "valid"
    /\ Goto(t, "direct")
    /\ UNCHANGED <<state, over, gen, faults>>

Put(s, p, v) == over' = [over EXCEPT ![s][p] = v]

CopyPart(t) ==
    \E p \in Parts :
        /\ op[t].pc = "copy" /\ First(op[t].todo, p)
        /\ base[op[t].slot][p] # EndOf
        /\ Put(op[t].slot, p, base[op[t].slot][p])
        /\ op' = [op EXCEPT ![t].todo = @ \ {p}]
        /\ UNCHANGED <<state, gen, faults>>

CopyDone(t) ==
    /\ op[t].pc = "copy" /\ op[t].todo = {}
    /\ op' = [op EXCEPT ![t].pc = "own", ![t].todo = op[t].parts]
    /\ UNCHANGED <<state, over, gen, faults>>

\* The caller's bytes: before the slot is published, or in a Valid slot.
WritePart(t) ==
    \E p \in Parts :
        /\ op[t].pc \in {"own", "direct"} /\ First(op[t].todo, p)
        /\ Put(op[t].slot, p, op[t].val)
        /\ op' = [op EXCEPT ![t].todo = @ \ {p}]
        /\ UNCHANGED <<state, gen, faults>>

Publish(t) ==
    /\ op[t].pc = "own" /\ op[t].todo = {}
    /\ state' = [state EXCEPT ![op[t].slot] = "valid"]
    /\ Goto(t, "direct")
    /\ UNCHANGED <<over, gen, faults>>

\* Mutant of Reverted: the slot is published although its copy failed.
RevertedValid == "valid"
\* Mutant of Reverted: the slot stays claimed by a call that has left.
RevertedClaimed == "initializing"
\* The state a failed first write leaves: the archive's bytes count again.
Reverted == "base"

\* Mutant of InitFails: the copy is tried again.
InitFailsRetries(t) ==
    /\ op[t].pc \in {"copy", "own"} /\ op[t].todo # {}
    /\ \/ /\ op[t].pc = "copy" /\ UNCHANGED faults
          /\ \E p \in Parts : First(op[t].todo, p) /\ base[op[t].slot][p] = EndOf
       \/ Fault
    /\ state' = [state EXCEPT ![op[t].slot] = Reverted]
    /\ Goto(t, "test")
    /\ UNCHANGED <<over, gen>>

\* pread_all hits the end of the archive, or a system call fails.
InitFails(t) ==
    /\ op[t].pc \in {"copy", "own"} /\ op[t].todo # {}
    /\ \/ /\ op[t].pc = "copy" /\ UNCHANGED faults
          /\ \E p \in Parts : First(op[t].todo, p) /\ base[op[t].slot][p] = EndOf
       \/ Fault
    /\ state' = [state EXCEPT ![op[t].slot] = Reverted]
    /\ Goto(t, "failed")
    /\ UNCHANGED <<over, gen>>

-----------------------------------------------------------------------------
(* read_slot_range of the parts P of slot s.                               *)

ReadCall(t, s, P) ==
    /\ op[t] = Idle /\ P # {}
    /\ op' = [op EXCEPT ![t] = [pc |-> "choose", slot |-> s, parts |-> P,
                                todo |-> P, val |-> Sparse,
                                got |-> [p \in Parts |-> Sparse]]]
    /\ UNCHANGED <<state, over, gen, faults>>

\* read_fd yields while the slot is being copied up.
MayChoose(s) == state[s] # "initializing"

\* The file a read of slot s goes to.
FileOf(s) == IF state[s] = "valid" THEN "over" ELSE "base"

ChooseFile(t) ==
    /\ op[t].pc = "choose" /\ MayChoose(op[t].slot)
    /\ Goto(t, FileOf(op[t].slot))
    /\ UNCHANGED <<state, over, gen, faults>>

Source(t) == IF op[t].pc = "over" THEN over[op[t].slot] ELSE base[op[t].slot]

ReadPart(t) ==
    \E p \in Parts :
        /\ op[t].pc \in {"over", "base"} /\ First(op[t].todo, p)
        /\ Source(t)[p] # EndOf
        /\ op' = [op EXCEPT ![t].todo = @ \ {p}, ![t].got[p] = Source(t)[p]]
        /\ UNCHANGED <<state, over, gen, faults>>

-----------------------------------------------------------------------------
(* The end of a call.                                                      *)

CallDone(t) ==
    /\ op[t].pc \in {"direct", "over", "base"} /\ op[t].todo = {}
    /\ Goto(t, "ok")
    /\ UNCHANGED <<state, over, gen, faults>>

CallFails(t) ==
    /\ op[t].pc \in {"direct", "over", "base"} /\ op[t].todo # {}
    /\ \/ Fault
       \/ /\ op[t].pc = "base" /\ UNCHANGED faults
          /\ \E p \in Parts : First(op[t].todo, p) /\ base[op[t].slot][p] = EndOf
    /\ Goto(t, "failed")
    /\ UNCHANGED <<state, over, gen>>

Return(t) ==
    /\ op[t].pc \in {"ok", "failed"}
    /\ op' = [op EXCEPT ![t] = Idle]
    /\ UNCHANGED <<state, over, gen, faults>>

Call(t) == \E s \in Slots, P \in SUBSET Parts :
               WriteCall(t, s, P) \/ ReadCall(t, s, P)

Step(t) ==
    \/ WriteClaim(t) \/ WriteFound(t) \/ CopyPart(t) \/ CopyDone(t)
    \/ WritePart(t) \/ Publish(t) \/ InitFails(t)
    \/ ChooseFile(t) \/ ReadPart(t)
    \/ CallDone(t) \/ CallFails(t) \/ Return(t)

Next == \E t \in Threads : Call(t) \/ Step(t)

\* A thread in a call runs on; system calls need not fail.
Spec == Init /\ [][Next]_vars /\ \A t \in Threads : WF_vars(Step(t))

-----------------------------------------------------------------------------
(* Properties.                                                             *)

Pcs == {"idle", "test", "copy", "own", "direct", "choose", "over", "base", "ok",
        "failed"}
Calls == [pc : Pcs, slot : Slots, parts : SUBSET Parts, todo : SUBSET Parts,
          val : Values, got : [Parts -> Values]]

TypeOK ==
    /\ state \in [Slots -> {"base", "initializing", "valid"}]
    /\ over \in [Slots -> [Parts -> Values]]
    /\ op \in [Threads -> Calls]
    /\ gen \in 0 .. MaxWrites /\ faults \in 0 .. MaxFaults

\* A published slot has no hole: "otherwise sparse-file zeros would silently
\* replace the other part of the record" (write_overlay_slot_range).
VisibleIsWhole ==
    \A s \in Slots, p \in Parts : state[s] = "valid" => over[s][p] # Sparse

\* A slot is Initializing exactly while one thread copies it up: no slot
\* stays claimed after a failure, and two threads never fill it together.
OneInitializer ==
    \A s \in Slots :
        Cardinality({t \in Threads : op[t].slot = s /\ op[t].pc \in {"copy", "own"}})
            = IF state[s] = "initializing" THEN 1 ELSE 0

\* A call that starts returns, although its thread may have to wait for
\* another thread's copy, and that copy may fail.
CallsReturn == \A t \in Threads : (op[t] # Idle) ~> (op[t] = Idle)

\* Writes "land in an ephemeral sparse file" whatever the archive's length
\* (NvmeKvTierConfig::overlay_dir): without a failed system call no write fails.
WritesLand ==
    \A t \in Threads :
        op[t].pc = "failed" /\ op[t].val # Sparse => faults > 0

(* What the callers see: one memory, OverlayMemory.                        *)
Contents == [s \in Slots |-> IF state[s] = "valid" THEN over[s] ELSE base[s]]
CallSeen(x) ==
    IF x.pc = "idle" THEN [kind |-> "idle"]
    ELSE IF x.pc = "failed" THEN [kind |-> "failed"]
    ELSE [slot |-> x.slot, val |-> x.val,
          kind |-> IF x.pc \in {"choose", "over", "base"} THEN "read"
                   ELSE IF x.pc = "ok" THEN "ok" ELSE "write",
          left |-> IF x.pc \in {"test", "copy", "own"} THEN x.parts
                   ELSE IF x.pc = "base" THEN {} ELSE x.todo,
          got  |-> [p \in Parts |-> IF x.pc = "base" /\ p \in x.parts
                                    THEN base[x.slot][p] ELSE x.got[p]]]

Memory == INSTANCE OverlayMemory WITH
    Content <- base, cells <- Contents, calls <- [t \in Threads |-> CallSeen(op[t])]

\* The archive with its overlay is one memory: every read returns what some
\* moment of the call held, a first write is seen whole, and a failed first
\* write is not seen at all.
ImplementsMemory == Memory!Spec
=============================================================================

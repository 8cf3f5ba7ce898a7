---------------------------- MODULE OverlayMemory ----------------------------
(***************************************************************************)
(* What a copy-on-write NVMe arena promises its callers: one memory of     *)
(* slots, each made of parts.  A write lands its parts, together or one at *)
(* a time, between its call and its return; a read returns for every part  *)
(* a value that part had between the call and the return.  Only a call     *)
(* that lands or samples all of its parts returns "ok".                    *)
(***************************************************************************)
EXTENDS Integers

CONSTANTS
    Threads,     \* callers
    Slots,       \* slots of the arena
    Parts,       \* parts of a slot: ranges a call may write alone
    Values,      \* contents of a part
    Content      \* what the memory holds at first

VARIABLES
    cells,       \* cells[s][p]: the memory
    calls        \* calls[t]: the call t is in

vars == <<cells, calls>>

Memories == [Slots -> [Parts -> Values]]
Idle     == [kind |-> "idle"]

Init == cells = Content /\ calls = [t \in Threads |-> Idle]

Call(t, kind, s, P, v) ==
    /\ calls[t] = Idle
    /\ calls' = [calls EXCEPT ![t] = [kind |-> kind, slot |-> s, left |-> P,
                                      val |-> v, got |-> [p \in Parts |-> v]]]
    /\ UNCHANGED cells

Write(t, s, P, v) == Call(t, "write", s, P, v)
Read(t, s, P, v)  == Call(t, "read", s, P, v)

Land(t, P) ==
    /\ calls[t].kind = "write" /\ P # {} /\ P \subseteq calls[t].left
    /\ cells' = [cells EXCEPT ![calls[t].slot] =
                   [p \in Parts |-> IF p \in P THEN calls[t].val ELSE @[p]]]
    /\ calls' = [calls EXCEPT ![t].left = @ \ P]

Sample(t, P) ==
    /\ calls[t].kind = "read" /\ P # {} /\ P \subseteq calls[t].left
    /\ calls' = [calls EXCEPT ![t] =
                   [kind |-> "read", slot |-> @.slot, val |-> @.val, left |-> @.left \ P,
                    got |-> [p \in Parts |->
                        IF p \in P THEN cells[@.slot][p] ELSE @.got[p]]]]
    /\ UNCHANGED cells

\* The call is over: its thread still has to return from it.
Complete(t) ==
    /\ calls[t].kind \in {"write", "read"} /\ calls[t].left = {}
    /\ calls' = [calls EXCEPT ![t].kind = "ok"] /\ UNCHANGED cells
Fail(t) ==
    /\ calls[t].kind \in {"write", "read"}
    /\ calls' = [calls EXCEPT ![t] = [kind |-> "failed"]] /\ UNCHANGED cells
Return(t) ==
    /\ calls[t].kind \in {"ok", "failed"}
    /\ calls' = [calls EXCEPT ![t] = Idle] /\ UNCHANGED cells

Next ==
    \E t \in Threads :
        \/ \E s \in Slots, P \in SUBSET Parts, v \in Values :
              Write(t, s, P, v) \/ Read(t, s, P, v)
        \/ \E P \in SUBSET Parts : Land(t, P) \/ Sample(t, P)
        \/ Complete(t) \/ Fail(t) \/ Return(t)

Spec == Init /\ [][Next]_vars
=============================================================================

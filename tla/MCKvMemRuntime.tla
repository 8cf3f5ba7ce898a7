--------------------------- MODULE MCKvMemRuntime ---------------------------
(* KvMemRuntime for TLC. *)
EXTENDS KvMemRuntime

\* The tiers in use: none, a file alone, or a CPU arena of one block over a
\* file that never evicts.
AllTiers  == {[cpu |-> 0, nvme |-> 0], [cpu |-> 0, nvme |-> 3],
              [cpu |-> 1, nvme |-> 3]}
NoTiers      == {[cpu |-> 0, nvme |-> 0]}
CpuOverFile  == {[cpu |-> 1, nvme |-> 3]}
CpuOverSmall == {[cpu |-> 1, nvme |-> 2]}
SmallFile    == {[cpu |-> 0, nvme |-> 1]}

\* The requests of a chat that is never rolled back: prefill, selection, next
\* turn.  Its behaviours are behaviours of Spec.
ChatNext ==
    \/ \E k \in 1 .. MaxAppend : AppendUnderPressure(k) \/ AppendDirect(k)
    \/ \E S \in SUBSET Blocks : PrepareSelection(S)
    \/ BeginCachedTurn
    \/ Progress

ChatSpec == Init /\ [][ChatNext]_vars
=============================================================================

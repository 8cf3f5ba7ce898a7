-------------------------- MODULE MCPackedCopies --------------------------
(***************************************************************************)
(* PackedCopies for TLC.  No action reads the epoch, and the properties    *)
(* about it are about single steps, so that states that differ only in it  *)
(* are explored once.                                                      *)
(***************************************************************************)
EXTENDS PackedCopies

ViewWithoutEpoch ==
    <<registered, computed, version, gpu, cells, slot, free, working, pipe, pinned, damaged>>
=============================================================================

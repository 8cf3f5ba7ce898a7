--------------------------- MODULE GreedyDecoding ---------------------------
(***************************************************************************)
(* What a generation promises, whatever drafts it tries: the emitted text  *)
(* grows by the target model's own next tokens, and is a prefix of them.   *)
(***************************************************************************)
EXTENDS Integers, Sequences

CONSTANTS
    Token,        \* the vocabulary
    EndToken,     \* the end-of-generation token; it is not emitted
    NPredict      \* tokens to emit at most

VARIABLES
    choice,       \* the tokens the target model chooses, one after the other
    text,         \* the emitted tokens
    over          \* the generation has returned

vars == <<choice, text, over>>

Init == choice \in Seq(Token) /\ Len(choice) = NPredict /\ text = <<>> /\ ~over

\* One verification emits the run of tokens it confirmed.
Emit(n) ==
    /\ ~over /\ Len(text) + n <= NPredict
    /\ \A i \in Len(text) + 1 .. Len(text) + n : choice[i] # EndToken
    /\ text' = SubSeq(choice, 1, Len(text) + n)
    /\ UNCHANGED <<choice, over>>

Return == ~over /\ over' /\ UNCHANGED <<choice, text>>

Next == (\E n \in 1 .. NPredict : Emit(n)) \/ Return

Spec == Init /\ [][Next]_vars
=============================================================================

---------------------------- MODULE MCServerTurn ----------------------------
(* Conversations that continue, branch off, are edited, and hold images.    *)
EXTENDS ServerTurn

CONSTANTS sys, one, two, three, cat, dog, say

\* One conversation and its continuation by the reply say and more.
Chain == {<<sys, one, two>>, <<sys, one, two, say, three>>}
\* Conversations that share a beginning.
Branches == {<<sys, one, two>>, <<sys, one, two, say, three>>, <<sys, three, two, one>>}
\* A conversation whose turns bring images.
Album == {<<sys, cat, one>>, <<sys, cat, one, say, dog, two>>}

AnySpan == {<<0, 2>>, <<1, 2>>, <<2, 3>>, <<4, 5>>}
FromStart == {<<0, 2>>, <<0, 5>>}

\* A server that drafts and one that does not, with their clients.
Served == {
    [spec |-> TRUE, prompts |-> Chain, spans |-> AnySpan, reply |-> 2],
    [spec |-> FALSE, prompts |-> Branches, spans |-> FromStart, reply |-> 1],
    [spec |-> TRUE, prompts |-> Album, spans |-> AnySpan, reply |-> 1]}
ASSUME ServedBranchEarly == \A x \in Served : BranchesEarly(x)

\* Clients whose queries lie anywhere in conversations that branch.
Branching == {[spec |-> FALSE, prompts |-> Branches, spans |-> AnySpan, reply |-> 1]}
=============================================================================

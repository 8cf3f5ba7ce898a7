---------------------------- MODULE MCLegacyTurn ----------------------------
(* A conversation of two users' questions and a tool round, and an edit.    *)
EXTENDS LegacyTurn

CONSTANTS sys, one, two, three, four, say, tool

Ask == [toks |-> <<sys, one, two>>, q0 |-> 1, q1 |-> 2, user |-> 1]
Tool == [toks |-> <<sys, one, two, say, tool>>, q0 |-> 1, q1 |-> 2, user |-> 1]
AskAgain == [toks |-> <<sys, one, two, say, tool, three, four>>, q0 |-> 5, q1 |-> 6, user |-> 2]
Stripped == [toks |-> <<sys, one, two, three, four>>, q0 |-> 3, q1 |-> 4, user |-> 2]
Edited == [toks |-> <<sys, three, four>>, q0 |-> 1, q1 |-> 3, user |-> 2]

Moved == [toks |-> <<sys, one, two, three, say>>, q0 |-> 1, q1 |-> 5, user |-> 3]
Bare == [toks |-> <<sys, one, say>>, q0 |-> 0, q1 |-> 3, user |-> 2]
Later == [toks |-> <<sys, one, two, say, tool, tool>>, q0 |-> 1, q1 |-> 2, user |-> 1]

\* The second question is withdrawn and the tool round goes on.
Withdrawn == {Ask, AskAgain, Later}
Forward == {Ask, Tool, AskAgain, Stripped}
AnyOrder == Forward \cup Withdrawn \cup {Edited, Moved, Bare}
=============================================================================

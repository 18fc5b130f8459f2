----------------------------- MODULE MCSession -----------------------------
(* Instances of Session for TLC.                                            *)
EXTENDS Session, TLC

CONSTANTS c1, c2, anna, bert

MCCalls == {c1, c2}
MCUsers == {anna, bert}

\* The requests in progress are interchangeable, and so are the users.
Symmetry == Permutations(MCCalls) \cup Permutations(MCUsers)
=============================================================================

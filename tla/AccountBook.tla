---------------------------- MODULE AccountBook ----------------------------
(***************************************************************************)
(* What the position ceiling promises, without saying how: the account's   *)
(* book gains one contract at a time, only while it has a free slot, and   *)
(* loses one at a time.                                                    *)
(***************************************************************************)
EXTENDS Integers, FiniteSets

CONSTANTS Contract, MaxPositions

VARIABLE book

Init == book \subseteq Contract /\ Cardinality(book) <= MaxPositions

Enter(c) ==
    /\ c \notin book
    /\ Cardinality(book) < MaxPositions
    /\ book' = book \cup {c}

Leave(c) ==
    /\ c \in book
    /\ book' = book \ {c}

Next == \E c \in Contract : Enter(c) \/ Leave(c)

Spec == Init /\ [][Next]_book
=============================================================================

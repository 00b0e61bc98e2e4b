------------------------------- MODULE Filter -------------------------------
(***************************************************************************)
(* JavaScript's Array.prototype.filter, and Go's loops that do the same,   *)
(* with the elements to keep as a set. It is SelectSeq, but SelectSeq      *)
(* takes a test as an operator, which no proof can be given about.         *)
(***************************************************************************)
EXTENDS Naturals, Sequences

\* What is left of the first n elements of s, for each n.
Kept(s, S) ==
    LET kept[n \in 0 .. Len(s)] ==
            IF n = 0 THEN <<>>
            ELSE IF s[n] \in S THEN Append(kept[n - 1], s[n]) ELSE kept[n - 1]
    IN  kept

\* The elements of s that are in S, in their order.
Only(s, S) == Kept(s, S)[Len(s)]
=============================================================================

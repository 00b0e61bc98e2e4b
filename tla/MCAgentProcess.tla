--------------------------- MODULE MCAgentProcess ---------------------------
(* AgentProcess on a small instance: two callers, and channels and pipes   *)
(* of one slot so that each queue fills, a send blocks and a line drops.   *)
EXTENDS AgentProcess

CONSTANTS c1, c2
MCCallers == {c1, c2}

\* Only is SelectSeq.
ASSUME OnlyIsSelectSeq ==
    \A n \in 0 .. 4 : \A s \in [1 .. n -> 1 .. 3], S \in SUBSET (1 .. 3) :
        Only(s, S) = SelectSeq(s, LAMBDA e : e \in S)
=============================================================================

---------------------------- MODULE MCFrameGraph ----------------------------
(* Four frames; the transforms are the permutations of three axes, of which a *)
(* rotation and a reflection, which do not commute, are offered as edges.     *)
EXTENDS FrameGraph, TLC

MCRigid == Permutations({1, 2, 3})
MCOne == [i \in 1..3 |-> i]
MCCompose(a, b) == [i \in 1..3 |-> a[b[i]]]
MCInvert(a) == [i \in 1..3 |-> CHOOSE j \in 1..3 : a[j] = i]

MCTurn == [i \in 1..3 |-> IF i = 3 THEN 1 ELSE i + 1]
MCSwap == [i \in 1..3 |-> IF i = 3 THEN 3 ELSE 3 - i]

MCSymmetry == Permutations(Frames)

MCOffered == {MCTurn, MCSwap}

=============================================================================

------------------------------ MODULE Folding ------------------------------
(***************************************************************************)
(* What a loop over a sequence leaves, element after element.              *)
(***************************************************************************)
EXTENDS Integers, Sequences

\* After i elements the loop holds Runs(...)[i].
Runs(op(_, _), base, seq) ==
    LET run[i \in 0..Len(seq)] == IF i = 0 THEN base ELSE op(run[i - 1], seq[i])
    IN run

Fold(op(_, _), base, seq) == Runs(op, base, seq)[Len(seq)]
=============================================================================

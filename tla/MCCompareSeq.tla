---------------------------- MODULE MCCompareSeq ----------------------------
(* All pairs of vectors up to a length.  Only equality of the elements is   *)
(* ever looked at, so they are symmetric.                                   *)
EXTENDS CompareSeq, TLC

INSTANCE CompareAlignment

CONSTANT MaxLength

MCVector == UNION {[1..n -> Element] : n \in 0..MaxLength}

ElementSymmetry == Permutations(Element)

=============================================================================

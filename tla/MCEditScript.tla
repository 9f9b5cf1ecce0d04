----------------------------- MODULE MCEditScript -----------------------------
(* All pairs of files of up to MaxLines words of two kinds, with every      *)
(* correct result of compareseq, and long files in which every run of       *)
(* unmatched words and words that match much occurs, in which compareseq    *)
(* finds nothing.  The word a, which gets number 0, comes first in the old  *)
(* file and is not in the range: a range may begin with any number.  One    *)
(* more input has more words than there are numbers.                        *)
EXTENDS EditScript

CONSTANTS MaxLines, MaxLong, a, b, c, d, e

MCWord == {a, b, c, d, e}
(* a and c, and b and d, share a bucket. *)
MCHash == [w \in MCWord |-> IF w \in {a, c} THEN 0 ELSE 1]

Texts(kinds, n) == UNION {[1..m -> kinds] : m \in 0..n}

After(first, old, new) ==
    [words |-> <<<<first>> \o old, new>>, from |-> <<1, 0>>]

(* b matches nothing, c matches many lines and d matches one. *)
Long == {<<v, <<c, c, d>>>> : v \in [1..MaxLong -> {b, c, d}]}

MCInputs ==
    {After(a, p[1], p[2]) : p \in (Texts({a, c}, MaxLines) \X Texts({a, c}, MaxLines))
                                  \cup Long}
    \cup {After(a, <<b, c, d>>, <<e>>)}

RECURSIVE Alignments(_, _, _, _)
Alignments(x, y, i0, j0) ==
    {{}} \cup
    UNION {{{p} \cup M : M \in Alignments(x, y, p[1], p[2])} :
              p \in {q \in ((i0 + 1)..Len(x)) \X ((j0 + 1)..Len(y)) :
                        x[q[1]] = y[q[2]]}}

Pairs(x, y) ==
    IF Len(x) <= MaxLines /\ Len(y) <= MaxLines THEN Alignments(x, y, 0, 0) ELSE {{}}

=============================================================================

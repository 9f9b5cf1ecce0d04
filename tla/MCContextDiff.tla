---------------------------- MODULE MCContextDiff ----------------------------
(* All pairs of files of up to MaxWords words of up to Kinds kinds, the     *)
(* kinds numbered in the order in which they occur.                         *)
EXTENDS ContextDiff

CONSTANTS MaxWords, Kinds

MCValue == 0..(Kinds - 1)

Files == UNION {[1..n -> MCValue] : n \in 0..MaxWords}

NumberedByOccurrence(v) ==
    \A i \in DOMAIN v : v[i] = 0 \/ \E h \in 1..(i - 1) : v[h] = v[i] - 1

MCInputs == {in \in Files \X Files : NumberedByOccurrence(in[1] \o in[2])}

(* The correct edit scripts that turn x into y: equal elements of x and y   *)
(* are paired in order, and what lies between two pairs is a change.        *)
RECURSIVE Alignments(_, _, _, _)
Alignments(x, y, i, j) ==
    {<< >>} \cup
    UNION {{<<p>> \o M : M \in Alignments(x, y, p[1], p[2])} :
              p \in {q \in ((i + 1)..Len(x)) \X ((j + 1)..Len(y)) :
                        x[q[1]] = y[q[2]]}}

Script(x, y, M) ==
    LET ends == <<<<0, 0>>>> \o M \o <<<<Len(x) + 1, Len(y) + 1>>>>
    IN SelectSeq([k \in 1..(Len(ends) - 1) |->
                     [line0 |-> ends[k][1], line1 |-> ends[k][2],
                      deleted |-> ends[k + 1][1] - ends[k][1] - 1,
                      inserted |-> ends[k + 1][2] - ends[k][2] - 1]],
                 LAMBDA c : c.deleted > 0 \/ c.inserted > 0)

(* The shortest scripts if minimal is set, and all correct ones if not: the *)
(* heuristics may miss any pair, except that compareseq passes over equal   *)
(* vectors before it looks for a partition.                                 *)
Scripts(x, y, minimal) ==
    LET all == Alignments(x, y, 0, 0)
        longest == Max({Len(M) : M \in all})
    IN {Script(x, y, M) : M \in {N \in all : minimal \/ x = y => Len(N) = longest}}

MCMatchContexts == {2, 4}

=============================================================================

---------------------------- MODULE MCPrepareDiff ----------------------------
(* Files of a word character, a space, a newline and a delimiter; and every *)
(* unified diff of up to MaxLines lines, the last one with or without its   *)
(* newline: line counts, headers, empty lines, and the lines of a hunk with *)
(* words, with a delimiter at the start or empty.                           *)
EXTENDS PrepareDiff, SequencesExt

CONSTANT MaxLines

MCChar == {"w", "space", "newline", "+"}
MCWhitespace == {"space", "newline"}
MCDelimiters == {"+"}

Lines == {<<"@">>, <<"w">>, << >>, <<"+", "+", "w">>, <<"-", "w">>, <<"space">>}

MCInputs ==
    UNION {LET texts == {FlattenSeq([k \in 1..n |-> Append(ls[k], "newline")]) :
                            ls \in [1..n -> Lines]}
           IN texts \cup {SubSeq(t, 1, Len(t) - 1) : t \in texts} : n \in 0..MaxLines}

=============================================================================

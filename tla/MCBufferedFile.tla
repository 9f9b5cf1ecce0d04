---------------------------- MODULE MCBufferedFile ----------------------------
(* BufferedFile for texts that are made of a few pieces: characters of one   *)
(* to four bytes and of several categories, the characters 0 and 1 that are  *)
(* escaped, bytes that start a character or belong inside one, halves of     *)
(* surrogate pairs, and characters that are too long or too large.           *)
EXTENDS BufferedFile

MCPieces == {
    <<65>>,                             \* A
    <<10>>,                             \* line feed, the delimiter
    <<0>>, <<1>>,
    <<204, 129>>,                       \* U+0301, an accent on what is before
    <<224, 164, 131>>,                  \* U+0903, a spacing mark
    <<216, 128>>,                       \* U+0600, a sign before a number
    <<240, 159, 152, 128>>,             \* U+1F600
    <<195>>, <<128>>,                   \* the parts of a character
    <<237, 160, 189>>, <<237, 184, 128>>, \* the halves of U+1F600
    <<224, 128, 128>>,                  \* too long
    <<244, 144, 128, 128>>}             \* too large

MCBytes == {<<65>>, <<10>>, <<0>>, <<1>>, <<195>>}

Made(pieces, most) == {FlattenSeq(s) : s \in SeqOf(pieces, most)}

MCTexts == [c \in BOOLEAN \X {"split", "input"} |->
    IF c[1] THEN Made(MCPieces, IF c[2] = "split" THEN 2 ELSE 3) ELSE Made(MCBytes, 4)]

MCDelimiters == {<<10>>}

MCCategory ==
    [c \in {0, 1} |-> "CONTROL"] @@ (10 :> "LF") @@ (769 :> "EXTEND")
    @@ (2307 :> "SPACING_MARK") @@ (1536 :> "PREPEND")

=============================================================================

------------------------------ MODULE Tokenizer ------------------------------
(***************************************************************************)
(* readFile (dwdiff.c): one input file is separated into a file of tokens  *)
(* and a file of whitespace.  The printing half of dwdiff later reads the  *)
(* two files back in turn: whitespace, token, whitespace, token, ...       *)
(*                                                                         *)
(* A character is represented by its position in the input, so a piece of  *)
(* either file is the sequence of the positions stored in it.  What the    *)
(* character is matters only to classifyChar and to the search for blank   *)
(* lines; `input' holds the characters read so far.                        *)
(***************************************************************************)
EXTENDS Integers, Sequences, FiniteSets

CONSTANTS
    Char,         \* the characters (grapheme clusters in UTF-8 mode)
    Newline,      \* the newline character
    whitespace,   \* option.whitespace: the whitespace characters
    delimiters,   \* option.delimiters: the delimiter characters
    MaxInput      \* bound on the length of the input

ASSUME OptionAssumption == /\ Newline \in Char
                           /\ whitespace \subseteq Char
                           /\ delimiters \subseteq Char
                           /\ MaxInput \in Nat

VARIABLES
    option,       \* the options in effect: with paraDelim (-S), mark blank lines
    input,        \* the characters read so far
    state,        \* MatchState of readFile, or how readFile ended
    wordCount,    \* the count that readFile returns
    file          \* the two temporary files and the buffers in front of them

vars == <<option, input, state, wordCount, file>>

Reading == {"NONE", "WORD", "WHITESPACE"}
Ended == {"DONE", "FATAL"}

Piece == Seq(Nat \ {0})

(* The terminated pieces of the two files, the unterminated word at the end *)
(* of the token file (and in currentWord), whitespaceBuffer, tokenWritten.  *)
InputFile == [tokens: Seq(Piece), whitespace: Seq(Piece),
              currentWord: Piece, whitespaceBuffer: Piece,
              tokenWritten: BOOLEAN]

-----------------------------------------------------------------------------
(* Operations on the InputFile. *)

classifyChar(c) ==
    IF c \in delimiters THEN "DELIMITER"
    ELSE IF c \in whitespace THEN "WHITESPACE" ELSE "OTHER"

writeTokenChar(f, p) ==
    [f EXCEPT !.currentWord = Append(@, p)]

(* Slip: currentWord is not reset. *)
writeEndOfToken_NoReset(f) ==
    [f EXCEPT !.tokens = Append(@, f.currentWord), !.tokenWritten = TRUE]

writeEndOfToken(f) ==
    [f EXCEPT !.tokens = Append(@, f.currentWord),
              !.currentWord = <<>>,
              !.tokenWritten = TRUE]

writeWhitespaceChar(f, p) ==
    [f EXCEPT !.whitespaceBuffer = Append(@, p)]

(* Indices of the newlines in whitespaceBuffer, where text is what was read. *)
newlines(f, text) ==
    {i \in 1..Len(f.whitespaceBuffer) : text[f.whitespaceBuffer[i]] = Newline}

(* The number of characters of whitespaceBuffer before its first newline. *)
firstNewline(f, text) ==
    Cardinality({i \in 1..Len(f.whitespaceBuffer) :
                    \A j \in 1..i : j \notin newlines(f, text)})

(* The whitespace is broken after its first n characters, and an empty     *)
(* token that stands for the blank line is put between the two parts.      *)
breakWhitespace(f, n) ==
    LET buffer == f.whitespaceBuffer
    IN  writeEndOfToken(
            [f EXCEPT !.whitespace = Append(Append(@, SubSeq(buffer, 1, n)),
                                            SubSeq(buffer, n + 1, Len(buffer))),
                      !.whitespaceBuffer = <<>>])

(* Slip: zero-length whitespace is not written. *)
flushWhitespace_NotEmpty(f) ==
    [f EXCEPT !.whitespace = IF f.whitespaceBuffer = <<>> THEN @
                             ELSE Append(@, f.whitespaceBuffer),
              !.whitespaceBuffer = <<>>]

(* Slip: whitespaceBuffer is not emptied. *)
flushWhitespace_NoReset(f) ==
    [f EXCEPT !.whitespace = Append(@, f.whitespaceBuffer)]

flushWhitespace(f) ==
    [f EXCEPT !.whitespace = Append(@, f.whitespaceBuffer),
              !.whitespaceBuffer = <<>>]

(* Slip: one newline is taken for a blank line everywhere. *)
handleWhitespaceEnd_OneNewline(f, text) ==
    IF "paraDelim" \in option /\ newlines(f, text) # {}
    THEN breakWhitespace(f, firstNewline(f, text) + 1)
    ELSE flushWhitespace(f)

handleWhitespaceEnd(f, text) ==
    LET first == firstNewline(f, text)
    IN  IF "paraDelim" \in option /\ newlines(f, text) # {} /\ ~f.tokenWritten
        THEN breakWhitespace(f, first)
        ELSE IF "paraDelim" \in option /\ \E i \in newlines(f, text) : i # first + 1
        THEN breakWhitespace(f, first + 1)
        ELSE flushWhitespace(f)

-----------------------------------------------------------------------------

Init ==
    /\ option \in SUBSET {"paraDelim"}
    /\ input = <<>>
    /\ state = "NONE"
    /\ wordCount = 0
    /\ file = [tokens |-> <<>>, whitespace |-> <<>>, currentWord |-> <<>>,
               whitespaceBuffer |-> <<>>, tokenWritten |-> FALSE]

(* getNextChar succeeds and the character is of the given category. *)
Get(c, category) ==
    /\ Len(input) < MaxInput
    /\ classifyChar(c) = category
    /\ input' = Append(input, c)
    /\ UNCHANGED option

(* Slip: the position is taken before the character is stored. *)
pos_Stale == Len(input)

(* The position of the character just read, which stands for charData. *)
pos == Len(input')

NoneWhitespace(c) ==
    /\ state = "NONE"
    /\ Get(c, "WHITESPACE")
    /\ file' = writeWhitespaceChar(file, pos)
    /\ state' = "WHITESPACE"
    /\ UNCHANGED wordCount

NoneDelimiter(c) ==
    /\ state = "NONE"
    /\ Get(c, "DELIMITER")
    /\ file' = writeEndOfToken(
                   writeTokenChar(handleWhitespaceEnd(file, input'), pos))
    /\ state' = "WHITESPACE"
    /\ UNCHANGED wordCount

NoneOther(c) ==
    /\ state = "NONE"
    /\ Get(c, "OTHER")
    /\ file' = writeTokenChar(handleWhitespaceEnd(file, input'), pos)
    /\ state' = "WORD"
    /\ UNCHANGED wordCount

WordWhitespace(c) ==
    /\ state = "WORD"
    /\ Get(c, "WHITESPACE")
    /\ file' = writeWhitespaceChar(writeEndOfToken(file), pos)
    /\ state' = "WHITESPACE"
    /\ wordCount' = wordCount + 1

WordDelimiter(c) ==
    /\ state = "WORD"
    /\ Get(c, "DELIMITER")
    /\ file' = handleWhitespaceEnd(
                   writeEndOfToken(writeTokenChar(writeEndOfToken(file), pos)),
                   input')
    /\ state' = "WHITESPACE"
    /\ wordCount' = wordCount + 2

WordOther(c) ==
    /\ state = "WORD"
    /\ Get(c, "OTHER")
    /\ file' = writeTokenChar(file, pos)
    /\ UNCHANGED <<state, wordCount>>

WhitespaceWhitespace(c) ==
    /\ state = "WHITESPACE"
    /\ Get(c, "WHITESPACE")
    /\ file' = writeWhitespaceChar(file, pos)
    /\ UNCHANGED <<state, wordCount>>

WhitespaceDelimiter(c) ==
    /\ state = "WHITESPACE"
    /\ Get(c, "DELIMITER")
    /\ file' = handleWhitespaceEnd(
                   writeEndOfToken(writeTokenChar(file, pos)), input')
    /\ wordCount' = wordCount + 1
    /\ UNCHANGED state

WhitespaceOther(c) ==
    /\ state = "WHITESPACE"
    /\ Get(c, "OTHER")
    /\ file' = writeTokenChar(handleWhitespaceEnd(file, input'), pos)
    /\ state' = "WORD"
    /\ UNCHANGED wordCount

(* getNextChar fails at the end of the input: the trailing whitespace and  *)
(* the last word are terminated, and the two files are flushed and rewound *)
(* (fatal if a write to one of them failed).                               *)
EndOfFile ==
    /\ state \in Reading
    /\ LET f == handleWhitespaceEnd(file, input)
       IN  file' = IF state = "WORD" THEN writeEndOfToken(f) ELSE f
    /\ wordCount' = IF state = "WORD" THEN wordCount + 1 ELSE wordCount
    /\ state' \in Ended
    /\ UNCHANGED <<option, input>>

(* The input cannot be opened, a temporary file cannot be created, or      *)
(* getNextChar fails with an error on the input stream: fatal.             *)
ReadError ==
    /\ state \in Reading
    /\ state' = "FATAL"
    /\ UNCHANGED <<option, input, wordCount, file>>

(* readFile has returned, or the process has exited. *)
Return ==
    /\ state \in Ended
    /\ UNCHANGED vars

Read(c) ==
    \/ NoneWhitespace(c) \/ NoneDelimiter(c) \/ NoneOther(c)
    \/ WordWhitespace(c) \/ WordDelimiter(c) \/ WordOther(c)
    \/ WhitespaceWhitespace(c) \/ WhitespaceDelimiter(c) \/ WhitespaceOther(c)

Next ==
    \/ \E c \in Char : Read(c)
    \/ EndOfFile
    \/ ReadError
    \/ Return

Spec == Init /\ [][Next]_vars

-----------------------------------------------------------------------------
(* Type invariant. *)
TypeOK ==
    /\ option \in SUBSET {"paraDelim"}
    /\ input \in Seq(Char)
    /\ state \in Reading \cup Ended
    /\ wordCount \in Nat
    /\ file \in InputFile

(* The pieces of the two files, the ones still being collected included. *)
Tokens == Append(file.tokens, file.currentWord)
Spaces == Append(file.whitespace, file.whitespaceBuffer)

(* The two files stay in step, so that the printing code can take pieces   *)
(* from them in turn: between words there is one token per piece of        *)
(* whitespace, and the last piece of whitespace follows the last token.    *)
PiecesInStep ==
    state # "FATAL" =>
        Len(file.whitespace) =
            Len(file.tokens) + (IF state \in {"WORD", "DONE"} THEN 1 ELSE 0)

Positions(pieces) ==
    UNION {{pieces[k][i] : i \in DOMAIN pieces[k]} : k \in DOMAIN pieces}

Before(a, b) == \A i \in DOMAIN a, j \in DOMAIN b : a[i] < b[j]

Ordered(pieces) ==
    /\ \A k \in DOMAIN pieces :
          \A i, j \in DOMAIN pieces[k] : i < j => pieces[k][i] < pieces[k][j]
    /\ \A k, l \in DOMAIN pieces : k < l => Before(pieces[k], pieces[l])

WordTokens == {k \in DOMAIN file.tokens : file.tokens[k] # <<>>}
ParagraphTokens == {k \in DOMAIN file.tokens : file.tokens[k] = <<>>}

StartsWithDelimiter == input # <<>> /\ classifyChar(input[1]) = "DELIMITER"

(* dwdiff.c:276: readFile returns "The number of "words" in" the file,     *)
(* which are the tokens that hold text.                                    *)
CountedWords == state = "DONE" => wordCount = Cardinality(WordTokens)

(* The runs of whitespace in the input that readFile has seen the end of. *)
WhitespaceRuns ==
    LET Space(i) == classifyChar(input[i]) = "WHITESPACE"
        Completed(b) == IF b = Len(input) THEN state = "DONE" ELSE ~Space(b + 1)
    IN  {r \in (1..Len(input)) \X (1..Len(input)) :
            /\ r[1] <= r[2]
            /\ \A i \in r[1]..r[2] : Space(i)
            /\ r[1] = 1 \/ ~Space(r[1] - 1)
            /\ Completed(r[2])}

(* "a newline there results in an empty line.  This is different from      *)
(* other whitespace where two newlines are required" (handleWhitespaceEnd) *)
HoldsBlankLine(r) ==
    Cardinality({i \in r[1]..r[2] : input[i] = Newline})
        >= (IF r[1] = 1 THEN 1 ELSE 2)

(* A delimiter ends whitespace that holds a blank line: the case in which  *)
(* readFile writes the delimiter before it looks at the whitespace.        *)
DelimiterAfterBlankLine ==
    \E r \in WhitespaceRuns :
        /\ HoldsBlankLine(r)
        /\ r[2] < Len(input) /\ classifyChar(input[r[2] + 1]) = "DELIMITER"

(* With -S there is one empty token for every run of whitespace that holds *)
(* a blank line, and there are no others (as long as no delimiter ends     *)
(* such a run).                                                            *)
ParagraphsMarked ==
    state # "FATAL" /\ ~DelimiterAfterBlankLine =>
        Cardinality(ParagraphTokens) =
            IF "paraDelim" \in option
            THEN Cardinality({r \in WhitespaceRuns : HoldsBlankLine(r)})
            ELSE 0

(* Reading the two files back in turn gives the input that was read: every *)
(* character is in one of the pieces, nothing else is, and the pieces are  *)
(* in the order whitespace 1, token 1, whitespace 2, token 2, ...          *)
Lossless ==
    /\ Positions(Tokens) \cup Positions(Spaces) = 1..Len(input)
    /\ Ordered(Tokens)
    /\ Ordered(Spaces)
    /\ \A k \in DOMAIN Spaces, l \in DOMAIN Tokens :
          IF k <= l THEN Before(Spaces[k], Tokens[l])
                    ELSE Before(Tokens[l], Spaces[k])

(* readFile loses and reorders nothing, unless with -S a delimiter ends    *)
(* whitespace that holds a blank line.                                     *)
ReadsBack ==
    "paraDelim" \notin option \/ ~DelimiterAfterBlankLine => Lossless

=============================================================================

---------------------------- MODULE BufferedFile ----------------------------
(***************************************************************************)
(* The way of a text through the files of dwdiff: File (file.c), buffered  *)
(* reading and writing of a file descriptor, the streams on top of it      *)
(* (stream.c) and the readers and writers of characters (unicode.c).       *)
(*                                                                         *)
(* With -u the text is first written to a temporary file, which is closed  *)
(* and opened by its name (splitDiffInput).  readFile reads the text and   *)
(* writes its words to another temporary file, which is flushed, checked   *)
(* and rewound, and printEnd reads it until its end.  The text has no      *)
(* whitespace; a delimiter is a word.                                      *)
(*                                                                         *)
(* read and write may be cut short or interrupted, which their loops hide, *)
(* and may fail.                                                           *)
(***************************************************************************)
EXTENDS Utf8, FiniteSets, SequencesExt, FiniteSetsExt

CONSTANTS
    FILE_BUFFER_SIZE,
    Texts,              \* the texts, for each mode and start: sequences of bytes
    Delimiters,         \* the clusters that are delimiters
    Category            \* the category of characters that are not OTHER (ICU)

ASSUME SizesAssumption == FILE_BUFFER_SIZE \in Nat \ {0}
ASSUME TextsAssumption == Texts \in [BOOLEAN \X {"split", "input"} -> SUBSET Seq(Byte)]
ASSUME CategoryAssumption == DOMAIN Category \subseteq 0..LastCharacter

VARIABLES
    UTF8Mode,
    text,      \* the bytes of the input
    input,     \* the Stream the text is read from
    tokens,    \* the Stream of the words
    state,     \* readFile's state: "WORD", or "WHITESPACE" (and NONE) outside words
    pc,        \* what is done next
    seen,      \* history: the clusters read from the input
    got        \* history: the units read back, END after a word, and EOF

vars == <<UTF8Mode, text, input, tokens, state, pc, seen, got>>

END == -10

(* fileWrapFD: position is that of the descriptor, disk what is in its file. *)
fileWrapFD(mode, disk) ==
    [mode |-> mode, buffer |-> << >>, bufferIndex |-> 0, position |-> 0,
     disk |-> disk, eof |-> "EOF_NO", errNo |-> "none"]

newFileStream(file) ==
    [file |-> file, bufferedChar |-> EOF, nextChar |-> EOF,
     lastClusterCategory |-> "OTHER"]

Init ==
    /\ UTF8Mode \in BOOLEAN
    /\ \/ /\ pc = "split"
          /\ text \in Texts[UTF8Mode, "split"]
          /\ input = newFileStream(fileWrapFD("FILE_WRITE", << >>))
       \/ /\ pc = "input"
          /\ text \in Texts[UTF8Mode, "input"]
          /\ input = newFileStream(fileWrapFD("FILE_READ", text))
    /\ tokens = newFileStream(fileWrapFD("FILE_WRITE", << >>))
    /\ state = "WHITESPACE"
    /\ seen = << >>
    /\ got = << >>

-----------------------------------------------------------------------------
(* Writing: each operator is the set of what the File may be afterwards. *)

(* Slip: bufferFill > FILE_BUFFER_SIZE *)
Split_OneMore(all) ==
    LET n == IF all = << >> THEN 0
             ELSE (FILE_BUFFER_SIZE + 1) * ((Len(all) - 1) \div (FILE_BUFFER_SIZE + 1))
    IN <<SubSeq(all, 1, n), SubSeq(all, n + 1, Len(all))>>

(* The bytes of all that go to the descriptor when they are put in the     *)
(* buffer one after the other, and those that stay: the buffer is only     *)
(* written when there is another byte to put in it.                        *)
Split(all) ==
    LET n == IF all = << >> THEN 0
             ELSE FILE_BUFFER_SIZE * ((Len(all) - 1) \div FILE_BUFFER_SIZE)
    IN <<SubSeq(all, 1, n), SubSeq(all, n + 1, Len(all))>>

(* flushBuffer for the bytes out: all are written, or the write fails      *)
(* after some of them.                                                     *)
flushBuffer(f, out, rest) ==
    IF out = << >> THEN {[f EXCEPT !.buffer = rest]}
    ELSE {[f EXCEPT !.disk = @ \o out, !.buffer = rest]}
         \cup {[f EXCEPT !.disk = @ \o SubSeq(out, 1, n), !.errNo = "write"] :
                  n \in 0..(Len(out) - 1)}

(* filePutc and fileWrite; after an error nothing is done. *)
fileWrite(f, all) ==
    IF f.errNo # "none" THEN {f}
    ELSE LET parts == Split(f.buffer \o all) IN flushBuffer(f, parts[1], parts[2])

fileFlush(f) == IF f.errNo # "none" THEN {f} ELSE flushBuffer(f, f.buffer, << >>)

(* fileRewind, with an empty buffer *)
fileRewind(f) == [f EXCEPT !.mode = "FILE_READ", !.eof = "EOF_NO", !.position = 0]

(* splitDiffInput *)
WriteSide ==
    /\ pc = "split"
    /\ \E f \in fileWrite(input.file, text) : input' = [input EXCEPT !.file = f]
    /\ pc' = "close"
    /\ UNCHANGED <<UTF8Mode, text, tokens, state, seen, got>>

(* closeTempFile flushes the buffer, and nobody looks at the result; then  *)
(* readFile opens the file again.                                          *)
CloseAndOpen ==
    /\ pc = "close"
    /\ \E f \in fileFlush(input.file) :
          input' = newFileStream(fileWrapFD("FILE_READ", f.disk))
    /\ pc' = "input"
    /\ UNCHANGED <<UTF8Mode, text, tokens, state, seen, got>>

-----------------------------------------------------------------------------
(* Reading: each operator is the set of the results, as pairs of the File  *)
(* or Stream after the call and what it returns.                           *)

(* Slip: nothing more is read, but the end is not noted. *)
Refilled_NotNoted(f) ==
    LET more == SubSeq(f.disk, f.position + 1,
                       Min({f.position + FILE_BUFFER_SIZE, Len(f.disk)}))
    IN [f EXCEPT !.buffer = IF more = << >> THEN @ ELSE more,
                 !.bufferIndex = IF more = << >> THEN @ ELSE 0,
                 !.position = @ + Len(more)]

(* The buffer is filled as far as the file goes. *)
Refilled(f) ==
    LET more == SubSeq(f.disk, f.position + 1,
                       Min({f.position + FILE_BUFFER_SIZE, Len(f.disk)}))
    IN [f EXCEPT !.buffer = IF more = << >> THEN @ ELSE more,
                 !.bufferIndex = IF more = << >> THEN @ ELSE 0,
                 !.position = @ + Len(more),
                 !.eof = CASE more = << >> -> "EOF_HIT"
                           [] Len(more) \in 1..(FILE_BUFFER_SIZE - 1) -> "EOF_COMING"
                           [] OTHER -> @]

(* The next byte of the buffer, or EOF if there is none. *)
FromBuffer(f) ==
    IF f.bufferIndex < Len(f.buffer)
    THEN <<[f EXCEPT !.bufferIndex = @ + 1], f.buffer[f.bufferIndex + 1]>>
    ELSE <<f, EOF>>

fileGetc(f) ==
    CASE f.errNo # "none" -> {<<f, EOF>>}
      [] f.errNo = "none" /\ f.bufferIndex < Len(f.buffer) -> {FromBuffer(f)}
      [] f.errNo = "none" /\ f.bufferIndex >= Len(f.buffer) /\ f.eof # "EOF_NO" ->
            {<<[f EXCEPT !.eof = "EOF_HIT"], EOF>>}
      [] OTHER -> {FromBuffer(Refilled(f)), <<[f EXCEPT !.errNo = "read"], EOF>>}

fileUngetc(f, c) ==
    [f EXCEPT !.bufferIndex = @ - 1, !.buffer = [@ EXCEPT ![f.bufferIndex] = c]]

(* Slip: the end of the file stays in sight. *)
fileClearEof_Not(f) == f

fileClearEof(f) == [f EXCEPT !.eof = "EOF_COMING"]

fileEof(f) == f.eof = "EOF_HIT"

(* Slip: a byte that does not belong to the character is lost. *)
RECURSIVE MoreBytes_Drops(_, _, _, _)
MoreBytes_Drops(f, left, missing, retval) ==
    IF missing = 0 THEN {<<f, Checked(retval, left)>>}
    ELSE UNION {CASE r[2] = EOF -> {<<r[1], UEINVALID>>}
                  [] r[2] # EOF /\ ~IsContinuation(r[2]) -> {<<r[1], UEINVALID>>}
                  [] OTHER -> MoreBytes_Drops(r[1], left, missing - 1,
                                              AddBits(retval, r[2])) :
                   r \in fileGetc(f)}

(* getuc after the first byte, with so many of the bytes still missing *)
RECURSIVE MoreBytes(_, _, _, _)
MoreBytes(f, left, missing, retval) ==
    IF missing = 0 THEN {<<f, Checked(retval, left)>>}
    ELSE UNION {CASE r[2] = EOF -> {<<r[1], UEINVALID>>}
                  [] r[2] # EOF /\ ~IsContinuation(r[2]) ->
                        {<<fileUngetc(r[1], r[2]), UEINVALID>>}
                  [] OTHER -> MoreBytes(r[1], left, missing - 1, AddBits(retval, r[2])) :
                   r \in fileGetc(f)}

getuc(s) ==
    {<<[s EXCEPT !.file = r[1]], r[2]>> :
        r \in UNION {CASE q[2] = EOF -> {q}
                       [] q[2] \in 194..244 ->
                             MoreBytes(q[1], bytesLeft(q[2]), bytesLeft(q[2]), LeadBits(q[2]))
                       [] OTHER -> {<<q[1], Single(q[2])>>} :
                        q \in fileGetc(s.file)}}

(* (c & 0xF800) == 0xD800: half of a surrogate pair, or a character far    *)
(* above them with the same last 16 bits                                   *)
LooksLikeSurrogate(c) == (c \div 2048) % 32 = 27

(* The character after what looks like a high surrogate is waited for;     *)
(* when it is not a low one it is kept for the next call.                  *)
getucFiltered(s) ==
    LET first == IF s.nextChar >= 0 THEN {<<[s EXCEPT !.nextChar = EOF], s.nextChar>>}
                 ELSE getuc(s)
        pair(c, r) == IF IsLowSurrogate(r[2]) THEN <<r[1], Combined(c, r[2])>>
                      ELSE <<[r[1] EXCEPT !.nextChar = r[2]], REPLACEMENT_CHARACTER>>
    IN UNION {CASE r[2] = EOF -> {r}
                [] r[2] < EOF -> {<<r[1], REPLACEMENT_CHARACTER>>}
                [] r[2] >= 0 /\ ~LooksLikeSurrogate(r[2]) -> {r}
                [] r[2] >= 0 /\ LooksLikeSurrogate(r[2]) /\ IsLowSurrogate(r[2]) ->
                      {<<r[1], REPLACEMENT_CHARACTER>>}
                [] OTHER -> {pair(r[2], q) : q \in getuc(r[1])} :
                 r \in first}

getClusterCategory(c) ==
    IF c \in DOMAIN Category /\ Category[c] \in DOMAIN clusterContinuationTable
    THEN Category[c] ELSE "OTHER"

(* The do-while loop of getClusterInternal, with the units so far *)
RECURSIVE Cluster(_, _, _, _)
Cluster(s, category, units, continuationTable) ==
    LET added == units \o addUCS4ToUTF16Buffer(s.bufferedChar)
    IN UNION {LET t == [q[1] EXCEPT !.bufferedChar = q[2],
                                    !.lastClusterCategory = getClusterCategory(q[2])]
              IN CASE q[2] < 0 -> {<<[t EXCEPT !.file = fileClearEof(@),
                                               !.lastClusterCategory = "OTHER"], added>>}
                   [] q[2] >= 0 /\ getClusterCategory(q[2]) \in continuationTable[category] ->
                         Cluster(t, getClusterCategory(q[2]), added, continuationTable)
                   [] OTHER -> {<<t, added>>} :
                 q \in getucFiltered(s)}

(* Nothing is read when it returns << >>. *)
getClusterInternal(s, continuationTable) ==
    IF s.bufferedChar >= 0
    THEN Cluster(s, s.lastClusterCategory, << >>, continuationTable)
    ELSE UNION {IF r[2] < 0 THEN {<<r[1], << >>>>}
                ELSE Cluster([r[1] EXCEPT !.bufferedChar = r[2]],
                             getClusterCategory(r[2]), << >>, continuationTable) :
                  r \in getucFiltered(s)}

(* getNextCharSC and readNextChar without Unicode *)
getByte(s) == {<<[s EXCEPT !.file = r[1]], IF r[2] = EOF THEN << >> ELSE <<r[2]>>>> :
                  r \in fileGetc(s.file)}

getNextChar(s) ==
    IF UTF8Mode THEN getClusterInternal(s, clusterContinuationTable) ELSE getByte(s)

readNextChar(s) ==
    IF UTF8Mode THEN getClusterInternal(s, backspaceContinuationTable) ELSE getByte(s)

-----------------------------------------------------------------------------
(* readFile *)

(* What writeTokenChar writes: 0 ends a word, and is escaped with 1. *)
writeTokenChar(units) ==
    CASE units[1] \in {0, 1} -> <<1, units[1]>>
      [] units[1] \notin {0, 1} /\ UTF8Mode -> ToUTF8(units)
      [] OTHER -> units

writeEndOfToken == IF state = "WORD" THEN <<0>> ELSE << >>

ReadInput ==
    /\ pc = "input"
    /\ \E r \in getNextChar(input) :
          /\ r[2] # << >>
          /\ input' = r[1]
          /\ seen' = Append(seen, r[2])
          /\ state' = IF r[2] \in Delimiters THEN "WHITESPACE" ELSE "WORD"
          /\ \E f \in fileWrite(tokens.file,
                         IF r[2] \in Delimiters
                         THEN writeEndOfToken \o writeTokenChar(r[2]) \o <<0>>
                         ELSE writeTokenChar(r[2])) :
                tokens' = [tokens EXCEPT !.file = f]
    /\ UNCHANGED <<UTF8Mode, text, pc, got>>

(* The loop ends; a read error is fatal. *)
InputEnds ==
    /\ pc = "input"
    /\ \E r \in getNextChar(input) :
          /\ r[2] = << >>
          /\ input' = r[1]
          /\ pc' = IF r[1].file.errNo # "none" THEN "fatal" ELSE "flush"
    /\ \E f \in fileWrite(tokens.file, writeEndOfToken) :
          tokens' = [tokens EXCEPT !.file = f]
    /\ UNCHANGED <<UTF8Mode, text, state, seen, got>>

(* sfflush, then sferror: fatal, or else srewind *)
FlushTokens ==
    /\ pc = "flush"
    /\ \E f \in fileFlush(tokens.file) :
          IF f.errNo # "none"
          THEN pc' = "fatal" /\ tokens' = [tokens EXCEPT !.file = f]
          ELSE pc' = "between" /\ tokens' = [tokens EXCEPT !.file = fileRewind(f)]
    /\ UNCHANGED <<UTF8Mode, text, input, state, seen, got>>

-----------------------------------------------------------------------------
(* printEnd, until sfeof *)

NextWord ==
    /\ pc = "between"
    /\ ~fileEof(tokens.file)
    /\ pc' = "word"
    /\ UNCHANGED <<UTF8Mode, text, input, tokens, state, seen, got>>

EndOfFile ==
    /\ pc = "between"
    /\ fileEof(tokens.file)
    /\ pc' = "done"
    /\ UNCHANGED <<UTF8Mode, text, input, tokens, state, seen, got>>

(* got is not extended beyond its bound. *)
Note(what) == IF Len(got) > 6 * Len(text) + 6 THEN got ELSE got \o what

(* The loop of handleNextToken; after a read error it ends like at the end *)
(* of the file, and printEnd calls it again.                               *)
handleNextToken ==
    /\ pc = "word"
    /\ \E r \in readNextChar(tokens) :
          CASE r[2] = << >> ->
                 /\ tokens' = r[1]
                 /\ got' = IF r[1].file.errNo # "none" THEN got ELSE Note(<<EOF>>)
                 /\ pc' = "between"
            [] r[2] # << >> /\ r[2][1] = 0 ->
                 /\ tokens' = r[1]
                 /\ got' = Note(<<END>>)
                 /\ pc' = "between"
            [] r[2] # << >> /\ r[2][1] = 1 ->
                 \E q \in readNextChar(r[1]) :
                    /\ tokens' = q[1]
                    /\ got' = Note(q[2])
                    /\ pc' = IF q[2] = << >> THEN "fatal" ELSE pc
            [] OTHER ->
                 /\ tokens' = r[1]
                 /\ got' = Note(r[2])
                 /\ UNCHANGED pc
    /\ UNCHANGED <<UTF8Mode, text, input, state, seen>>

Ended == pc \in {"done", "fatal"} /\ UNCHANGED vars

Next ==
    \/ WriteSide \/ CloseAndOpen \/ ReadInput \/ InputEnds \/ FlushTokens
    \/ NextWord \/ handleNextToken \/ EndOfFile \/ Ended

Spec == Init /\ [][Next]_vars

(* The program goes on reading until sfeof, and a read of a temporary file *)
(* that does not fail returns.                                             *)
FairSpec == Spec /\ WF_vars(NextWord \/ EndOfFile
                            \/ (handleNextToken /\ tokens'.file.errNo = "none"))

-----------------------------------------------------------------------------

FileOK(f) ==
    /\ Len(f.buffer) <= FILE_BUFFER_SIZE
    /\ f.bufferIndex \in 0..Len(f.buffer)
    /\ f.position \in 0..Len(f.disk)
    /\ f.eof \in {"EOF_NO", "EOF_COMING", "EOF_HIT"}
    /\ f.errNo \in {"none", "read", "write"}
    /\ f.disk \in Seq(Byte) /\ f.buffer \in Seq(Byte)

(* Type invariant: the indices stay inside the buffers, only a file in the *)
(* right mode is read or written, and characters are characters.           *)
TypeOK ==
    /\ FileOK(input.file) /\ FileOK(tokens.file)
    /\ pc = "input" => input.file.mode = "FILE_READ"
    /\ pc \in {"input", "flush"} => tokens.file.mode = "FILE_WRITE"
    /\ pc \in {"between", "word"} => tokens.file.mode = "FILE_READ"
    /\ \A s \in {input, tokens} : {s.bufferedChar, s.nextChar} \subseteq
                                     UETOOLARGE..LastCharacter
    /\ seen \in Seq(Seq(0..65535))

(* The bytes of one character, by the table of the Unicode standard that   *)
(* lists the well-formed sequences *)
WellFormed(b) ==
    \/ Len(b) = 1 /\ b[1] \in 0..127
    \/ /\ Len(b) = 2
       /\ b[1] \in 194..223 /\ b[2] \in 128..191
    \/ /\ Len(b) = 3
       /\ b[1] \in 224..239
       /\ b[2] \in (IF b[1] = 224 THEN 160 ELSE 128)..(IF b[1] = 237 THEN 159 ELSE 191)
       /\ b[3] \in 128..191
    \/ /\ Len(b) = 4
       /\ b[1] \in 240..244
       /\ b[2] \in (IF b[1] = 240 THEN 144 ELSE 128)..(IF b[1] = 244 THEN 143 ELSE 191)
       /\ b[3] \in 128..191 /\ b[4] \in 128..191

(* A surrogate pair, each half encoded as three bytes *)
EncodedPair(b) ==
    /\ Len(b) = 6
    /\ b[1] = 237 /\ b[2] \in 160..175 /\ b[3] \in 128..191
    /\ b[4] = 237 /\ b[5] \in 176..191 /\ b[6] \in 128..191

(* Their value: the last six bits of each byte after the first, with what  *)
(* is left of the first                                                    *)
Value(b) ==
    CASE Len(b) = 1 -> b[1]
      [] Len(b) = 2 -> (b[1] - 192) * 64 + (b[2] - 128)
      [] Len(b) = 3 -> (b[1] - 224) * 4096 + (b[2] - 128) * 64 + (b[3] - 128)
      [] Len(b) = 4 -> (b[1] - 240) * 262144 + (b[2] - 128) * 4096
                       + (b[3] - 128) * 64 + (b[4] - 128)
      [] Len(b) = 6 -> 65536 + ((b[2] - 160) * 64 + (b[3] - 128)) * 1024
                       + (b[5] - 176) * 64 + (b[6] - 128)

(* The characters of a sequence of bytes; what is between them is not one. *)
Characters(b) ==
    LET at(n) == {k \in {1, 2, 3, 4, 6} : /\ n + k - 1 <= Len(b)
                                          /\ LET c == SubSeq(b, n, n + k - 1)
                                             IN WellFormed(c) \/ EncodedPair(c)}
        starts == SetToSortSeq({n \in DOMAIN b : at(n) # {}}, <)
    IN [i \in DOMAIN starts |->
          Value(SubSeq(b, starts[i], starts[i] + Max(at(starts[i])) - 1))]

UTF16(c) == IF c < 65536 THEN <<c>>
            ELSE <<55296 + ((c - 65536) \div 1024), 56320 + ((c - 65536) % 1024)>>

(* The units that the input should give: its characters *)
InputUnits(b) ==
    IF UTF8Mode THEN FlattenSeq([i \in DOMAIN Characters(b) |-> UTF16(Characters(b)[i])])
    ELSE b

Valid(units) == SelectSeq(units, LAMBDA u : u # REPLACEMENT_CHARACTER)

(* unicode.c:100, unicode.c:142: every valid character of the input is     *)
(* read, once and in order, wherever it lies in the buffers and whatever   *)
(* invalid bytes, halves of surrogate pairs or ends of file are next to    *)
(* it; nothing but replacement characters is read besides.  This is about  *)
(* inputs without U+10000, whose code units are wrong, and without U+1D800 *)
(* to U+1DFFF, which unicode.c:135 takes for surrogates.                   *)
InputDecoded ==
    LET units == Valid(InputUnits(input.file.disk))
    IN /\ pc = "input" => IsPrefix(Valid(FlattenSeq(seen)), units)
       /\ pc \notin {"split", "close", "input", "fatal"} =>
             Valid(FlattenSeq(seen)) = units

(* What is read back: the units of each word, and END *)
Words ==
    FlattenSeq([i \in DOMAIN seen |->
        IF seen[i] \in Delimiters
        THEN (IF i > 1 /\ seen[i - 1] \notin Delimiters THEN <<END>> ELSE << >>)
             \o seen[i] \o <<END>>
        ELSE seen[i] \o (IF i = Len(seen) THEN <<END>> ELSE << >>)])

(* file.c:133, dwdiff.c:159, dwdiff.c:385: the words read back from the    *)
(* temporary file are the words that were read from the input, character   *)
(* by character, the characters 0 and 1 included.  sfeof tells the end of  *)
(* the file after one read that returned nothing, also when characters are *)
(* read ahead: until then printEnd still has the whitespace after the last *)
(* word to print.  When something could not be written, readFile does not  *)
(* come to reading it back.                                                *)
ReadsBack ==
    /\ pc \in {"between", "word"} /\ tokens.file.errNo = "none" =>
          IsPrefix(got, Append(Words, EOF))
    /\ pc = "done" => got = Append(Words, EOF)

(* doDiff.c:484: the loop that prints what is left of the files, until     *)
(* sfeof, ends, unless a read fails.                                       *)
ReadingEnds ==
    pc \in {"between", "word"} ~> (pc \in {"done", "fatal"} \/ tokens.file.errNo # "none")

=============================================================================

--------------------------- MODULE TokenizerProofs ---------------------------
(***************************************************************************)
(* The files that readFile writes stay in step, read back in turn they are *)
(* the input, the empty tokens in them are its blank lines, and what       *)
(* readFile returns is the number of tokens that hold text, for every set  *)
(* of characters, every choice of options and every length of the input.   *)
(***************************************************************************)
EXTENDS Tokenizer, FiniteSetTheorems, TLAPS

(* The tokens of a file that hold text: all but the marks of blank lines. *)
Worded(f) == {k \in DOMAIN f.tokens : f.tokens[k] # <<>>}

Words(f) == Cardinality(Worded(f))

(* How far the whitespace file is ahead of the token file. *)
Ahead(f) == Len(f.whitespace) - Len(f.tokens)

-----------------------------------------------------------------------------
(* What the operations on an InputFile do to its type, to its lead and to  *)
(* its tokens.                                                             *)

(* The empty sequence is the one of length zero. *)
LEMMA EmptySequence ==
    ASSUME NEW S
    PROVE  /\ <<>> \in Seq(S)
           /\ Len(<<>>) = 0
           /\ \A seq \in Seq(S) : seq # <<>> => Len(seq) \in Nat \ {0}
  OBVIOUS

(* The fields of an InputFile. *)
LEMMA Fields ==
    ASSUME NEW f \in InputFile
    PROVE  /\ f.tokens \in Seq(Piece) /\ f.whitespace \in Seq(Piece)
           /\ f.currentWord \in Piece /\ f.whitespaceBuffer \in Piece
           /\ Len(f.tokens) \in Nat /\ Len(f.whitespace) \in Nat
  BY DEF InputFile

(* The number of tokens that hold text is a number. *)
LEMMA WordsType ==
    ASSUME NEW f \in InputFile
    PROVE  /\ Worded(f) \subseteq 1..Len(f.tokens)
           /\ IsFiniteSet(Worded(f))
           /\ Words(f) \in Nat
           /\ Ahead(f) \in Int
  <1>1. Worded(f) \subseteq 1..Len(f.tokens)
    BY Fields DEF Worded
  <1>2. IsFiniteSet(1..Len(f.tokens))
    BY Fields, FS_Interval
  <1>3. IsFiniteSet(Worded(f))
    BY <1>1, <1>2, FS_Subset
  <1>4. Ahead(f) \in Int
    BY Fields DEF Ahead
  <1> QED
    BY <1>1, <1>3, <1>4, FS_CardinalityType DEF Words

(* writeTokenChar extends the word that is being collected, nothing else. *)
LEMMA WriteTokenChar ==
    ASSUME NEW f \in InputFile, NEW p \in Nat \ {0}
    PROVE  LET g == writeTokenChar(f, p)
           IN  /\ g \in InputFile
               /\ Ahead(g) = Ahead(f) /\ Words(g) = Words(f)
               /\ g.currentWord # <<>>
               /\ g.whitespaceBuffer = f.whitespaceBuffer
  <1> DEFINE word == Append(f.currentWord, p)
  <1>1. word \in Piece /\ word # <<>>
    <2>1. f.currentWord \in Seq(Nat \ {0})
      BY Fields DEF Piece
    <2>2. word \in Piece
      BY <2>1 DEF Piece
    <2>3. Len(word) = Len(f.currentWord) + 1 /\ Len(f.currentWord) \in Nat
      BY <2>1
    <2>4. word # <<>>
      <3> HIDE DEF word
      <3>1. Len(word) # 0
        BY <2>3
      <3> QED
        BY <3>1, EmptySequence
    <2> QED
      BY <2>2, <2>4
  <1>2. writeTokenChar(f, p) = [f EXCEPT !.currentWord = word]
    BY DEF writeTokenChar
  <1> HIDE DEF word
  <1>3. writeTokenChar(f, p) \in InputFile
    BY <1>1, <1>2, Zenon DEF InputFile
  <1>4. /\ writeTokenChar(f, p).tokens = f.tokens
        /\ writeTokenChar(f, p).whitespace = f.whitespace
        /\ writeTokenChar(f, p).whitespaceBuffer = f.whitespaceBuffer
        /\ writeTokenChar(f, p).currentWord = word
    BY <1>2 DEF InputFile
  <1> QED
    BY <1>1, <1>3, <1>4 DEF Ahead, Words, Worded

(* writeWhitespaceChar extends whitespaceBuffer, nothing else. *)
LEMMA WriteWhitespaceChar ==
    ASSUME NEW f \in InputFile, NEW p \in Nat \ {0}
    PROVE  LET g == writeWhitespaceChar(f, p)
           IN  /\ g \in InputFile
               /\ Ahead(g) = Ahead(f) /\ Words(g) = Words(f)
               /\ g.currentWord = f.currentWord
  <1> DEFINE buffer == Append(f.whitespaceBuffer, p)
  <1>1. buffer \in Piece
    BY Fields DEF Piece
  <1>2. writeWhitespaceChar(f, p) = [f EXCEPT !.whitespaceBuffer = buffer]
    BY DEF writeWhitespaceChar
  <1> HIDE DEF buffer
  <1>3. writeWhitespaceChar(f, p) \in InputFile
    BY <1>1, <1>2, Zenon DEF InputFile
  <1>4. /\ writeWhitespaceChar(f, p).tokens = f.tokens
        /\ writeWhitespaceChar(f, p).whitespace = f.whitespace
        /\ writeWhitespaceChar(f, p).currentWord = f.currentWord
    BY <1>2 DEF InputFile
  <1> QED
    BY <1>1, <1>3, <1>4 DEF Ahead, Words, Worded

(* writeEndOfToken adds one token, which holds text if a word was being    *)
(* collected, and starts a new word.                                       *)
LEMMA WriteEndOfToken ==
    ASSUME NEW f \in InputFile
    PROVE  LET g == writeEndOfToken(f)
           IN  /\ g \in InputFile
               /\ Ahead(g) = Ahead(f) - 1
               /\ Words(g) = IF f.currentWord = <<>> THEN Words(f)
                                                    ELSE Words(f) + 1
               /\ g.currentWord = <<>>
               /\ g.whitespaceBuffer = f.whitespaceBuffer
  <1> DEFINE g == writeEndOfToken(f)
  <1> DEFINE longer == Append(f.tokens, f.currentWord)
  <1>1. /\ longer \in Seq(Piece)
        /\ Len(longer) = Len(f.tokens) + 1
        /\ <<>> \in Piece
    BY Fields DEF Piece
  <1>2. /\ g.tokens = longer
        /\ g.whitespace = f.whitespace
        /\ g.currentWord = <<>>
        /\ g.whitespaceBuffer = f.whitespaceBuffer
        /\ f.tokens \in Seq(Piece) /\ f.currentWord \in Piece
    BY DEF writeEndOfToken, InputFile
  <1>3. Ahead(g) = Ahead(f) - 1
    <2>1. Ahead(g) = Len(f.whitespace) - Len(longer)
      BY <1>2 DEF Ahead
    <2>2. Len(f.whitespace) \in Nat /\ Len(f.tokens) \in Nat
      BY Fields
    <2>3. Len(longer) = Len(f.tokens) + 1
      BY <1>1
    <2>4. Ahead(f) = Len(f.whitespace) - Len(f.tokens)
      BY DEF Ahead
    <2> HIDE DEF g, longer
    <2> QED
      BY <2>1, <2>2, <2>3, <2>4
  <1>5. g \in InputFile
    <2> HIDE DEF longer
    <2>1. g = [f EXCEPT !.tokens = longer, !.currentWord = <<>>,
                        !.tokenWritten = TRUE]
      BY DEF writeEndOfToken, longer
    <2> QED
      BY <1>1, <2>1, Zenon DEF InputFile
  <1>4. Worded(g) = IF f.currentWord = <<>> THEN Worded(f)
                    ELSE Worded(f) \cup {Len(f.tokens) + 1}
    <2>1. DOMAIN g.tokens = 1..(Len(f.tokens) + 1)
      BY <1>2
    <2>2. DOMAIN f.tokens = 1..Len(f.tokens) /\ Len(f.tokens) \in Nat
      BY <1>2
    <2>3. /\ \A k \in 1..Len(f.tokens) : g.tokens[k] = f.tokens[k]
          /\ g.tokens[Len(f.tokens) + 1] = f.currentWord
      BY <1>2
    <2> HIDE DEF g
    <2> QED
      BY <2>1, <2>2, <2>3 DEF Worded
  <1>6. Words(g) = IF f.currentWord = <<>> THEN Words(f) ELSE Words(f) + 1
    <2>1. Len(f.tokens) + 1 \notin Worded(f)
      BY WordsType, Fields
    <2>2. Cardinality(Worded(f) \cup {Len(f.tokens) + 1}) = Words(f) + 1
      BY <2>1, WordsType, FS_AddElement, Zenon DEF Words
    <2> HIDE DEF g
    <2> QED
      BY <1>4, <2>2 DEF Words
  <1> QED
    BY <1>2, <1>3, <1>5, <1>6

(* firstNewline is an index into whitespaceBuffer (counted from 0): never  *)
(* past its end, and before its end when there is a newline.               *)
LEMMA FirstNewline ==
    ASSUME NEW f \in InputFile, NEW text
    PROVE  /\ firstNewline(f, text) \in 0..Len(f.whitespaceBuffer)
           /\ newlines(f, text) # {} =>
                 firstNewline(f, text) < Len(f.whitespaceBuffer)
  <1> DEFINE n == Len(f.whitespaceBuffer)
             nls == newlines(f, text)
             before == {i \in 1..n : \A j \in 1..i : j \notin nls}
  <1>1. n \in Nat
    BY Fields DEF Piece
  <1>2. IsFiniteSet(1..n) /\ Cardinality(1..n) = n
    <2> HIDE DEF n
    <2>1. /\ IsFiniteSet(1..n)
          /\ Cardinality(1..n) = IF 1 > n THEN 0 ELSE n - 1 + 1
      BY <1>1, FS_Interval
    <2> QED
      BY <1>1, <2>1
  <1>3. before \subseteq 1..n
    OBVIOUS
  <1>4. firstNewline(f, text) = Cardinality(before)
    BY DEF firstNewline
  <1>5. IsFiniteSet(before) /\ Cardinality(before) <= n
    BY <1>2, <1>3, FS_Subset
  <1>6. Cardinality(before) \in Nat
    BY <1>5, FS_CardinalityType
  <1>7. ASSUME nls # {}
        PROVE  Cardinality(before) < n
    <2>1. PICK i \in 1..n : i \in nls
      BY <1>7 DEF newlines
    <2>2. i \notin before
      BY <1>1, <2>1
    <2>3. before # 1..n
      BY <2>1, <2>2
    <2> HIDE DEF before
    <2>4. Cardinality(before) # n
      BY <1>2, <1>3, <2>3, FS_Subset, Zenon
    <2> QED
      BY <1>1, <1>5, <1>6, <2>4
  <1> HIDE DEF before
  <1> QED
    BY <1>1, <1>4, <1>5, <1>6, <1>7

(* Breaking the whitespace anywhere inside it adds two pieces of           *)
(* whitespace and one token; when no word is being collected the token is  *)
(* empty.                                                                  *)
LEMMA BreakWhitespace ==
    ASSUME NEW f \in InputFile, NEW n \in 0..Len(f.whitespaceBuffer)
    PROVE  LET g == breakWhitespace(f, n)
           IN  /\ g \in InputFile
               /\ Ahead(g) = Ahead(f) + 1
               /\ f.currentWord = <<>> => Words(g) = Words(f)
               /\ g.currentWord = <<>> /\ g.whitespaceBuffer = <<>>
  <1> DEFINE buffer == f.whitespaceBuffer
             front == SubSeq(buffer, 1, n)
             back == SubSeq(buffer, n + 1, Len(buffer))
             longer == Append(Append(f.whitespace, front), back)
             h == [f EXCEPT !.whitespace = longer, !.whitespaceBuffer = <<>>]
  <1>1. buffer \in Seq(Nat \ {0}) /\ <<>> \in Piece
    BY Fields DEF Piece
  <1>2. front \in Piece /\ back \in Piece
    <2> HIDE DEF buffer
    <2>1. Len(buffer) \in Nat /\ n \in 0..Len(buffer)
      BY <1>1 DEF buffer
    <2>2. \A i \in 1..Len(buffer) : buffer[i] \in Nat \ {0}
      BY <1>1
    <2>3. front \in Seq(Nat \ {0})
      BY <1>1, <2>1, <2>2
    <2>4. back \in Seq(Nat \ {0})
      BY <1>1, <2>1, <2>2
    <2> QED
      BY <2>3, <2>4 DEF Piece
  <1> HIDE DEF front, back
  <1>3. /\ longer \in Seq(Piece)
        /\ Len(longer) = Len(f.whitespace) + 2
    <2>1. f.whitespace \in Seq(Piece)
      BY Fields
    <2>2. /\ Append(f.whitespace, front) \in Seq(Piece)
          /\ Len(Append(f.whitespace, front)) = Len(f.whitespace) + 1
      BY <1>2, <2>1
    <2>3. /\ longer \in Seq(Piece)
          /\ Len(longer) = Len(Append(f.whitespace, front)) + 1
      BY <1>2, <2>2
    <2> QED
      BY <2>1, <2>2, <2>3, Fields
  <1> HIDE DEF longer
  <1>4. h \in InputFile
    BY <1>1, <1>3, Zenon DEF InputFile
  <1>5. /\ h.tokens = f.tokens
        /\ h.whitespace = longer
        /\ h.currentWord = f.currentWord
        /\ h.whitespaceBuffer = <<>>
    BY DEF InputFile
  <1>6. breakWhitespace(f, n) = writeEndOfToken(h)
    BY DEF breakWhitespace, front, back, longer
  <1>7. Ahead(h) = Ahead(f) + 2
    <2>1. Len(f.whitespace) \in Nat /\ Len(f.tokens) \in Nat
      BY Fields
    <2>2. Ahead(h) = Len(longer) - Len(f.tokens)
      BY <1>5 DEF Ahead
    <2>3. Ahead(f) = Len(f.whitespace) - Len(f.tokens)
      BY DEF Ahead
    <2> QED
      BY <1>3, <2>1, <2>2, <2>3
  <1>8. Words(h) = Words(f)
    BY <1>5 DEF Words, Worded
  <1>9. Ahead(f) \in Int
    BY WordsType
  <1> HIDE DEF h
  <1> QED
    BY <1>4, <1>5, <1>6, <1>7, <1>8, <1>9, WriteEndOfToken

(* Writing the whitespace as one piece adds one piece, which may be empty. *)
LEMMA FlushWhitespace ==
    ASSUME NEW f \in InputFile
    PROVE  LET g == flushWhitespace(f)
           IN  /\ g \in InputFile
               /\ Ahead(g) = Ahead(f) + 1
               /\ Words(g) = Words(f)
               /\ g.currentWord = f.currentWord
               /\ g.whitespaceBuffer = <<>>
  <1> DEFINE longer == Append(f.whitespace, f.whitespaceBuffer)
             g == flushWhitespace(f)
  <1>1. /\ longer \in Seq(Piece) /\ <<>> \in Piece
        /\ Len(longer) = Len(f.whitespace) + 1
    BY Fields DEF Piece
  <1>2. g = [f EXCEPT !.whitespace = longer, !.whitespaceBuffer = <<>>]
    BY DEF flushWhitespace
  <1> HIDE DEF longer, g
  <1>3. g \in InputFile
    BY <1>1, <1>2, Zenon DEF InputFile
  <1>4. /\ g.tokens = f.tokens
        /\ g.whitespace = longer
        /\ g.currentWord = f.currentWord
        /\ g.whitespaceBuffer = <<>>
    BY <1>2 DEF InputFile
  <1>5. Ahead(g) = Ahead(f) + 1
    <2>1. Len(f.whitespace) \in Nat /\ Len(f.tokens) \in Nat
      BY Fields
    <2>2. Ahead(g) = Len(longer) - Len(f.tokens)
      BY <1>4 DEF Ahead
    <2>3. Ahead(f) = Len(f.whitespace) - Len(f.tokens)
      BY DEF Ahead
    <2> QED
      BY <1>1, <2>1, <2>2, <2>3
  <1>6. Words(g) = Words(f)
    BY <1>4 DEF Words, Worded
  <1> QED
    BY <1>3, <1>4, <1>5, <1>6 DEF g

(* handleWhitespaceEnd puts the whitespace file one piece further ahead of *)
(* the token file, whether or not it marks a blank line.                   *)
LEMMA HandleWhitespaceEnd ==
    ASSUME NEW f \in InputFile, NEW text
    PROVE  LET g == handleWhitespaceEnd(f, text)
           IN  /\ g \in InputFile
               /\ Ahead(g) = Ahead(f) + 1
               /\ g.whitespaceBuffer = <<>>
               /\ f.currentWord = <<>> \/ f.whitespaceBuffer = <<>> =>
                     Words(g) = Words(f) /\ g.currentWord = f.currentWord
  <1> DEFINE first == firstNewline(f, text)
             n == Len(f.whitespaceBuffer)
             g == handleWhitespaceEnd(f, text)
  <1>1. n \in Nat
    BY Fields DEF Piece
  <1>2. /\ first \in 0..n
        /\ newlines(f, text) # {} => first + 1 \in 0..n
    <2> HIDE DEF n
    <2> QED
      BY <1>1, FirstNewline DEF n
  <1>3. \/ g = breakWhitespace(f, first)
        \/ first + 1 \in 0..n /\ g = breakWhitespace(f, first + 1)
        \/ g = flushWhitespace(f)
    <2> HIDE DEF first, n
    <2> QED
      BY <1>2 DEF handleWhitespaceEnd, first
  <1>4. f.whitespaceBuffer = <<>> => g = flushWhitespace(f)
    <2> SUFFICES ASSUME f.whitespaceBuffer = <<>>
                 PROVE  newlines(f, text) = {}
      BY DEF handleWhitespaceEnd
    <2>1. 1..Len(f.whitespaceBuffer) = {}
      OBVIOUS
    <2> QED
      BY <2>1 DEF newlines
  <1> HIDE DEF first, g
  <1>5. CASE g = flushWhitespace(f)
    BY <1>5, FlushWhitespace DEF g
  <1>6. CASE g = breakWhitespace(f, first) /\ f.whitespaceBuffer # <<>>
    BY <1>2, <1>6, BreakWhitespace DEF g
  <1>7. CASE /\ first + 1 \in 0..n /\ g = breakWhitespace(f, first + 1)
             /\ f.whitespaceBuffer # <<>>
    BY <1>7, BreakWhitespace DEF g
  <1> QED
    BY <1>3, <1>4, <1>5, <1>6, <1>7

-----------------------------------------------------------------------------
(* The inductive invariant: what state says about the word that is being   *)
(* collected is needed to know which tokens hold text.                     *)

CollectsWord(s, f, text) ==
    /\ s = "NONE" => text = <<>> /\ Words(f) = 0
    /\ s \in {"NONE", "WHITESPACE"} => f.currentWord = <<>>
    /\ s = "WORD" => f.currentWord # <<>> /\ f.whitespaceBuffer = <<>>
    /\ s \in {"WORD", "WHITESPACE"} => text # <<>>

InStep(s, f) == s # "FATAL" => Ahead(f) = IF s \in {"WORD", "DONE"} THEN 1 ELSE 0

(* 1 if the first character of the input is a delimiter, which readFile    *)
(* does not count.                                                         *)
Uncounted(text) ==
    IF text # <<>> /\ classifyChar(text[1]) = "DELIMITER" THEN 1 ELSE 0

Counted(n, f, text) == n = Words(f) - Uncounted(text)

IInv ==
    /\ TypeOK
    /\ InStep(state, file)
    /\ CollectsWord(state, file, input)
    /\ Counted(wordCount, file, input)

(* What getNextChar does to the input, in every action that reads. *)
LEMMA Reads ==
    ASSUME TypeOK, NEW c \in Char, NEW category, Get(c, category)
    PROVE  /\ input' \in Seq(Char) /\ input' # <<>> /\ option' = option
           /\ pos \in Nat \ {0}
           /\ input # <<>> => Uncounted(input') = Uncounted(input)
           /\ input = <<>> => Uncounted(input') =
                                 IF category = "DELIMITER" THEN 1 ELSE 0
           /\ input = <<>> => Uncounted(input) = 0
  <1>1. input \in Seq(Char) /\ input' = Append(input, c)
    BY DEF TypeOK, Get
  <1>2. /\ input' \in Seq(Char)
        /\ Len(input') = Len(input) + 1 /\ Len(input) \in Nat
    BY <1>1
  <1>3. input' # <<>>
    BY <1>2, EmptySequence
  <1>4. pos \in Nat \ {0}
    BY <1>2 DEF pos
  <1>5. ASSUME input # <<>>
        PROVE  Uncounted(input') = Uncounted(input)
    <2>1. Len(input) # 0
      BY <1>1, <1>5, EmptySequence
    <2>2. input'[1] = input[1]
      BY <1>1, <1>2, <2>1
    <2> QED
      BY <1>3, <1>5, <2>2 DEF Uncounted
  <1>6. ASSUME input = <<>>
        PROVE  Uncounted(input') = IF category = "DELIMITER" THEN 1 ELSE 0
    <2>1. input'[1] = c
      BY <1>1, <1>6
    <2> QED
      BY <1>3, <2>1 DEF Uncounted, Get
  <1> QED
    BY <1>2, <1>3, <1>4, <1>5, <1>6 DEF Uncounted, Get

(* IInv holds after every step, one step of the proof per action. *)
LEMMA Inductive == IInv /\ [Next]_vars => IInv'
  <1> SUFFICES ASSUME IInv, [Next]_vars
               PROVE  IInv'
    OBVIOUS
  <1> USE DEF IInv
  <1>0. /\ file \in InputFile /\ wordCount \in Nat
        /\ Words(file) \in Nat /\ Ahead(file) \in Int
    BY WordsType DEF TypeOK
  <1>1. ASSUME NEW c \in Char, NoneWhitespace(c)
        PROVE  IInv'
    <2>1. Get(c, "WHITESPACE")
      BY <1>1 DEF NoneWhitespace
    <2>2. /\ pos \in Nat \ {0} /\ input' # <<>> /\ input' \in Seq(Char)
          /\ option' = option
      BY <2>1, Reads
    <2>3. /\ file' \in InputFile
          /\ Ahead(file') = Ahead(file)
          /\ Words(file') = Words(file)
          /\ file'.currentWord = file.currentWord
      <3>1. file' = writeWhitespaceChar(file, pos)
        BY <1>1 DEF NoneWhitespace
      <3> QED
        BY <3>1, <2>2, <1>0, WriteWhitespaceChar
    <2>4. /\ Uncounted(input) \in {0, 1}
          /\ Uncounted(input') =
               IF state = "NONE" /\ "WHITESPACE" = "DELIMITER" THEN 1 ELSE Uncounted(input)
      BY <2>1, Reads, <1>1 DEF Uncounted, CollectsWord, NoneWhitespace
    <2>5. /\ InStep(state', file')
          /\ CollectsWord(state', file', input')
      BY <1>0, <1>1, <2>2, <2>3 DEF InStep, CollectsWord, NoneWhitespace
    <2>6. Counted(wordCount', file', input') /\ wordCount' \in Nat
      BY <1>0, <1>1, <2>3, <2>4 DEF Counted, CollectsWord, NoneWhitespace
    <2>7. TypeOK'
      BY <1>1, <2>2, <2>3, <2>6 DEF TypeOK, NoneWhitespace, Reading
    <2> QED
      BY <2>5, <2>6, <2>7
  <1>2. ASSUME NEW c \in Char, NoneDelimiter(c)
        PROVE  IInv'
    <2> DEFINE f1 == handleWhitespaceEnd(file, input')
               f2 == writeTokenChar(f1, pos)
    <2>1. Get(c, "DELIMITER")
      BY <1>2 DEF NoneDelimiter
    <2>2. /\ pos \in Nat \ {0} /\ input' # <<>> /\ input' \in Seq(Char)
          /\ option' = option
      BY <2>1, Reads
    <2>3. /\ f1 \in InputFile
          /\ Ahead(f1) = Ahead(file) + 1
          /\ f1.whitespaceBuffer = <<>>
          /\ file.currentWord = <<>> \/ file.whitespaceBuffer = <<>> =>
              Words(f1) = Words(file) /\ f1.currentWord = file.currentWord
      BY <1>0, HandleWhitespaceEnd
    <2>4. /\ f2 \in InputFile
          /\ Ahead(f2) = Ahead(f1)
          /\ Words(f2) = Words(f1)
          /\ f2.currentWord # <<>>
          /\ f2.whitespaceBuffer = f1.whitespaceBuffer
      BY <2>3, <2>2, WriteTokenChar
    <2>5. /\ file' \in InputFile
          /\ Ahead(file') = Ahead(f2) - 1
          /\ Words(file') = IF f2.currentWord = <<>> THEN Words(f2) ELSE Words(f2) + 1
          /\ file'.currentWord = <<>>
          /\ file'.whitespaceBuffer = f2.whitespaceBuffer
      <3>1. file' = writeEndOfToken(f2)
        BY <1>2 DEF NoneDelimiter
      <3> QED
        BY <3>1, <2>4, WriteEndOfToken
    <2> HIDE DEF f1, f2
    <2>6. /\ Uncounted(input) \in {0, 1}
          /\ Uncounted(input') =
               IF state = "NONE" /\ "DELIMITER" = "DELIMITER" THEN 1 ELSE Uncounted(input)
      BY <2>1, Reads, <1>2 DEF Uncounted, CollectsWord, NoneDelimiter
    <2>7. /\ InStep(state', file')
          /\ CollectsWord(state', file', input')
      BY <1>0, <1>2, <2>2, <2>3, <2>4, <2>5 DEF InStep, CollectsWord, NoneDelimiter
    <2>8. Counted(wordCount', file', input') /\ wordCount' \in Nat
      BY <1>0, <1>2, <2>3, <2>4, <2>5, <2>6 DEF Counted, CollectsWord, NoneDelimiter
    <2>9. TypeOK'
      BY <1>2, <2>2, <2>5, <2>8 DEF TypeOK, NoneDelimiter, Reading
    <2> QED
      BY <2>7, <2>8, <2>9
  <1>3. ASSUME NEW c \in Char, NoneOther(c)
        PROVE  IInv'
    <2> DEFINE f1 == handleWhitespaceEnd(file, input')
    <2>1. Get(c, "OTHER")
      BY <1>3 DEF NoneOther
    <2>2. /\ pos \in Nat \ {0} /\ input' # <<>> /\ input' \in Seq(Char)
          /\ option' = option
      BY <2>1, Reads
    <2>3. /\ f1 \in InputFile
          /\ Ahead(f1) = Ahead(file) + 1
          /\ f1.whitespaceBuffer = <<>>
          /\ file.currentWord = <<>> \/ file.whitespaceBuffer = <<>> =>
              Words(f1) = Words(file) /\ f1.currentWord = file.currentWord
      BY <1>0, HandleWhitespaceEnd
    <2>4. /\ file' \in InputFile
          /\ Ahead(file') = Ahead(f1)
          /\ Words(file') = Words(f1)
          /\ file'.currentWord # <<>>
          /\ file'.whitespaceBuffer = f1.whitespaceBuffer
      <3>1. file' = writeTokenChar(f1, pos)
        BY <1>3 DEF NoneOther
      <3> QED
        BY <3>1, <2>2, <2>3, WriteTokenChar
    <2> HIDE DEF f1
    <2>5. /\ Uncounted(input) \in {0, 1}
          /\ Uncounted(input') =
               IF state = "NONE" /\ "OTHER" = "DELIMITER" THEN 1 ELSE Uncounted(input)
      BY <2>1, Reads, <1>3 DEF Uncounted, CollectsWord, NoneOther
    <2>6. /\ InStep(state', file')
          /\ CollectsWord(state', file', input')
      BY <1>0, <1>3, <2>2, <2>3, <2>4 DEF InStep, CollectsWord, NoneOther
    <2>7. Counted(wordCount', file', input') /\ wordCount' \in Nat
      BY <1>0, <1>3, <2>3, <2>4, <2>5 DEF Counted, CollectsWord, NoneOther
    <2>8. TypeOK'
      BY <1>3, <2>2, <2>4, <2>7 DEF TypeOK, NoneOther, Reading
    <2> QED
      BY <2>6, <2>7, <2>8
  <1>4. ASSUME NEW c \in Char, WordWhitespace(c)
        PROVE  IInv'
    <2> DEFINE f1 == writeEndOfToken(file)
    <2>1. Get(c, "WHITESPACE")
      BY <1>4 DEF WordWhitespace
    <2>2. /\ pos \in Nat \ {0} /\ input' # <<>> /\ input' \in Seq(Char)
          /\ option' = option
      BY <2>1, Reads
    <2>3. /\ f1 \in InputFile
          /\ Ahead(f1) = Ahead(file) - 1
          /\ Words(f1) = IF file.currentWord = <<>> THEN Words(file) ELSE Words(file) + 1
          /\ f1.currentWord = <<>>
          /\ f1.whitespaceBuffer = file.whitespaceBuffer
      BY <1>0, WriteEndOfToken
    <2>4. /\ file' \in InputFile
          /\ Ahead(file') = Ahead(f1)
          /\ Words(file') = Words(f1)
          /\ file'.currentWord = f1.currentWord
      <3>1. file' = writeWhitespaceChar(f1, pos)
        BY <1>4 DEF WordWhitespace
      <3> QED
        BY <3>1, <2>2, <2>3, WriteWhitespaceChar
    <2> HIDE DEF f1
    <2>5. /\ Uncounted(input) \in {0, 1}
          /\ Uncounted(input') =
               IF state = "NONE" /\ "WHITESPACE" = "DELIMITER" THEN 1 ELSE Uncounted(input)
      BY <2>1, Reads, <1>4 DEF Uncounted, CollectsWord, WordWhitespace
    <2>6. /\ InStep(state', file')
          /\ CollectsWord(state', file', input')
      BY <1>0, <1>4, <2>2, <2>3, <2>4 DEF InStep, CollectsWord, WordWhitespace
    <2>7. Counted(wordCount', file', input') /\ wordCount' \in Nat
      BY <1>0, <1>4, <2>3, <2>4, <2>5 DEF Counted, CollectsWord, WordWhitespace
    <2>8. TypeOK'
      BY <1>4, <2>2, <2>4, <2>7 DEF TypeOK, WordWhitespace, Reading
    <2> QED
      BY <2>6, <2>7, <2>8
  <1>5. ASSUME NEW c \in Char, WordDelimiter(c)
        PROVE  IInv'
    <2> DEFINE f1 == writeEndOfToken(file)
               f2 == writeTokenChar(f1, pos)
               f3 == writeEndOfToken(f2)
    <2>1. Get(c, "DELIMITER")
      BY <1>5 DEF WordDelimiter
    <2>2. /\ pos \in Nat \ {0} /\ input' # <<>> /\ input' \in Seq(Char)
          /\ option' = option
      BY <2>1, Reads
    <2>3. /\ f1 \in InputFile
          /\ Ahead(f1) = Ahead(file) - 1
          /\ Words(f1) = IF file.currentWord = <<>> THEN Words(file) ELSE Words(file) + 1
          /\ f1.currentWord = <<>>
          /\ f1.whitespaceBuffer = file.whitespaceBuffer
      BY <1>0, WriteEndOfToken
    <2>4. /\ f2 \in InputFile
          /\ Ahead(f2) = Ahead(f1)
          /\ Words(f2) = Words(f1)
          /\ f2.currentWord # <<>>
          /\ f2.whitespaceBuffer = f1.whitespaceBuffer
      BY <2>3, <2>2, WriteTokenChar
    <2>5. /\ f3 \in InputFile
          /\ Ahead(f3) = Ahead(f2) - 1
          /\ Words(f3) = IF f2.currentWord = <<>> THEN Words(f2) ELSE Words(f2) + 1
          /\ f3.currentWord = <<>>
          /\ f3.whitespaceBuffer = f2.whitespaceBuffer
      BY <2>4, WriteEndOfToken
    <2>6. /\ file' \in InputFile
          /\ Ahead(file') = Ahead(f3) + 1
          /\ file'.whitespaceBuffer = <<>>
          /\ f3.currentWord = <<>> \/ f3.whitespaceBuffer = <<>> =>
              Words(file') = Words(f3) /\ file'.currentWord = f3.currentWord
      <3>1. file' = handleWhitespaceEnd(f3, input')
        BY <1>5 DEF WordDelimiter
      <3> QED
        BY <3>1, <2>5, HandleWhitespaceEnd
    <2> HIDE DEF f1, f2, f3
    <2>7. /\ Uncounted(input) \in {0, 1}
          /\ Uncounted(input') =
               IF state = "NONE" /\ "DELIMITER" = "DELIMITER" THEN 1 ELSE Uncounted(input)
      BY <2>1, Reads, <1>5 DEF Uncounted, CollectsWord, WordDelimiter
    <2>a. file.currentWord # <<>>
      BY <1>5 DEF CollectsWord, WordDelimiter
    <2>b. /\ Ahead(file') = Ahead(file) - 1
          /\ Words(file') = Words(file) + 2
          /\ file'.currentWord = <<>>
      BY <1>0, <2>3, <2>4, <2>5, <2>6, <2>a
    <2>8. /\ InStep(state', file')
          /\ CollectsWord(state', file', input')
      BY <1>0, <1>5, <2>2, <2>b DEF InStep, CollectsWord, WordDelimiter
    <2>9. Counted(wordCount', file', input') /\ wordCount' \in Nat
      <3>1. wordCount' = wordCount + 2 /\ state # "NONE"
        BY <1>5 DEF WordDelimiter
      <3>2. Uncounted(input') = Uncounted(input)
        BY <2>7, <3>1
      <3>3. wordCount = Words(file) - Uncounted(input)
        BY DEF Counted
      <3>4. wordCount' = Words(file') - Uncounted(input')
        BY <1>0, <2>7, <2>b, <3>1, <3>2, <3>3
      <3> QED
        BY <1>0, <3>1, <3>4 DEF Counted
    <2>10. TypeOK'
      BY <1>5, <2>2, <2>6, <2>9 DEF TypeOK, WordDelimiter, Reading
    <2> QED
      BY <2>8, <2>9, <2>10
  <1>6. ASSUME NEW c \in Char, WordOther(c)
        PROVE  IInv'
    <2>1. Get(c, "OTHER")
      BY <1>6 DEF WordOther
    <2>2. /\ pos \in Nat \ {0} /\ input' # <<>> /\ input' \in Seq(Char)
          /\ option' = option
      BY <2>1, Reads
    <2>3. /\ file' \in InputFile
          /\ Ahead(file') = Ahead(file)
          /\ Words(file') = Words(file)
          /\ file'.currentWord # <<>>
          /\ file'.whitespaceBuffer = file.whitespaceBuffer
      <3>1. file' = writeTokenChar(file, pos)
        BY <1>6 DEF WordOther
      <3> QED
        BY <3>1, <2>2, <1>0, WriteTokenChar
    <2>4. /\ Uncounted(input) \in {0, 1}
          /\ Uncounted(input') =
               IF state = "NONE" /\ "OTHER" = "DELIMITER" THEN 1 ELSE Uncounted(input)
      BY <2>1, Reads, <1>6 DEF Uncounted, CollectsWord, WordOther
    <2>5. /\ InStep(state', file')
          /\ CollectsWord(state', file', input')
      BY <1>0, <1>6, <2>2, <2>3 DEF InStep, CollectsWord, WordOther
    <2>6. Counted(wordCount', file', input') /\ wordCount' \in Nat
      BY <1>0, <1>6, <2>3, <2>4 DEF Counted, CollectsWord, WordOther
    <2>7. TypeOK'
      BY <1>6, <2>2, <2>3, <2>6 DEF TypeOK, WordOther, Reading
    <2> QED
      BY <2>5, <2>6, <2>7
  <1>7. ASSUME NEW c \in Char, WhitespaceWhitespace(c)
        PROVE  IInv'
    <2>1. Get(c, "WHITESPACE")
      BY <1>7 DEF WhitespaceWhitespace
    <2>2. /\ pos \in Nat \ {0} /\ input' # <<>> /\ input' \in Seq(Char)
          /\ option' = option
      BY <2>1, Reads
    <2>3. /\ file' \in InputFile
          /\ Ahead(file') = Ahead(file)
          /\ Words(file') = Words(file)
          /\ file'.currentWord = file.currentWord
      <3>1. file' = writeWhitespaceChar(file, pos)
        BY <1>7 DEF WhitespaceWhitespace
      <3> QED
        BY <3>1, <2>2, <1>0, WriteWhitespaceChar
    <2>4. /\ Uncounted(input) \in {0, 1}
          /\ Uncounted(input') =
               IF state = "NONE" /\ "WHITESPACE" = "DELIMITER" THEN 1 ELSE Uncounted(input)
      BY <2>1, Reads, <1>7 DEF Uncounted, CollectsWord, WhitespaceWhitespace
    <2>5. /\ InStep(state', file')
          /\ CollectsWord(state', file', input')
      BY <1>0, <1>7, <2>2, <2>3 DEF InStep, CollectsWord, WhitespaceWhitespace
    <2>6. Counted(wordCount', file', input') /\ wordCount' \in Nat
      BY <1>0, <1>7, <2>3, <2>4 DEF Counted, CollectsWord, WhitespaceWhitespace
    <2>7. TypeOK'
      BY <1>7, <2>2, <2>3, <2>6 DEF TypeOK, WhitespaceWhitespace, Reading
    <2> QED
      BY <2>5, <2>6, <2>7
  <1>8. ASSUME NEW c \in Char, WhitespaceDelimiter(c)
        PROVE  IInv'
    <2> DEFINE f1 == writeTokenChar(file, pos)
               f2 == writeEndOfToken(f1)
    <2>1. Get(c, "DELIMITER")
      BY <1>8 DEF WhitespaceDelimiter
    <2>2. /\ pos \in Nat \ {0} /\ input' # <<>> /\ input' \in Seq(Char)
          /\ option' = option
      BY <2>1, Reads
    <2>3. /\ f1 \in InputFile
          /\ Ahead(f1) = Ahead(file)
          /\ Words(f1) = Words(file)
          /\ f1.currentWord # <<>>
          /\ f1.whitespaceBuffer = file.whitespaceBuffer
      BY <1>0, <2>2, WriteTokenChar
    <2>4. /\ f2 \in InputFile
          /\ Ahead(f2) = Ahead(f1) - 1
          /\ Words(f2) = IF f1.currentWord = <<>> THEN Words(f1) ELSE Words(f1) + 1
          /\ f2.currentWord = <<>>
          /\ f2.whitespaceBuffer = f1.whitespaceBuffer
      BY <2>3, WriteEndOfToken
    <2>5. /\ file' \in InputFile
          /\ Ahead(file') = Ahead(f2) + 1
          /\ file'.whitespaceBuffer = <<>>
          /\ f2.currentWord = <<>> \/ f2.whitespaceBuffer = <<>> =>
              Words(file') = Words(f2) /\ file'.currentWord = f2.currentWord
      <3>1. file' = handleWhitespaceEnd(f2, input')
        BY <1>8 DEF WhitespaceDelimiter
      <3> QED
        BY <3>1, <2>4, HandleWhitespaceEnd
    <2> HIDE DEF f1, f2
    <2>6. /\ Uncounted(input) \in {0, 1}
          /\ Uncounted(input') =
               IF state = "NONE" /\ "DELIMITER" = "DELIMITER" THEN 1 ELSE Uncounted(input)
      BY <2>1, Reads, <1>8 DEF Uncounted, CollectsWord, WhitespaceDelimiter
    <2>b. /\ Ahead(file') = Ahead(file)
          /\ Words(file') = Words(file) + 1
          /\ file'.currentWord = <<>>
      BY <1>0, <2>3, <2>4, <2>5
    <2>7. /\ InStep(state', file')
          /\ CollectsWord(state', file', input')
      BY <1>0, <1>8, <2>2, <2>b DEF InStep, CollectsWord, WhitespaceDelimiter
    <2>8. Counted(wordCount', file', input') /\ wordCount' \in Nat
      BY <1>0, <1>8, <2>6, <2>b DEF Counted, CollectsWord, WhitespaceDelimiter
    <2>9. TypeOK'
      BY <1>8, <2>2, <2>5, <2>8 DEF TypeOK, WhitespaceDelimiter, Reading
    <2> QED
      BY <2>7, <2>8, <2>9
  <1>9. ASSUME NEW c \in Char, WhitespaceOther(c)
        PROVE  IInv'
    <2> DEFINE f1 == handleWhitespaceEnd(file, input')
    <2>1. Get(c, "OTHER")
      BY <1>9 DEF WhitespaceOther
    <2>2. /\ pos \in Nat \ {0} /\ input' # <<>> /\ input' \in Seq(Char)
          /\ option' = option
      BY <2>1, Reads
    <2>3. /\ f1 \in InputFile
          /\ Ahead(f1) = Ahead(file) + 1
          /\ f1.whitespaceBuffer = <<>>
          /\ file.currentWord = <<>> \/ file.whitespaceBuffer = <<>> =>
              Words(f1) = Words(file) /\ f1.currentWord = file.currentWord
      BY <1>0, HandleWhitespaceEnd
    <2>4. /\ file' \in InputFile
          /\ Ahead(file') = Ahead(f1)
          /\ Words(file') = Words(f1)
          /\ file'.currentWord # <<>>
          /\ file'.whitespaceBuffer = f1.whitespaceBuffer
      <3>1. file' = writeTokenChar(f1, pos)
        BY <1>9 DEF WhitespaceOther
      <3> QED
        BY <3>1, <2>2, <2>3, WriteTokenChar
    <2> HIDE DEF f1
    <2>5. /\ Uncounted(input) \in {0, 1}
          /\ Uncounted(input') =
               IF state = "NONE" /\ "OTHER" = "DELIMITER" THEN 1 ELSE Uncounted(input)
      BY <2>1, Reads, <1>9 DEF Uncounted, CollectsWord, WhitespaceOther
    <2>6. /\ InStep(state', file')
          /\ CollectsWord(state', file', input')
      BY <1>0, <1>9, <2>2, <2>3, <2>4 DEF InStep, CollectsWord, WhitespaceOther
    <2>7. Counted(wordCount', file', input') /\ wordCount' \in Nat
      BY <1>0, <1>9, <2>3, <2>4, <2>5 DEF Counted, CollectsWord, WhitespaceOther
    <2>8. TypeOK'
      BY <1>9, <2>2, <2>4, <2>7 DEF TypeOK, WhitespaceOther, Reading
    <2> QED
      BY <2>6, <2>7, <2>8
  <1>10. CASE EndOfFile
    <2> DEFINE f1 == handleWhitespaceEnd(file, input)
    <2>1. /\ f1 \in InputFile
          /\ Ahead(f1) = Ahead(file) + 1
          /\ state \in Reading =>
                Words(f1) = Words(file) /\ f1.currentWord = file.currentWord
      BY <1>0, HandleWhitespaceEnd DEF CollectsWord, Reading
    <2>2. /\ writeEndOfToken(f1) \in InputFile
          /\ Ahead(writeEndOfToken(f1)) = Ahead(f1) - 1
          /\ Words(writeEndOfToken(f1)) =
               IF f1.currentWord = <<>> THEN Words(f1) ELSE Words(f1) + 1
      BY <2>1, WriteEndOfToken
    <2>3. /\ state \in Reading /\ state' \in Ended
          /\ input' = input /\ option' = option
          /\ file' = IF state = "WORD" THEN writeEndOfToken(f1) ELSE f1
          /\ wordCount' = IF state = "WORD" THEN wordCount + 1 ELSE wordCount
      BY <1>10 DEF EndOfFile
    <2> HIDE DEF f1
    <2>4. InStep(state', file') /\ CollectsWord(state', file', input')
      BY <1>0, <2>1, <2>2, <2>3 DEF InStep, CollectsWord, Reading, Ended
    <2>5. Counted(wordCount', file', input') /\ wordCount' \in Nat
      <3>1. Words(file') = IF state = "WORD" THEN Words(file) + 1
                                             ELSE Words(file)
        BY <2>1, <2>2, <2>3 DEF CollectsWord
      <3>2. Uncounted(input) \in {0, 1}
        BY DEF Uncounted
      <3> QED
        BY <1>0, <2>3, <3>1, <3>2 DEF Counted
    <2>6. TypeOK'
      BY <2>1, <2>2, <2>3, <2>5 DEF TypeOK
    <2> QED
      BY <2>4, <2>5, <2>6
  <1>11. CASE ReadError
    BY <1>11 DEF ReadError, TypeOK, Ended, InStep, CollectsWord, Counted
  <1>12. CASE UNCHANGED vars
    BY <1>12 DEF vars, TypeOK, InStep, CollectsWord, Counted
  <1> QED
    BY <1>1, <1>2, <1>3, <1>4, <1>5, <1>6, <1>7, <1>8, <1>9, <1>10, <1>11,
       <1>12 DEF Next, Read, Return

(* readFile starts with empty files and buffers. *)
LEMMA Initial == Init => IInv
  <1> SUFFICES ASSUME Init
               PROVE  IInv
    OBVIOUS
  <1>1. /\ file.tokens = <<>> /\ file.whitespace = <<>>
        /\ file.currentWord = <<>> /\ input = <<>>
        /\ state = "NONE" /\ wordCount = 0
    BY DEF Init
  <1>2. TypeOK
    <2>1. <<>> \in Piece /\ <<>> \in Seq(Piece) /\ <<>> \in Seq(Char)
      BY EmptySequence DEF Piece
    <2>2. file \in InputFile
      BY <2>1, Zenon DEF Init, InputFile
    <2> QED
      BY <1>1, <2>1, <2>2 DEF TypeOK, Reading, Init
  <1>3. Words(file) = 0
    <2>1. Worded(file) = {}
      BY <1>1 DEF Worded
    <2> QED
      BY <2>1, FS_EmptySet DEF Words
  <1>4. Ahead(file) = 0
    BY <1>1 DEF Ahead
  <1> QED
    BY <1>1, <1>2, <1>3, <1>4
       DEF IInv, InStep, CollectsWord, Counted, Uncounted

(* IInv holds throughout. *)
LEMMA Invariance == Spec => []IInv
  BY Initial, Inductive, PTL DEF Spec

-----------------------------------------------------------------------------

(* The state of readFile has its type in every reachable state: in         *)
(* particular a piece of whitespace that handleWhitespaceEnd breaks is     *)
(* broken inside whitespaceBuffer.                                         *)
THEOREM TypeCorrect == Spec => []TypeOK
  <1>1. IInv => TypeOK
    BY DEF IInv
  <1> QED
    BY <1>1, Invariance, PTL

(* The token file and the whitespace file that readFile writes stay in     *)
(* step, with -S and without, for every choice of characters: between      *)
(* words there are as many pieces in the one as in the other.              *)
THEOREM FilesStayInStep == Spec => []PiecesInStep
  <1>1. IInv => PiecesInStep
    <2> SUFFICES ASSUME IInv, state # "FATAL"
                 PROVE  Len(file.whitespace) = Len(file.tokens) +
                          (IF state \in {"WORD", "DONE"} THEN 1 ELSE 0)
      BY Zenon DEF PiecesInStep
    <2> DEFINE w == Len(file.whitespace)
               t == Len(file.tokens)
    <2>1. w \in Nat /\ t \in Nat
      BY Fields DEF IInv, TypeOK
    <2>2. w - t = IF state \in {"WORD", "DONE"} THEN 1 ELSE 0
      BY Zenon DEF IInv, InStep, Ahead
    <2> HIDE DEF w, t
    <2>3. w = t + (IF state \in {"WORD", "DONE"} THEN 1 ELSE 0)
      BY <2>1, <2>2
    <2> QED
      BY <2>3 DEF w, t
  <1> QED
    BY <1>1, Invariance, PTL

(* readFile returns the number of words of every file that does not start  *)
(* with a delimiter, whatever the options are; such a delimiter is the one *)
(* token that is written without being counted (dwdiff.c:315).             *)
THEOREM CountsWords == Spec => [](~StartsWithDelimiter => CountedWords)
  <1>1. IInv => (~StartsWithDelimiter => CountedWords)
    <2> SUFFICES ASSUME IInv, ~StartsWithDelimiter
                 PROVE  wordCount = Cardinality(WordTokens)
      BY DEF CountedWords
    <2>1. Words(file) \in Nat
      BY WordsType DEF IInv, TypeOK
    <2>2. Uncounted(input) = 0
      BY DEF Uncounted, StartsWithDelimiter
    <2>3. wordCount = Words(file) - 0
      BY <2>2 DEF IInv, Counted
    <2>4. wordCount = Words(file)
      BY <2>1, <2>3
    <2> QED
      BY <2>4 DEF Words, Worded, WordTokens
  <1> QED
    BY <1>1, Invariance, PTL

-----------------------------------------------------------------------------
(* Nothing lost, nothing moved                                             *)
(*                                                                         *)
(* ReadsBack and ParagraphsMarked depend on what is in whitespaceBuffer:   *)
(* it must be the whitespace at the end of the input, all of it, for       *)
(* handleWhitespaceEnd to see the blank lines of the input and no others.  *)
(* The definitions do not mention the state, so that they can be used for  *)
(* the files between two calls within a step.                              *)

Space(text, i) == classifyChar(text[i]) = "WHITESPACE"

(* The length of whitespaceBuffer *)
Held(f) == Len(f.whitespaceBuffer)

(* whitespaceBuffer is all of the whitespace at the end of the text. *)
HoldsEnd(f, text) ==
    /\ Held(f) <= Len(text)
    /\ \A i \in 1..Held(f) : f.whitespaceBuffer[i] = Len(text) - Held(f) + i
    /\ \A i \in 1..Len(text) : i > Len(text) - Held(f) => Space(text, i)
    /\ Len(text) > Held(f) => ~Space(text, Len(text) - Held(f))

(* Between words a token has been written unless all was whitespace. *)
SpaceInv ==
    state \in Reading =>
        /\ HoldsEnd(file, input)
        /\ state # "WORD" => (file.tokenWritten <=> Len(input) > Held(file))

(* WhitespaceRuns, HoldsBlankLine and DelimiterAfterBlankLine for any text *)
Runs(text, done) ==
    {r \in (1..Len(text)) \X (1..Len(text)) :
        /\ r[1] <= r[2]
        /\ \A i \in r[1]..r[2] : Space(text, i)
        /\ r[1] = 1 \/ ~Space(text, r[1] - 1)
        /\ IF r[2] = Len(text) THEN done ELSE ~Space(text, r[2] + 1)}

NewlinesOf(text, r) == {i \in r[1]..r[2] : text[i] = Newline}

Blank(text, r) == Cardinality(NewlinesOf(text, r)) >= (IF r[1] = 1 THEN 1 ELSE 2)

Delimited(text) ==
    \E r \in Runs(text, FALSE) :
        Blank(text, r) /\ r[2] < Len(text) /\ classifyChar(text[r[2] + 1]) = "DELIMITER"

(* Lossless for any pieces *)
Chars(piece) == {piece[i] : i \in DOMAIN piece}

Increasing(piece) == \A i, j \in DOMAIN piece : i < j => piece[i] < piece[j]

(* The pieces alternate: whitespace 1, token 1, whitespace 2, token 2, ... *)
Crossed(tokens, spaces) ==
    \A k \in DOMAIN spaces, l \in DOMAIN tokens :
        IF k <= l THEN Before(spaces[k], tokens[l]) ELSE Before(tokens[l], spaces[k])

InPlace(tokens, spaces, n) ==
    /\ Positions(tokens) \cup Positions(spaces) = 1..n
    /\ Ordered(tokens) /\ Ordered(spaces) /\ Crossed(tokens, spaces)

FileTokens(f) == Append(f.tokens, f.currentWord)
FileSpaces(f) == Append(f.whitespace, f.whitespaceBuffer)
Placed(f, n) == InPlace(FileTokens(f), FileSpaces(f), n)

(* The marks of blank lines *)
Empty(f) == {k \in DOMAIN f.tokens : f.tokens[k] = <<>>}
Marks(f) == Cardinality(Empty(f))

BlankRuns(text, done) == {r \in Runs(text, done) : Blank(text, r)}

(* The whitespace at the end of the input, and whether a blank line is in it *)
LastRun(f, text) == <<Len(text) - Held(f) + 1, Len(text)>>
EndsBlank(f, text) == Held(f) > 0 /\ Blank(text, LastRun(f, text))

Marked(para, f, text, done) ==
    Marks(f) = IF para THEN Cardinality(BlankRuns(text, done)) ELSE 0

(* What ReadsBack and ParagraphsMarked say of a file *)
Kept(para, f, text, done) ==
    /\ ~para \/ ~Delimited(text) => Placed(f, Len(text))
    /\ ~Delimited(text) => Marked(para, f, text, done)

(* The inductive invariant, together with IInv *)
PlaceInv ==
    /\ SpaceInv
    /\ state \in Reading => Kept("paraDelim" \in option, file, input, FALSE)
    /\ state = "DONE" => Kept("paraDelim" \in option, file, input, TRUE)
    /\ "paraDelim" \notin option \/ ~Delimited(input) => Placed(file, Len(input))

(* Only the characters of two pieces matter for their order. *)
LEMMA BeforeChars ==
    ASSUME NEW a, NEW b
    PROVE  Before(a, b) <=> \A p \in Chars(a), q \in Chars(b) : p < q
  BY DEF Before, Chars

(* An empty piece holds no characters. *)
LEMMA PieceFacts ==
    /\ <<>> \in Piece /\ Chars(<<>>) = {} /\ Increasing(<<>>)
    /\ \A x \in Piece : Chars(x) \subseteq Nat
  <1>1. DOMAIN <<>> = {}
    OBVIOUS
  <1>2. ASSUME NEW x \in Piece PROVE Chars(x) \subseteq Nat
    BY DEF Piece, Chars
  <1> QED
    BY <1>1, <1>2 DEF Piece, Chars, Increasing

(* A piece that a later character is added to stays in order. *)
LEMMA PieceGrows ==
    ASSUME NEW x \in Piece, NEW p \in Nat \ {0}
    PROVE  /\ Append(x, p) \in Piece
           /\ Chars(Append(x, p)) = Chars(x) \cup {p}
           /\ Increasing(x) /\ (\A q \in Chars(x) : q < p) => Increasing(Append(x, p))
  <1> DEFINE y == Append(x, p)
             l == Len(x)
  <1>1. /\ x \in Seq(Nat \ {0}) /\ l \in Nat /\ DOMAIN x = 1..l
        /\ \A i \in 1..l : x[i] \in Nat
    BY DEF Piece
  <1>2. /\ y \in Seq(Nat \ {0}) /\ DOMAIN y = 1..(l + 1) /\ y[l + 1] = p
        /\ \A i \in 1..l : y[i] = x[i]
    BY <1>1
  <1>3. \A i : i \in 1..(l + 1) <=> i \in 1..l \/ i = l + 1
    BY <1>1
  <1> HIDE DEF y, l
  <1>4. Chars(y) = {y[i] : i \in 1..(l + 1)} /\ Chars(x) = {x[i] : i \in 1..l}
    BY <1>1, <1>2 DEF Chars
  <1>5. Chars(y) \subseteq Chars(x) \cup {p}
    <2>1. ASSUME NEW q \in Chars(y) PROVE q \in Chars(x) \cup {p}
      BY <1>2, <1>3, <1>4, <2>1
    <2> QED
      BY <2>1
  <1>6. Chars(x) \cup {p} \subseteq Chars(y)
    <2>1. ASSUME NEW q \in Chars(x) PROVE q \in Chars(y)
      BY <1>2, <1>3, <1>4, <2>1
    <2>2. p \in Chars(y)
      BY <1>2, <1>3, <1>4
    <2> QED
      BY <2>1, <2>2, Zenon
  <1>7. ASSUME Increasing(x), \A q \in Chars(x) : q < p,
               NEW i \in 1..(l + 1), NEW j \in 1..(l + 1), i < j
        PROVE  y[i] < y[j]
    <2>1. i \in 1..l
      BY <1>1, <1>7
    <2>2. CASE j \in 1..l
      BY <1>1, <1>2, <1>7, <2>1, <2>2, Zenon DEF Increasing
    <2>3. CASE j = l + 1
      BY <1>2, <1>4, <1>7, <2>1, <2>3
    <2> QED
      BY <1>3, <2>2, <2>3
  <1> QED
    BY <1>2, <1>5, <1>6, <1>7, Zenon DEF Piece, Increasing, y

(* A piece is added to a file. *)
LEMMA AppendFacts ==
    ASSUME NEW P \in Seq(Piece), NEW x \in Piece
    PROVE  LET Q == Append(P, x)
               l == Len(P)
           IN  /\ Q \in Seq(Piece) /\ l \in Nat /\ Len(Q) = l + 1
               /\ DOMAIN P = 1..l /\ DOMAIN Q = 1..(l + 1)
               /\ Q[l + 1] = x /\ \A k \in 1..l : Q[k] = P[k]
               /\ \A k : k \in 1..(l + 1) <=> k \in 1..l \/ k = l + 1
  OBVIOUS

(* The characters of the pieces when there is one more *)
LEMMA PositionsAppend ==
    ASSUME NEW P \in Seq(Piece), NEW x \in Piece
    PROVE  Positions(Append(P, x)) = Positions(P) \cup Chars(x)
  <1> DEFINE Q == Append(P, x)
             l == Len(P)
  <1>1. /\ l \in Nat /\ DOMAIN P = 1..l /\ DOMAIN Q = 1..(l + 1)
        /\ Q[l + 1] = x /\ \A k \in 1..l : Q[k] = P[k]
        /\ \A k : k \in 1..(l + 1) <=> k \in 1..l \/ k = l + 1
    BY AppendFacts
  <1> HIDE DEF Q, l
  <1>2. Positions(Q) = UNION {Chars(Q[k]) : k \in 1..(l + 1)}
    BY <1>1 DEF Positions, Chars
  <1>3. Positions(P) = UNION {Chars(P[k]) : k \in 1..l}
    BY <1>1 DEF Positions, Chars
  <1>4. ASSUME NEW q \in Positions(Q) PROVE q \in Positions(P) \cup Chars(x)
    <2>1. PICK k \in 1..(l + 1) : q \in Chars(Q[k])
      BY <1>2, <1>4
    <2> QED
      BY <1>1, <1>3, <2>1
  <1>5. ASSUME NEW q \in Positions(P) PROVE q \in Positions(Q)
    <2>1. PICK k \in 1..l : q \in Chars(P[k])
      BY <1>3, <1>5
    <2> QED
      BY <1>1, <1>2, <2>1
  <1>6. ASSUME NEW q \in Chars(x) PROVE q \in Positions(Q)
    BY <1>1, <1>2, <1>6
  <1> QED
    BY <1>4, <1>5, <1>6 DEF Q

(* The pieces are in order with one more if that one comes after them. *)
LEMMA OrderedAppend ==
    ASSUME NEW P \in Seq(Piece), NEW x \in Piece
    PROVE  Ordered(Append(P, x)) <=> /\ Ordered(P) /\ Increasing(x)
                                     /\ \A k \in DOMAIN P : Before(P[k], x)
  <1> DEFINE Q == Append(P, x)
             l == Len(P)
  <1>1. /\ l \in Nat /\ DOMAIN P = 1..l /\ DOMAIN Q = 1..(l + 1)
        /\ Q[l + 1] = x /\ \A k \in 1..l : Q[k] = P[k]
        /\ \A k : k \in 1..(l + 1) <=> k \in 1..l \/ k = l + 1
    BY AppendFacts
  <1> HIDE DEF Q, l
  <1>o. ASSUME NEW R
        PROVE  Ordered(R) <=> /\ \A k \in DOMAIN R : Increasing(R[k])
                              /\ \A k, j \in DOMAIN R : k < j => Before(R[k], R[j])
    BY DEF Ordered, Increasing
  <1>2. ASSUME Ordered(Q) PROVE Ordered(P) /\ Increasing(x) /\ \A k \in DOMAIN P : Before(P[k], x)
    <2>1. /\ \A k \in 1..(l + 1) : Increasing(Q[k])
          /\ \A k, j \in 1..(l + 1) : k < j => Before(Q[k], Q[j])
      BY <1>1, <1>2, <1>o
    <2>2. \A k \in 1..l : Increasing(P[k])
      BY <1>1, <2>1
    <2>3. \A k, j \in 1..l : k < j => Before(P[k], P[j])
      BY <1>1, <2>1
    <2>4. \A k \in 1..l : Before(P[k], x)
      BY <1>1, <2>1
    <2>5. Increasing(x)
      BY <1>1, <2>1
    <2> QED
      BY <1>1, <1>o, <2>2, <2>3, <2>4, <2>5
  <1>3. ASSUME Ordered(P), Increasing(x), \A k \in DOMAIN P : Before(P[k], x)
        PROVE  Ordered(Q)
    <2>1. /\ \A k \in 1..l : Increasing(P[k])
          /\ \A k, j \in 1..l : k < j => Before(P[k], P[j])
      BY <1>1, <1>3, <1>o
    <2>2. \A k \in 1..(l + 1) : Increasing(Q[k])
      BY <1>1, <1>3, <2>1
    <2>3. ASSUME NEW k \in 1..(l + 1), NEW j \in 1..(l + 1), k < j PROVE Before(Q[k], Q[j])
      <3>1. k \in 1..l
        BY <1>1, <2>3
      <3>2. CASE j \in 1..l
        BY <1>1, <2>1, <2>3, <3>1, <3>2
      <3>3. CASE j = l + 1
        BY <1>1, <1>3, <3>1, <3>3
      <3> QED
        BY <1>1, <3>2, <3>3
    <2> QED
      BY <1>1, <1>o, <2>2, <2>3
  <1> QED
    BY <1>2, <1>3 DEF Q

(* The two files alternate with one more piece in either if that piece   *)
(* does.                                                                 *)
LEMMA CrossedAppend ==
    ASSUME NEW P \in Seq(Piece), NEW x \in Piece, NEW R
    PROVE  /\ Crossed(Append(P, x), R) <=>
                 /\ Crossed(P, R)
                 /\ \A k \in DOMAIN R : IF k <= Len(P) + 1 THEN Before(R[k], x) ELSE Before(x, R[k])
           /\ Crossed(R, Append(P, x)) <=>
                 /\ Crossed(R, P)
                 /\ \A k \in DOMAIN R : IF Len(P) + 1 <= k THEN Before(x, R[k]) ELSE Before(R[k], x)
  <1> DEFINE Q == Append(P, x)
             l == Len(P)
  <1>1. /\ l \in Nat /\ DOMAIN P = 1..l /\ DOMAIN Q = 1..(l + 1)
        /\ Q[l + 1] = x /\ \A k \in 1..l : Q[k] = P[k]
        /\ \A k : k \in 1..(l + 1) <=> k \in 1..l \/ k = l + 1
    BY AppendFacts
  <1> HIDE DEF Q, l
  <1>2. Crossed(Q, R) <=>
           /\ Crossed(P, R)
           /\ \A k \in DOMAIN R : IF k <= l + 1 THEN Before(R[k], x) ELSE Before(x, R[k])
    BY <1>1 DEF Crossed
  <1>3. Crossed(R, Q) <=>
           /\ Crossed(R, P)
           /\ \A k \in DOMAIN R : IF l + 1 <= k THEN Before(x, R[k]) ELSE Before(R[k], x)
    BY <1>1 DEF Crossed
  <1> QED
    BY <1>2, <1>3 DEF Q, l

-----------------------------------------------------------------------------
(* What the operations on an InputFile do to the places of the characters  *)

(* The fields of the file after a character of a token *)
LEMMA AfterTokenChar ==
    ASSUME NEW f \in InputFile, NEW p
    PROVE  LET g == writeTokenChar(f, p)
           IN  /\ g.tokens = f.tokens /\ g.whitespace = f.whitespace
               /\ g.currentWord = Append(f.currentWord, p)
               /\ g.whitespaceBuffer = f.whitespaceBuffer /\ g.tokenWritten = f.tokenWritten
  BY DEF writeTokenChar, InputFile

(* The same after a character of whitespace *)
LEMMA AfterWhitespaceChar ==
    ASSUME NEW f \in InputFile, NEW p
    PROVE  LET g == writeWhitespaceChar(f, p)
           IN  /\ g.tokens = f.tokens /\ g.whitespace = f.whitespace
               /\ g.currentWord = f.currentWord /\ g.tokenWritten = f.tokenWritten
               /\ g.whitespaceBuffer = Append(f.whitespaceBuffer, p)
  BY DEF writeWhitespaceChar, InputFile

(* The same after the end of a token *)
LEMMA AfterEndOfToken ==
    ASSUME NEW f \in InputFile
    PROVE  LET g == writeEndOfToken(f)
           IN  /\ g.tokens = Append(f.tokens, f.currentWord) /\ g.whitespace = f.whitespace
               /\ g.currentWord = <<>> /\ g.tokenWritten = TRUE
               /\ g.whitespaceBuffer = f.whitespaceBuffer
  BY DEF writeEndOfToken, InputFile

(* The same after whitespace that is written in one piece *)
LEMMA AfterFlush ==
    ASSUME NEW f \in InputFile
    PROVE  LET g == flushWhitespace(f)
           IN  /\ g.tokens = f.tokens /\ g.currentWord = f.currentWord
               /\ g.whitespace = Append(f.whitespace, f.whitespaceBuffer)
               /\ g.whitespaceBuffer = <<>> /\ g.tokenWritten = f.tokenWritten
  BY DEF flushWhitespace, InputFile

(* The same after whitespace that is broken in two *)
LEMMA AfterBreak ==
    ASSUME NEW f \in InputFile, NEW n
    PROVE  LET g == breakWhitespace(f, n)
               buffer == f.whitespaceBuffer
           IN  /\ g.tokens = Append(f.tokens, f.currentWord) /\ g.currentWord = <<>>
               /\ g.whitespace = Append(Append(f.whitespace, SubSeq(buffer, 1, n)),
                                        SubSeq(buffer, n + 1, Len(buffer)))
               /\ g.whitespaceBuffer = <<>> /\ g.tokenWritten = TRUE
  BY Zenon DEF breakWhitespace, writeEndOfToken, InputFile

(* An empty piece at the end of a file changes nothing. *)
LEMMA EmptyAtEnd ==
    ASSUME NEW T \in Seq(Piece), NEW W \in Seq(Piece), NEW n, InPlace(T, W, n)
    PROVE  InPlace(Append(T, <<>>), W, n) /\ InPlace(T, Append(W, <<>>), n)
  <1>1. <<>> \in Piece /\ Chars(<<>>) = {} /\ Increasing(<<>>)
    BY PieceFacts
  <1>2. \A x : Before(<<>>, x) /\ Before(x, <<>>)
    BY <1>1, BeforeChars
  <1>3. /\ Positions(Append(T, <<>>)) = Positions(T)
        /\ Positions(Append(W, <<>>)) = Positions(W)
    BY <1>1, PositionsAppend, Zenon
  <1>4. Ordered(Append(T, <<>>)) /\ Ordered(Append(W, <<>>))
    BY <1>1, <1>2, OrderedAppend DEF InPlace
  <1>5. Crossed(Append(T, <<>>), W) /\ Crossed(T, Append(W, <<>>))
    BY <1>1, <1>2, CrossedAppend DEF InPlace
  <1> QED
    BY <1>3, <1>4, <1>5 DEF InPlace

(* All characters of the files are among those read. *)
LEMMA PlacedBound ==
    ASSUME NEW T, NEW W, NEW n, InPlace(T, W, n)
    PROVE  /\ \A k \in DOMAIN T : Chars(T[k]) \subseteq 1..n
           /\ \A k \in DOMAIN W : Chars(W[k]) \subseteq 1..n
  BY DEF InPlace, Positions, Chars

(* The next character is added to the last token: there is no whitespace   *)
(* after that one.                                                         *)
LEMMA TokenGrows ==
    ASSUME NEW T \in Seq(Piece), NEW W \in Seq(Piece), NEW n \in Nat, NEW x \in Piece,
           InPlace(Append(T, x), W, n),
           \A k \in DOMAIN W : k > Len(T) + 1 => W[k] = <<>>
    PROVE  InPlace(Append(T, Append(x, n + 1)), W, n + 1)
  <1> DEFINE y == Append(x, n + 1)
             l == Len(T)
  <1>0. /\ l \in Nat /\ DOMAIN T = 1..l /\ DOMAIN W \subseteq Nat
        /\ Append(T, x)[l + 1] = x /\ l + 1 \in DOMAIN Append(T, x)
        /\ \A k \in 1..l : k \in DOMAIN Append(T, x) /\ Append(T, x)[k] = T[k]
    BY AppendFacts
  <1>1. /\ \A k \in 1..l : Chars(T[k]) \subseteq 1..n
        /\ \A k \in DOMAIN W : Chars(W[k]) \subseteq 1..n
        /\ Chars(x) \subseteq 1..n
    BY <1>0, PlacedBound, Zenon
  <1>2. /\ y \in Piece /\ Chars(y) = Chars(x) \cup {n + 1}
        /\ Increasing(x) => Increasing(y)
    <2>1. \A q \in Chars(x) : q < n + 1
      BY <1>1
    <2> QED
      BY <2>1, PieceGrows
  <1> HIDE DEF y, l
  <1>3. Positions(Append(T, y)) = Positions(Append(T, x)) \cup {n + 1}
    BY <1>2, PositionsAppend
  <1>4. Positions(Append(T, y)) \cup Positions(W) = 1..(n + 1)
    <2>1. 1..(n + 1) = 1..n \cup {n + 1}
      OBVIOUS
    <2> QED
      BY <1>3, <2>1 DEF InPlace
  <1>5. ASSUME NEW a, Chars(a) \subseteq 1..n, Before(a, x) PROVE Before(a, y)
    <2>1. \A p \in Chars(a), q \in Chars(x) : p < q
      BY <1>5, BeforeChars
    <2>2. \A p \in Chars(a) : p < n + 1
      BY <1>5
    <2>3. \A p \in Chars(a), q \in Chars(y) : p < q
      BY <1>2, <2>1, <2>2
    <2> QED
      BY <2>3, BeforeChars
  <1>6. Ordered(Append(T, y))
    <2>1. Ordered(T) /\ Increasing(x) /\ \A k \in DOMAIN T : Before(T[k], x)
      BY OrderedAppend DEF InPlace
    <2>2. \A k \in DOMAIN T : Before(T[k], y)
      BY <1>0, <1>1, <1>5, <2>1
    <2> QED
      BY <1>2, <2>1, <2>2, OrderedAppend
  <1>7. Crossed(Append(T, y), W)
    <2>1. /\ Crossed(T, W)
          /\ \A k \in DOMAIN W : IF k <= l + 1 THEN Before(W[k], x) ELSE Before(x, W[k])
      BY CrossedAppend DEF InPlace, l
    <2>2. ASSUME NEW k \in DOMAIN W
          PROVE  IF k <= l + 1 THEN Before(W[k], y) ELSE Before(y, W[k])
      <3>1. CASE k <= l + 1
        BY <1>1, <1>5, <2>1, <3>1
      <3>2. CASE ~(k <= l + 1)
        <4>1. W[k] = <<>>
          BY <1>0, <3>2 DEF l
        <4>2. Before(y, W[k])
          BY <4>1, PieceFacts, BeforeChars
        <4> QED
          BY <3>2, <4>2
      <3> QED
        BY <3>1, <3>2
    <2>3. \A k \in DOMAIN W : IF k <= Len(T) + 1 THEN Before(W[k], y) ELSE Before(y, W[k])
      BY <2>2 DEF l
    <2> QED
      BY <1>2, <2>1, <2>3, CrossedAppend
  <1> QED
    BY <1>4, <1>6, <1>7 DEF InPlace, y

(* The next character is added to the last whitespace: there is no token   *)
(* after that.                                                             *)
LEMMA WhitespaceGrows ==
    ASSUME NEW T \in Seq(Piece), NEW W \in Seq(Piece), NEW n \in Nat, NEW x \in Piece,
           InPlace(T, Append(W, x), n),
           \A k \in DOMAIN T : k >= Len(W) + 1 => T[k] = <<>>
    PROVE  InPlace(T, Append(W, Append(x, n + 1)), n + 1)
  <1> DEFINE y == Append(x, n + 1)
             l == Len(W)
  <1>0. /\ l \in Nat /\ DOMAIN W = 1..l /\ DOMAIN T \subseteq Nat
        /\ Append(W, x)[l + 1] = x /\ l + 1 \in DOMAIN Append(W, x)
        /\ \A k \in 1..l : k \in DOMAIN Append(W, x) /\ Append(W, x)[k] = W[k]
    BY AppendFacts
  <1>1. /\ \A k \in 1..l : Chars(W[k]) \subseteq 1..n
        /\ \A k \in DOMAIN T : Chars(T[k]) \subseteq 1..n
        /\ Chars(x) \subseteq 1..n
    BY <1>0, PlacedBound, Zenon
  <1>2. /\ y \in Piece /\ Chars(y) = Chars(x) \cup {n + 1}
        /\ Increasing(x) => Increasing(y)
    <2>1. \A q \in Chars(x) : q < n + 1
      BY <1>1
    <2> QED
      BY <2>1, PieceGrows
  <1> HIDE DEF y, l
  <1>3. Positions(Append(W, y)) = Positions(Append(W, x)) \cup {n + 1}
    BY <1>2, PositionsAppend
  <1>4. Positions(T) \cup Positions(Append(W, y)) = 1..(n + 1)
    <2>1. 1..(n + 1) = 1..n \cup {n + 1}
      OBVIOUS
    <2> QED
      BY <1>3, <2>1 DEF InPlace
  <1>5. ASSUME NEW a, Chars(a) \subseteq 1..n, Before(a, x) PROVE Before(a, y)
    <2>1. \A p \in Chars(a), q \in Chars(x) : p < q
      BY <1>5, BeforeChars
    <2>2. \A p \in Chars(a) : p < n + 1
      BY <1>5
    <2>3. \A p \in Chars(a), q \in Chars(y) : p < q
      BY <1>2, <2>1, <2>2
    <2> QED
      BY <2>3, BeforeChars
  <1>6. Ordered(Append(W, y))
    <2>1. Ordered(W) /\ Increasing(x) /\ \A k \in DOMAIN W : Before(W[k], x)
      BY OrderedAppend DEF InPlace
    <2>2. \A k \in DOMAIN W : Before(W[k], y)
      BY <1>0, <1>1, <1>5, <2>1
    <2> QED
      BY <1>2, <2>1, <2>2, OrderedAppend
  <1>7. Crossed(T, Append(W, y))
    <2>1. /\ Crossed(T, W)
          /\ \A k \in DOMAIN T : IF l + 1 <= k THEN Before(x, T[k]) ELSE Before(T[k], x)
      BY CrossedAppend DEF InPlace, l
    <2>2. ASSUME NEW k \in DOMAIN T
          PROVE  IF l + 1 <= k THEN Before(y, T[k]) ELSE Before(T[k], y)
      <3>1. CASE ~(l + 1 <= k)
        BY <1>1, <1>5, <2>1, <3>1
      <3>2. CASE l + 1 <= k
        <4>1. T[k] = <<>>
          BY <1>0, <3>2 DEF l
        <4>2. Before(y, T[k])
          BY <4>1, PieceFacts, BeforeChars
        <4> QED
          BY <3>2, <4>2
      <3> QED
        BY <3>1, <3>2
    <2>3. \A k \in DOMAIN T : IF Len(W) + 1 <= k THEN Before(y, T[k]) ELSE Before(T[k], y)
      BY <2>2 DEF l
    <2> QED
      BY <1>2, <2>1, <2>3, CrossedAppend
  <1> QED
    BY <1>4, <1>6, <1>7 DEF InPlace, y

(* The two parts of a piece *)
LEMMA PieceParts ==
    ASSUME NEW x \in Piece, Increasing(x), NEW m \in 0..Len(x)
    PROVE  LET a == SubSeq(x, 1, m)
               b == SubSeq(x, m + 1, Len(x))
           IN  /\ a \in Piece /\ b \in Piece /\ Increasing(a) /\ Increasing(b)
               /\ Chars(a) \cup Chars(b) = Chars(x)
               /\ Before(a, b)
  <1> DEFINE n == Len(x)
             a == SubSeq(x, 1, m)
             b == SubSeq(x, m + 1, n)
  <1>1. x \in Seq(Nat \ {0}) /\ n \in Nat /\ DOMAIN x = 1..n /\ m \in Nat /\ m <= n
    BY DEF Piece
  <1>2. /\ a \in Seq(Nat \ {0}) /\ DOMAIN a = 1..m
        /\ \A i \in 1..m : a[i] = x[i]
    <2> HIDE DEF n
    <2>1. \A i \in 1..m : x[i] \in Nat \ {0}
      BY <1>1
    <2> QED
      BY <1>1, <2>1
  <1>3. /\ b \in Seq(Nat \ {0}) /\ DOMAIN b = 1..(n - m)
        /\ \A i \in 1..(n - m) : b[i] = x[m + i]
    <2> HIDE DEF n
    <2>1. \A i \in 1..n : x[i] \in Nat \ {0}
      BY <1>1
    <2> QED
      BY <1>1, <2>1
  <1> HIDE DEF n, a, b
  <1>4. Increasing(a)
    <2> SUFFICES ASSUME NEW i \in 1..m, NEW j \in 1..m, i < j PROVE a[i] < a[j]
      BY <1>2 DEF Increasing
    <2>1. i \in 1..n /\ j \in 1..n
      BY <1>1
    <2> QED
      BY <1>1, <1>2, <2>1, Zenon DEF Increasing
  <1>5. Increasing(b)
    <2> SUFFICES ASSUME NEW i \in 1..(n - m), NEW j \in 1..(n - m), i < j PROVE b[i] < b[j]
      BY <1>3 DEF Increasing
    <2>1. m + i \in 1..n /\ m + j \in 1..n /\ m + i < m + j
      BY <1>1
    <2> QED
      BY <1>1, <1>3, <2>1, Zenon DEF Increasing
  <1>6. Chars(a) \cup Chars(b) \subseteq Chars(x)
    <2>1. ASSUME NEW p \in Chars(a) PROVE p \in Chars(x)
      <3>1. PICK i \in 1..m : p = a[i]
        BY <1>2, <2>1 DEF Chars
      <3>2. i \in 1..n
        BY <1>1
      <3> QED
        BY <1>1, <1>2, <3>1, <3>2 DEF Chars
    <2>2. ASSUME NEW p \in Chars(b) PROVE p \in Chars(x)
      <3>1. PICK i \in 1..(n - m) : p = b[i]
        BY <1>3, <2>2 DEF Chars
      <3>2. m + i \in 1..n
        BY <1>1
      <3> QED
        BY <1>1, <1>3, <3>1, <3>2, Zenon DEF Chars
    <2> QED
      BY <2>1, <2>2
  <1>7. ASSUME NEW p \in Chars(x) PROVE p \in Chars(a) \cup Chars(b)
    <2>1. PICK i \in 1..n : p = x[i]
      BY <1>1, <1>7 DEF Chars
    <2>2. CASE i \in 1..m
      BY <1>2, <2>1, <2>2 DEF Chars
    <2>3. CASE i \notin 1..m
      <3>1. i - m \in 1..(n - m) /\ m + (i - m) = i
        BY <1>1, <2>3
      <3>2. b[i - m] = x[i]
        BY <1>3, <3>1
      <3> QED
        BY <1>3, <2>1, <3>1, <3>2 DEF Chars
    <2> QED
      BY <2>2, <2>3
  <1>8. Before(a, b)
    <2> SUFFICES ASSUME NEW i \in 1..m, NEW j \in 1..(n - m) PROVE a[i] < b[j]
      BY <1>2, <1>3 DEF Before
    <2>1. i \in 1..n /\ m + j \in 1..n /\ i < m + j
      BY <1>1
    <2> QED
      BY <1>1, <1>2, <1>3, <2>1, Zenon DEF Increasing
  <1> QED
    BY <1>2, <1>3, <1>4, <1>5, <1>6, <1>7, <1>8 DEF Piece, a, b, n

(* The last whitespace is broken in two: there is no token after it. *)
LEMMA WhitespaceBreaks ==
    ASSUME NEW T \in Seq(Piece), NEW W \in Seq(Piece), NEW n, NEW x \in Piece,
           InPlace(T, Append(W, x), n),
           \A k \in DOMAIN T : k >= Len(W) + 1 => T[k] = <<>>,
           NEW m \in 0..Len(x)
    PROVE  InPlace(T, Append(Append(W, SubSeq(x, 1, m)), SubSeq(x, m + 1, Len(x))), n)
  <1> DEFINE a == SubSeq(x, 1, m)
             b == SubSeq(x, m + 1, Len(x))
             l == Len(W)
             V == Append(W, a)
  <1>1. /\ Ordered(W) /\ Increasing(x) /\ \A k \in DOMAIN W : Before(W[k], x)
    BY OrderedAppend DEF InPlace
  <1>2. /\ a \in Piece /\ b \in Piece /\ Increasing(a) /\ Increasing(b)
        /\ Chars(a) \cup Chars(b) = Chars(x) /\ Before(a, b)
    BY <1>1, PieceParts
  <1>3. \A y : /\ Before(y, x) => Before(y, a) /\ Before(y, b)
               /\ Before(x, y) => Before(a, y) /\ Before(b, y)
    BY <1>2, BeforeChars
  <1> HIDE DEF a, b
  <1>4. /\ V \in Seq(Piece) /\ Len(V) = l + 1 /\ l \in Nat /\ DOMAIN W = 1..l
        /\ DOMAIN V = 1..(l + 1) /\ V[l + 1] = a /\ \A k \in 1..l : V[k] = W[k]
        /\ \A k : k \in 1..(l + 1) <=> k \in 1..l \/ k = l + 1
    BY <1>2, AppendFacts
  <1>5. Ordered(V)
    BY <1>1, <1>2, <1>3, OrderedAppend
  <1> HIDE DEF V
  <1>6. \A k \in DOMAIN V : Before(V[k], b)
    BY <1>1, <1>2, <1>3, <1>4
  <1>7. Ordered(Append(V, b))
    BY <1>2, <1>4, <1>5, <1>6, OrderedAppend
  <1>8. Positions(Append(V, b)) = Positions(Append(W, x))
    <2>1. Positions(Append(V, b)) = Positions(V) \cup Chars(b)
      BY <1>2, <1>4, PositionsAppend
    <2>2. Positions(V) = Positions(W) \cup Chars(a)
      BY <1>2, PositionsAppend DEF V
    <2>3. Positions(Append(W, x)) = Positions(W) \cup Chars(x)
      BY PositionsAppend
    <2> QED
      BY <1>2, <2>1, <2>2, <2>3
  <1>9. /\ Crossed(T, W)
        /\ \A k \in DOMAIN T : IF l + 1 <= k THEN Before(x, T[k]) ELSE Before(T[k], x)
    BY CrossedAppend DEF InPlace
  <1>10. DOMAIN T \subseteq Nat
    OBVIOUS
  <1> HIDE DEF l
  <1>11. Crossed(T, V)
    <2>1. \A k \in DOMAIN T : IF l + 1 <= k THEN Before(a, T[k]) ELSE Before(T[k], a)
      BY <1>3, <1>9
    <2> QED
      BY <1>2, <1>9, <2>1, CrossedAppend DEF V, l
  <1>12. ASSUME NEW k \in DOMAIN T
         PROVE  IF Len(V) + 1 <= k THEN Before(b, T[k]) ELSE Before(T[k], b)
    <2>1. CASE l + 1 <= k
      <3>1. T[k] = <<>>
        BY <1>4, <1>10, <2>1 DEF l
      <3> QED
        BY <3>1, PieceFacts, BeforeChars
    <2>2. CASE ~(l + 1 <= k)
      <3>1. Before(T[k], b)
        BY <1>3, <1>9, <2>2
      <3>2. ~(Len(V) + 1 <= k)
        BY <1>4, <1>10, <2>2
      <3> QED
        BY <3>1, <3>2
    <2> QED
      BY <2>1, <2>2
  <1>13. Crossed(T, Append(V, b))
    BY <1>2, <1>4, <1>11, <1>12, CrossedAppend
  <1> QED
    BY <1>7, <1>8, <1>13 DEF InPlace, V, a, b

(* The same for the files as a whole: the pieces that are being collected  *)
(* are the last ones.                                                      *)
LEMMA FilePieces ==
    ASSUME NEW f \in InputFile
    PROVE  /\ FileTokens(f) \in Seq(Piece) /\ FileSpaces(f) \in Seq(Piece)
           /\ DOMAIN FileTokens(f) = 1..(Len(f.tokens) + 1)
           /\ DOMAIN FileSpaces(f) = 1..(Len(f.whitespace) + 1)
           /\ FileTokens(f)[Len(f.tokens) + 1] = f.currentWord
           /\ FileSpaces(f)[Len(f.whitespace) + 1] = f.whitespaceBuffer
           /\ Len(f.whitespace) = Len(f.tokens) + Ahead(f) /\ Ahead(f) \in Int
  <1>1. /\ f.tokens \in Seq(Piece) /\ f.whitespace \in Seq(Piece)
        /\ f.currentWord \in Piece /\ f.whitespaceBuffer \in Piece
        /\ Len(f.tokens) \in Nat /\ Len(f.whitespace) \in Nat
    BY Fields
  <1>2. Len(f.whitespace) = Len(f.tokens) + Ahead(f) /\ Ahead(f) \in Int
    BY <1>1 DEF Ahead
  <1> QED
    BY <1>1, <1>2, AppendFacts, Zenon DEF FileTokens, FileSpaces

(* Ending a token keeps every character in its place. *)
LEMMA EndOfTokenPlaced ==
    ASSUME NEW f \in InputFile, NEW n, Placed(f, n)
    PROVE  Placed(writeEndOfToken(f), n)
  <1>1. /\ FileTokens(writeEndOfToken(f)) = Append(FileTokens(f), <<>>)
        /\ FileSpaces(writeEndOfToken(f)) = FileSpaces(f)
    BY AfterEndOfToken, Zenon DEF FileTokens, FileSpaces
  <1> QED
    BY <1>1, FilePieces, EmptyAtEnd DEF Placed

(* So does ending the whitespace. *)
LEMMA FlushPlaced ==
    ASSUME NEW f \in InputFile, NEW n, Placed(f, n)
    PROVE  Placed(flushWhitespace(f), n)
  <1>1. /\ FileTokens(flushWhitespace(f)) = FileTokens(f)
        /\ FileSpaces(flushWhitespace(f)) = Append(FileSpaces(f), <<>>)
    BY AfterFlush DEF FileTokens, FileSpaces
  <1> QED
    BY <1>1, FilePieces, EmptyAtEnd DEF Placed

(* A character of a token is put in its place when the token comes after   *)
(* all the whitespace.                                                     *)
LEMMA TokenCharPlaced ==
    ASSUME NEW f \in InputFile, NEW n \in Nat, Placed(f, n),
           \/ Ahead(f) = 0
           \/ Ahead(f) = 1 /\ f.whitespaceBuffer = <<>>
    PROVE  Placed(writeTokenChar(f, n + 1), n + 1)
  <1>1. /\ FileTokens(writeTokenChar(f, n + 1)) = Append(f.tokens, Append(f.currentWord, n + 1))
        /\ FileSpaces(writeTokenChar(f, n + 1)) = FileSpaces(f)
    BY AfterTokenChar, Zenon DEF FileTokens, FileSpaces
  <1>2. \A k \in DOMAIN FileSpaces(f) : k > Len(f.tokens) + 1 => FileSpaces(f)[k] = <<>>
    <2>1. Len(f.tokens) \in Nat /\ Len(f.whitespace) \in Nat
      BY Fields
    <2> QED
      BY <2>1, FilePieces
  <1>3. InPlace(Append(f.tokens, f.currentWord), FileSpaces(f), n)
    BY DEF Placed, FileTokens
  <1>4. f.tokens \in Seq(Piece) /\ f.currentWord \in Piece /\ FileSpaces(f) \in Seq(Piece)
    BY Fields, FilePieces
  <1>5. InPlace(Append(f.tokens, Append(f.currentWord, n + 1)), FileSpaces(f), n + 1)
    BY <1>2, <1>3, <1>4, TokenGrows
  <1> QED
    BY <1>1, <1>5, Zenon DEF Placed

(* A character of whitespace is put in its place when no word is being     *)
(* collected.                                                              *)
LEMMA WhitespaceCharPlaced ==
    ASSUME NEW f \in InputFile, NEW n \in Nat, Placed(f, n),
           Ahead(f) = 0, f.currentWord = <<>>
    PROVE  Placed(writeWhitespaceChar(f, n + 1), n + 1)
  <1> DEFINE g == writeWhitespaceChar(f, n + 1)
  <1>1. /\ FileTokens(g) = FileTokens(f)
        /\ FileSpaces(g) = Append(f.whitespace, Append(f.whitespaceBuffer, n + 1))
    <2>1. /\ g.tokens = f.tokens /\ g.whitespace = f.whitespace
          /\ g.currentWord = f.currentWord
          /\ g.whitespaceBuffer = Append(f.whitespaceBuffer, n + 1)
      BY AfterWhitespaceChar
    <2> HIDE DEF g
    <2> QED
      BY <2>1 DEF FileTokens, FileSpaces
  <1>2. \A k \in DOMAIN FileTokens(f) : k >= Len(f.whitespace) + 1 => FileTokens(f)[k] = <<>>
    <2>1. Len(f.tokens) \in Nat /\ Len(f.whitespace) \in Nat
      BY Fields
    <2> QED
      BY <2>1, FilePieces
  <1>3. InPlace(FileTokens(f), Append(f.whitespace, f.whitespaceBuffer), n)
    BY DEF Placed, FileSpaces
  <1>4. f.whitespace \in Seq(Piece) /\ f.whitespaceBuffer \in Piece /\ FileTokens(f) \in Seq(Piece)
    BY Fields, FilePieces
  <1>5. InPlace(FileTokens(f), Append(f.whitespace, Append(f.whitespaceBuffer, n + 1)), n + 1)
    BY <1>2, <1>3, <1>4, WhitespaceGrows
  <1> QED
    BY <1>1, <1>5, Zenon DEF Placed

(* Breaking the whitespace for the mark of a blank line moves nothing when *)
(* no word is being collected.                                             *)
LEMMA BreakPlaced ==
    ASSUME NEW f \in InputFile, NEW n, Placed(f, n),
           Ahead(f) = 0, f.currentWord = <<>>,
           NEW m \in 0..Held(f)
    PROVE  Placed(breakWhitespace(f, m), n)
  <1> DEFINE buffer == f.whitespaceBuffer
             front == SubSeq(buffer, 1, m)
             back == SubSeq(buffer, m + 1, Len(buffer))
             W == Append(Append(f.whitespace, front), back)
  <1>1. /\ FileTokens(breakWhitespace(f, m)) = Append(FileTokens(f), <<>>)
        /\ FileSpaces(breakWhitespace(f, m)) = Append(W, <<>>)
    BY AfterBreak, Zenon DEF FileTokens, FileSpaces
  <1>2. \A k \in DOMAIN FileTokens(f) : k >= Len(f.whitespace) + 1 => FileTokens(f)[k] = <<>>
    <2>1. Len(f.tokens) \in Nat /\ Len(f.whitespace) \in Nat
      BY Fields
    <2> QED
      BY <2>1, FilePieces
  <1>3. InPlace(FileTokens(f), Append(f.whitespace, buffer), n)
    BY DEF Placed, FileSpaces
  <1>4. f.whitespace \in Seq(Piece) /\ buffer \in Piece /\ FileTokens(f) \in Seq(Piece)
    BY Fields, FilePieces
  <1>5. InPlace(FileTokens(f), W, n)
    BY <1>2, <1>3, <1>4, WhitespaceBreaks DEF Held
  <1>6. W \in Seq(Piece)
    <2>1. Increasing(buffer)
      BY <1>3, <1>4, OrderedAppend DEF InPlace
    <2>2. front \in Piece /\ back \in Piece
      BY <1>4, <2>1, PieceParts DEF Held
    <2> HIDE DEF front, back, buffer
    <2> QED
      BY <1>4, <2>2
  <1> HIDE DEF W
  <1>7. <<>> \in Piece /\ Append(W, <<>>) \in Seq(Piece)
    BY <1>6, PieceFacts
  <1>8. InPlace(FileTokens(f), Append(W, <<>>), n)
    BY <1>4, <1>5, <1>6, EmptyAtEnd
  <1>9. InPlace(Append(FileTokens(f), <<>>), Append(W, <<>>), n)
    BY <1>4, <1>7, <1>8, EmptyAtEnd, Zenon
  <1> QED
    BY <1>1, <1>9 DEF Placed

-----------------------------------------------------------------------------
(* The empty tokens                                                        *)

(* Their number is a number. *)
LEMMA MarksType ==
    ASSUME NEW f \in InputFile
    PROVE  /\ Empty(f) \subseteq 1..Len(f.tokens)
           /\ IsFiniteSet(Empty(f)) /\ Marks(f) \in Nat
  <1>1. Empty(f) \subseteq 1..Len(f.tokens)
    BY Fields DEF Empty
  <1>2. IsFiniteSet(1..Len(f.tokens))
    BY Fields, FS_Interval
  <1>3. IsFiniteSet(Empty(f))
    BY <1>1, <1>2, FS_Subset
  <1> QED
    BY <1>1, <1>3, FS_CardinalityType DEF Marks

(* One more token is one more mark if it is empty. *)
LEMMA MarksAppend ==
    ASSUME NEW f \in InputFile, NEW g, NEW x \in Piece, g.tokens = Append(f.tokens, x)
    PROVE  Marks(g) = IF x = <<>> THEN Marks(f) + 1 ELSE Marks(f)
  <1> DEFINE l == Len(f.tokens)
  <1>1. /\ f.tokens \in Seq(Piece) /\ l \in Nat
        /\ DOMAIN f.tokens = 1..l /\ DOMAIN g.tokens = 1..(l + 1)
        /\ g.tokens[l + 1] = x /\ \A k \in 1..l : g.tokens[k] = f.tokens[k]
        /\ \A k : k \in 1..(l + 1) <=> k \in 1..l \/ k = l + 1
    <2>1. f.tokens \in Seq(Piece)
      BY Fields
    <2> QED
      BY <2>1, AppendFacts
  <1> HIDE DEF l
  <1>2. Empty(g) = IF x = <<>> THEN Empty(f) \cup {l + 1} ELSE Empty(f)
    BY <1>1 DEF Empty
  <1>3. l + 1 \notin Empty(f)
    <2>1. l + 1 \notin 1..l
      BY <1>1
    <2> QED
      BY <1>1, <2>1 DEF Empty
  <1>4. Cardinality(Empty(f) \cup {l + 1}) = Marks(f) + 1
    BY <1>3, MarksType, FS_AddElement, Zenon DEF Marks
  <1> QED
    BY <1>2, <1>4 DEF Marks

-----------------------------------------------------------------------------
(* The runs of whitespace of the input                                     *)

(* The text after one more character *)
LEMMA TextGrows ==
    ASSUME NEW s \in Seq(Char), NEW c \in Char
    PROVE  LET t == Append(s, c)
               n == Len(s)
           IN  /\ t \in Seq(Char) /\ n \in Nat /\ Len(t) = n + 1
               /\ \A i \in 1..n : t[i] = s[i]
               /\ t[n + 1] = c
               /\ \A i \in 1..n : Space(t, i) <=> Space(s, i)
               /\ Space(t, n + 1) <=> classifyChar(c) = "WHITESPACE"
  <1> DEFINE t == Append(s, c)
             n == Len(s)
  <1>1. /\ t \in Seq(Char) /\ n \in Nat /\ Len(t) = n + 1
        /\ \A i \in 1..n : t[i] = s[i]
        /\ t[n + 1] = c
    OBVIOUS
  <1> HIDE DEF t, n
  <1>2. /\ \A i \in 1..n : Space(t, i) <=> Space(s, i)
        /\ Space(t, n + 1) <=> classifyChar(c) = "WHITESPACE"
    BY <1>1 DEF Space
  <1> QED
    BY <1>1, <1>2 DEF t, n

(* A run ends within the text. *)
LEMMA RunsInside ==
    ASSUME NEW n \in Nat, NEW r
    PROVE  r \in (1..n) \X (1..n) <=>
              r \in (1..(n + 1)) \X (1..(n + 1)) /\ r[1] <= n /\ r[2] <= n
  OBVIOUS

(* A character that is not whitespace completes the run before it, and     *)
(* whitespace completes none.                                              *)
LEMMA RunsAppend ==
    ASSUME NEW s \in Seq(Char), NEW c \in Char
    PROVE  /\ classifyChar(c) = "WHITESPACE" => Runs(Append(s, c), FALSE) = Runs(s, FALSE)
           /\ classifyChar(c) # "WHITESPACE" => Runs(Append(s, c), FALSE) = Runs(s, TRUE)
  <1> DEFINE t == Append(s, c)
             n == Len(s)
             d == classifyChar(c) # "WHITESPACE"
  <1>1. /\ n \in Nat /\ Len(t) = n + 1
        /\ \A i \in 1..n : Space(t, i) <=> Space(s, i)
        /\ Space(t, n + 1) <=> ~d
    BY TextGrows
  <1> HIDE DEF t, n, d
  <1>2. ASSUME NEW r PROVE r \in Runs(t, FALSE) <=> r \in Runs(s, d)
    <2>1. CASE ~(r \in (1..n) \X (1..n))
      <3>1. r \notin Runs(s, d)
        BY <2>1 DEF Runs, n
      <3>2. ASSUME r \in Runs(t, FALSE) PROVE FALSE
        <4>1. /\ r \in (1..(n + 1)) \X (1..(n + 1)) /\ r[1] <= r[2] /\ r[2] # n + 1
          BY <1>1, <3>2 DEF Runs
        <4>2. r[1] <= n /\ r[2] <= n
          BY <1>1, <4>1
        <4> QED
          BY <1>1, <2>1, <4>1, <4>2, RunsInside
      <3> QED
        BY <3>1, <3>2, Zenon
    <2>2. CASE r \in (1..n) \X (1..n)
      <3>1. /\ r \in (1..(n + 1)) \X (1..(n + 1))
            /\ r[1] \in 1..n /\ r[2] \in 1..n /\ r[2] # n + 1
        BY <1>1, <2>2
      <3>2. ASSUME r[1] <= r[2]
            PROVE  (\A i \in r[1]..r[2] : Space(t, i)) <=> (\A i \in r[1]..r[2] : Space(s, i))
        <4>1. \A i \in r[1]..r[2] : i \in 1..n
          BY <1>1, <3>1
        <4> QED
          BY <1>1, <4>1
      <3>3. r[1] = 1 \/ (Space(t, r[1] - 1) <=> Space(s, r[1] - 1))
        <4>1. r[1] = 1 \/ r[1] - 1 \in 1..n
          BY <1>1, <3>1
        <4> QED
          BY <1>1, <4>1
      <3>4. ~Space(t, r[2] + 1) <=> IF r[2] = n THEN d ELSE ~Space(s, r[2] + 1)
        <4>1. r[2] = n \/ r[2] + 1 \in 1..n
          BY <1>1, <3>1
        <4> QED
          BY <1>1, <4>1
      <3> QED
        BY <1>1, <2>2, <3>1, <3>2, <3>3, <3>4 DEF Runs, n
    <2> QED
      BY <2>1, <2>2, Zenon
  <1>3. Runs(t, FALSE) = Runs(s, d)
    BY <1>2, Zenon
  <1>4. d \in BOOLEAN
    BY DEF d
  <1> QED
    BY <1>3, <1>4, Zenon DEF t, d

(* At the end of the input the whitespace in whitespaceBuffer is a run.    *)
LEMMA RunsEnd ==
    ASSUME NEW f \in InputFile, NEW s \in Seq(Char), HoldsEnd(f, s)
    PROVE  /\ Runs(s, TRUE) = Runs(s, FALSE) \cup
                                 (IF Held(f) > 0 THEN {LastRun(f, s)} ELSE {})
           /\ LastRun(f, s) \notin Runs(s, FALSE)
  <1> DEFINE n == Len(s)
             b == Held(f)
             run == LastRun(f, s)
  <1>1. /\ n \in Nat /\ b \in Nat /\ b <= n
        /\ run = <<n - b + 1, n>> /\ run[1] = n - b + 1 /\ run[2] = n
        /\ \A i \in 1..n : i > n - b => Space(s, i)
        /\ n > b => ~Space(s, n - b)
    <2>1. b \in Nat
      BY Fields DEF Held, Piece
    <2> QED
      BY <2>1 DEF HoldsEnd, LastRun
  <1> HIDE DEF n, b, run
  <1>2. run \notin Runs(s, FALSE)
    BY <1>1 DEF Runs, n
  <1>3. Runs(s, FALSE) \subseteq Runs(s, TRUE)
    BY DEF Runs
  <1>4. ASSUME b > 0 PROVE run \in Runs(s, TRUE)
    <2>1. run \in (1..n) \X (1..n) /\ run[1] <= run[2]
      BY <1>1, <1>4
    <2>2. \A i \in run[1]..run[2] : Space(s, i)
      <3>1. \A i \in (n - b + 1)..n : i \in 1..n /\ i > n - b
        BY <1>1
      <3> QED
        BY <1>1, <3>1
    <2>3. run[1] = 1 \/ ~Space(s, run[1] - 1)
      <3>1. (n - b + 1) - 1 = n - b /\ (n - b + 1 = 1 \/ n > b)
        BY <1>1
      <3> QED
        BY <1>1, <3>1
    <2> QED
      BY <1>1, <2>1, <2>2, <2>3 DEF Runs, n
  <1>5. ASSUME NEW r \in Runs(s, TRUE), r \notin Runs(s, FALSE)
        PROVE  b > 0 /\ r = run
    <2>1. /\ r \in (1..n) \X (1..n) /\ r[1] \in 1..n /\ r[2] \in 1..n
          /\ r[1] <= r[2] /\ r[2] = n
          /\ \A i \in r[1]..r[2] : Space(s, i)
          /\ r[1] = 1 \/ ~Space(s, r[1] - 1)
      BY <1>5 DEF Runs, n
    <2>2. b > 0
      <3>1. Space(s, n) /\ n >= 1
        BY <1>1, <2>1
      <3>2. ASSUME b = 0 PROVE FALSE
        <4>1. n > b /\ n - b = n
          BY <1>1, <3>1, <3>2
        <4> QED
          BY <1>1, <3>1, <4>1
      <3> QED
        BY <1>1, <3>2
    <2>3. r[1] > n - b
      <3>1. ASSUME r[1] <= n - b PROVE FALSE
        <4>1. n - b \in r[1]..r[2] /\ n > b
          BY <1>1, <2>1, <2>2, <3>1
        <4> QED
          BY <1>1, <2>1, <4>1
      <3> QED
        BY <1>1, <2>1, <3>1
    <2>4. r[1] <= n - b + 1
      <3>1. ASSUME r[1] > n - b + 1 PROVE FALSE
        <4>1. r[1] - 1 \in 1..n /\ r[1] - 1 > n - b /\ r[1] # 1
          BY <1>1, <2>1, <3>1
        <4> QED
          BY <1>1, <2>1, <4>1
      <3> QED
        BY <1>1, <2>1, <3>1
    <2>5. r[1] = n - b + 1
      BY <1>1, <2>1, <2>3, <2>4
    <2>6. r = <<r[1], r[2]>>
      BY <2>1
    <2> QED
      BY <1>1, <2>1, <2>2, <2>5, <2>6
  <1>6. Runs(s, TRUE) = Runs(s, FALSE) \cup (IF b > 0 THEN {run} ELSE {})
    BY <1>3, <1>4, <1>5, Zenon
  <1> QED
    BY <1>2, <1>6, Zenon DEF b, run

(* Whether a run holds a blank line does not depend on what comes after it. *)
LEMMA BlankAppend ==
    ASSUME NEW s \in Seq(Char), NEW c \in Char, NEW r \in (1..Len(s)) \X (1..Len(s))
    PROVE  Blank(Append(s, c), r) <=> Blank(s, r)
  <1> DEFINE t == Append(s, c)
             n == Len(s)
  <1>1. n \in Nat /\ \A i \in 1..n : t[i] = s[i]
    BY TextGrows
  <1> HIDE DEF t, n
  <1>2. \A i \in r[1]..r[2] : i \in 1..n
    <2>1. r[1] \in 1..n /\ r[2] \in 1..n
      BY DEF n
    <2> QED
      BY <1>1, <2>1
  <1>3. NewlinesOf(t, r) = NewlinesOf(s, r)
    BY <1>1, <1>2 DEF NewlinesOf
  <1> QED
    BY <1>3 DEF Blank, t

(* The runs that hold a blank line are finite in number. *)
LEMMA BlankRunsType ==
    ASSUME NEW s \in Seq(Char), NEW done
    PROVE  IsFiniteSet(BlankRuns(s, done)) /\ Cardinality(BlankRuns(s, done)) \in Nat
  <1>1. IsFiniteSet(1..Len(s))
    BY FS_Interval
  <1>2. IsFiniteSet((1..Len(s)) \X (1..Len(s)))
    BY <1>1, FS_Product
  <1>3. BlankRuns(s, done) \subseteq (1..Len(s)) \X (1..Len(s))
    BY DEF BlankRuns, Runs
  <1>4. IsFiniteSet(BlankRuns(s, done))
    BY <1>2, <1>3, FS_Subset
  <1> QED
    BY <1>4, FS_CardinalityType

(* What one more character makes of them *)
LEMMA BlankRunsAppend ==
    ASSUME NEW s \in Seq(Char), NEW c \in Char
    PROVE  /\ classifyChar(c) = "WHITESPACE" =>
                 BlankRuns(Append(s, c), FALSE) = BlankRuns(s, FALSE)
           /\ classifyChar(c) # "WHITESPACE" =>
                 BlankRuns(Append(s, c), FALSE) = BlankRuns(s, TRUE)
  <1>1. ASSUME NEW done, Runs(Append(s, c), FALSE) = Runs(s, done)
        PROVE  BlankRuns(Append(s, c), FALSE) = BlankRuns(s, done)
    <2>1. \A r \in Runs(s, done) : r \in (1..Len(s)) \X (1..Len(s))
      BY DEF Runs
    <2>2. \A r \in Runs(s, done) : Blank(Append(s, c), r) <=> Blank(s, r)
      BY <2>1, BlankAppend
    <2> QED
      BY <1>1, <2>2, Zenon DEF BlankRuns
  <1> QED
    BY <1>1, RunsAppend, Zenon

(* What the end of the input makes of them *)
LEMMA BlankRunsEnd ==
    ASSUME NEW f \in InputFile, NEW s \in Seq(Char), HoldsEnd(f, s)
    PROVE  /\ ~EndsBlank(f, s) => BlankRuns(s, TRUE) = BlankRuns(s, FALSE)
           /\ EndsBlank(f, s) =>
                 Cardinality(BlankRuns(s, TRUE)) = Cardinality(BlankRuns(s, FALSE)) + 1
  <1> DEFINE run == LastRun(f, s)
  <1>1. /\ Runs(s, TRUE) = Runs(s, FALSE) \cup (IF Held(f) > 0 THEN {run} ELSE {})
        /\ run \notin Runs(s, FALSE)
    BY RunsEnd, Zenon
  <1> HIDE DEF run
  <1>2. BlankRuns(s, TRUE) = IF EndsBlank(f, s) THEN BlankRuns(s, FALSE) \cup {run}
                                                 ELSE BlankRuns(s, FALSE)
    BY <1>1, Zenon DEF BlankRuns, EndsBlank, run
  <1>3. run \notin BlankRuns(s, FALSE)
    BY <1>1, Zenon DEF BlankRuns
  <1>4. Cardinality(BlankRuns(s, FALSE) \cup {run}) = Cardinality(BlankRuns(s, FALSE)) + 1
    BY <1>3, BlankRunsType, FS_AddElement, Zenon
  <1> QED
    BY <1>2, <1>4, Zenon

(* A delimiter after a blank line stays one. *)
LEMMA DelimitedGrows ==
    ASSUME NEW s \in Seq(Char), NEW c \in Char, Delimited(s)
    PROVE  Delimited(Append(s, c))
  <1> DEFINE t == Append(s, c)
             n == Len(s)
  <1>1. /\ n \in Nat /\ Len(t) = n + 1 /\ \A i \in 1..n : t[i] = s[i]
    BY TextGrows
  <1>2. PICK r \in Runs(s, FALSE) :
            Blank(s, r) /\ r[2] < n /\ classifyChar(s[r[2] + 1]) = "DELIMITER"
    BY Zenon DEF Delimited
  <1>3. r \in (1..n) \X (1..n) /\ r[2] \in 1..n
    BY DEF Runs
  <1>4. r \in Runs(t, FALSE)
    <2>1. Runs(s, FALSE) \subseteq Runs(s, TRUE)
      BY DEF Runs
    <2> QED
      BY <2>1, RunsAppend, Zenon
  <1>5. Blank(t, r)
    BY <1>2, <1>3, BlankAppend
  <1> HIDE DEF t, n
  <1>6. r[2] < Len(t) /\ t[r[2] + 1] = s[r[2] + 1]
    <2>1. r[2] + 1 \in 1..n /\ r[2] < n + 1
      BY <1>1, <1>2, <1>3
    <2> QED
      BY <1>1, <2>1
  <1>7. Delimited(t)
    BY <1>2, <1>4, <1>5, <1>6, Zenon DEF Delimited
  <1> QED
    BY <1>7 DEF t

(* A delimiter after whitespace that holds a blank line is one. *)
LEMMA DelimitedHere ==
    ASSUME NEW f \in InputFile, NEW s \in Seq(Char), HoldsEnd(f, s), EndsBlank(f, s),
           NEW c \in Char, classifyChar(c) = "DELIMITER"
    PROVE  Delimited(Append(s, c))
  <1> DEFINE t == Append(s, c)
             n == Len(s)
             run == LastRun(f, s)
  <1>1. n \in Nat /\ Len(t) = n + 1 /\ t[n + 1] = c
    BY TextGrows
  <1>2. run \in Runs(s, TRUE) /\ Blank(s, run)
    BY RunsEnd, Zenon DEF EndsBlank
  <1>3. run \in (1..n) \X (1..n) /\ run[2] = n
    BY <1>2 DEF Runs, LastRun
  <1>4. Blank(t, run)
    BY <1>2, <1>3, BlankAppend
  <1>5. run \in Runs(t, FALSE)
    BY <1>2, RunsAppend, Zenon
  <1> HIDE DEF t, n, run
  <1>6. run[2] < Len(t) /\ classifyChar(t[run[2] + 1]) = "DELIMITER"
    BY <1>1, <1>3
  <1>7. Delimited(t)
    BY <1>4, <1>5, <1>6, Zenon DEF Delimited
  <1> QED
    BY <1>7 DEF t

-----------------------------------------------------------------------------
(* What handleWhitespaceEnd sees                                           *)

(* Sets with at least one element, and with at least two *)
LEMMA AtLeast ==
    ASSUME NEW S, IsFiniteSet(S)
    PROVE  /\ Cardinality(S) >= 1 <=> S # {}
           /\ Cardinality(S) >= 2 <=> \E x, y \in S : x # y
  <1>1. Cardinality(S) \in Nat
    BY FS_CardinalityType
  <1>2. Cardinality(S) = 0 <=> S = {}
    BY FS_EmptySet
  <1>3. Cardinality(S) = 1 <=> \E x : S = {x}
    BY FS_Singleton
  <1>4. (\E x, y \in S : x # y) <=> S # {} /\ ~(\E x : S = {x})
    <2>1. ASSUME S # {}, ~(\E x : S = {x}) PROVE \E x, y \in S : x # y
      <3>1. PICK x \in S : TRUE
        BY <2>1
      <3>2. PICK y \in S : y # x
        BY <2>1, <3>1
      <3> QED
        BY <3>1, <3>2
    <2> QED
      BY <2>1, Zenon
  <1> QED
    BY <1>1, <1>2, <1>3, <1>4

(* The character after firstNewline others is the first newline. *)
LEMMA FirstIsNewline ==
    ASSUME NEW f \in InputFile, NEW text, newlines(f, text) # {}
    PROVE  firstNewline(f, text) + 1 \in newlines(f, text)
  <1> DEFINE n == Len(f.whitespaceBuffer)
             nls == newlines(f, text)
             before == {i \in 1..n : \A j \in 1..i : j \notin nls}
  <1>1. n \in Nat /\ nls \subseteq 1..n
    BY Fields DEF Piece, newlines
  <1>2. PICK m \in nls : \A k \in nls : m <= k
    <2>1. nls \subseteq Nat /\ nls # {}
      BY <1>1
    <2> HIDE DEF nls
    <2>2. PICK m \in nls : \A k \in nls : ~(<<k, m>> \in OpToRel(<, Nat))
      BY <2>1, NatLessThanWellFounded, WFMin, Zenon
    <2>3. ASSUME NEW k \in nls PROVE m <= k
      <3>1. <<k, m>> \in Nat \X Nat
        BY <2>1
      <3>2. ~(k < m)
        BY <2>2, <3>1 DEF OpToRel
      <3> QED
        BY <2>1, <3>2
    <2> QED
      BY <2>3
  <1>3. firstNewline(f, text) = Cardinality(before)
    BY DEF firstNewline
  <1> HIDE DEF nls, n
  <1>4. m \in Nat /\ m >= 1 /\ m <= n
    BY <1>1, <1>2
  <1>5. before = 1..(m - 1)
    <2>1. ASSUME NEW i \in before PROVE i \in 1..(m - 1)
      <3>1. i \in 1..n /\ \A j \in 1..i : j \notin nls
        BY <2>1
      <3>2. ~(m <= i)
        BY <1>2, <1>4, <3>1
      <3> QED
        BY <1>1, <1>4, <3>1, <3>2
    <2>2. ASSUME NEW i \in 1..(m - 1) PROVE i \in before
      <3>1. i \in 1..n
        BY <1>1, <1>4
      <3>2. ASSUME NEW j \in 1..i, j \in nls PROVE FALSE
        <4>1. m <= j
          BY <1>2, <3>2
        <4> QED
          BY <1>4, <4>1
      <3> QED
        BY <3>1, <3>2
    <2> QED
      BY <2>1, <2>2
  <1> HIDE DEF before
  <1>6. Cardinality(1..(m - 1)) = m - 1
    <2>1. m - 1 \in Int
      BY <1>4
    <2>2. Cardinality(1..(m - 1)) = IF 1 > m - 1 THEN 0 ELSE (m - 1) - 1 + 1
      BY <2>1, FS_Interval
    <2> QED
      BY <1>4, <2>2
  <1>7. firstNewline(f, text) + 1 = m
    BY <1>3, <1>4, <1>5, <1>6
  <1> QED
    BY <1>2, <1>7 DEF nls

(* The newlines in whitespaceBuffer are those of the last run of the input. *)
LEMMA NewlinesOfEnd ==
    ASSUME NEW f \in InputFile, NEW s \in Seq(Char), HoldsEnd(f, s),
           NEW text, \A i \in 1..Len(s) : text[i] = s[i]
    PROVE  EndsBlank(f, s) <=>
              IF Len(s) > Held(f) THEN \E x, y \in newlines(f, text) : x # y
                                  ELSE newlines(f, text) # {}
  <1> DEFINE n == Len(s)
             b == Held(f)
             nls == newlines(f, text)
             run == LastRun(f, s)
             M == NewlinesOf(s, run)
  <1>1. /\ n \in Nat /\ b \in Nat /\ b <= n
        /\ run[1] = n - b + 1 /\ run[2] = n
        /\ \A i \in 1..b : f.whitespaceBuffer[i] = n - b + i
    <2>1. b \in Nat
      BY Fields DEF Held, Piece
    <2> QED
      BY <2>1 DEF HoldsEnd, LastRun
  <1>2. \A i : i \in nls <=> i \in 1..b /\ text[f.whitespaceBuffer[i]] = Newline
    BY DEF newlines, Held
  <1>3. \A j : j \in M <=> j \in (n - b + 1)..n /\ s[j] = Newline
    BY <1>1 DEF NewlinesOf
  <1>4. \A i \in 1..n : text[i] = s[i]
    OBVIOUS
  <1>5. IsFiniteSet(M)
    <2>1. IsFiniteSet((n - b + 1)..n)
      <3>1. n - b + 1 \in Int /\ n \in Int
        BY <1>1
      <3> HIDE DEF n, b
      <3> QED
        BY <3>1, FS_Interval
    <2>2. M \subseteq (n - b + 1)..n
      BY <1>3
    <2> HIDE DEF M, n, b
    <2> QED
      BY <2>1, <2>2, FS_Subset, Zenon
  <1>6. EndsBlank(f, s) <=> b > 0 /\ Cardinality(M) >= (IF run[1] = 1 THEN 1 ELSE 2)
    BY DEF EndsBlank, Blank
  <1>7. (n > b \/ b = 0) \/ run[1] = 1
    BY <1>1
  <1> HIDE DEF n, b, nls, run, M
  <1>8. ASSUME NEW i \in nls PROVE n - b + i \in M
    <2>1. i \in 1..b /\ n - b + i \in 1..n /\ n - b + i \in (n - b + 1)..n
      BY <1>1, <1>2
    <2>2. text[n - b + i] = Newline
      BY <1>1, <1>2, <2>1
    <2> QED
      BY <1>3, <1>4, <2>1, <2>2
  <1>9. ASSUME NEW j \in M PROVE j - (n - b) \in nls
    <2>1. j \in (n - b + 1)..n /\ s[j] = Newline
      BY <1>3
    <2>2. j - (n - b) \in 1..b /\ n - b + (j - (n - b)) = j /\ j \in 1..n
      BY <1>1, <2>1
    <2>3. f.whitespaceBuffer[j - (n - b)] = j
      BY <1>1, <2>2
    <2> QED
      BY <1>2, <1>4, <2>1, <2>2, <2>3
  <1>10. M # {} <=> nls # {}
    BY <1>8, <1>9
  <1>11. (\E x, y \in M : x # y) <=> (\E x, y \in nls : x # y)
    <2>1. \A x \in nls : x \in Int
      BY <1>1, <1>2
    <2>2. \A x \in M : x \in Int
      BY <1>1, <1>3
    <2>3. ASSUME NEW x \in nls, NEW y \in nls, x # y PROVE \E u, v \in M : u # v
      <3>1. n - b + x # n - b + y
        BY <1>1, <2>1, <2>3
      <3> QED
        BY <1>8, <3>1
    <2>4. ASSUME NEW x \in M, NEW y \in M, x # y PROVE \E u, v \in nls : u # v
      <3>1. x - (n - b) # y - (n - b)
        BY <1>1, <2>2, <2>4
      <3> QED
        BY <1>9, <3>1
    <2> QED
      BY <2>3, <2>4
  <1>12. b = 0 => nls = {}
    BY <1>1, <1>2
  <1>13. EndsBlank(f, s) <=> IF n > b THEN \E x, y \in nls : x # y ELSE nls # {}
    <2>1. CASE n > b
      <3>1. run[1] # 1
        BY <1>1, <2>1
      <3>2. EndsBlank(f, s) <=> b > 0 /\ \E x, y \in M : x # y
        BY <1>5, <1>6, <3>1, AtLeast
      <3>3. (\E x, y \in nls : x # y) => b > 0
        BY <1>1, <1>12
      <3> QED
        BY <1>11, <2>1, <3>2, <3>3
    <2>2. CASE ~(n > b)
      <3>1. run[1] = 1
        BY <1>1, <2>2
      <3>2. EndsBlank(f, s) <=> b > 0 /\ M # {}
        BY <1>5, <1>6, <3>1, AtLeast
      <3>3. nls # {} => b > 0
        BY <1>1, <1>12
      <3> QED
        BY <1>10, <2>2, <3>2, <3>3
    <2> QED
      BY <2>1, <2>2
  <1> QED
    BY <1>13 DEF n, b, nls

(* handleWhitespaceEnd breaks the whitespace at the end of the input if it *)
(* holds a blank line, and writes it in one piece if it does not.          *)
LEMMA WhitespaceEnds ==
    ASSUME NEW f \in InputFile, NEW s \in Seq(Char), HoldsEnd(f, s),
           NEW text, \A i \in 1..Len(s) : text[i] = s[i]
    PROVE  LET breaks == "paraDelim" \in option /\ EndsBlank(f, s)
           IN  /\ ~breaks /\ (Len(s) > Held(f) => f.tokenWritten) =>
                     handleWhitespaceEnd(f, text) = flushWhitespace(f)
               /\ breaks /\ (Len(s) > Held(f) <=> f.tokenWritten) =>
                     \E m \in 0..Held(f) :
                        handleWhitespaceEnd(f, text) = breakWhitespace(f, m)
  <1> DEFINE first == firstNewline(f, text)
             nls == newlines(f, text)
  <1>1. EndsBlank(f, s) <=> IF Len(s) > Held(f) THEN \E x, y \in nls : x # y ELSE nls # {}
    BY NewlinesOfEnd
  <1>2. nls # {} => first + 1 \in nls
    BY FirstIsNewline
  <1>3. nls # {} => first + 1 \in 0..Held(f)
    <2>1. Held(f) \in Nat
      BY Fields DEF Held, Piece
    <2>2. first \in 0..Held(f) /\ (nls # {} => first < Held(f))
      BY FirstNewline DEF Held
    <2> HIDE DEF first, nls
    <2> QED
      BY <2>1, <2>2
  <1>4. handleWhitespaceEnd(f, text) =
          IF "paraDelim" \in option /\ nls # {} /\ ~f.tokenWritten
          THEN breakWhitespace(f, first)
          ELSE IF "paraDelim" \in option /\ \E i \in nls : i # first + 1
          THEN breakWhitespace(f, first + 1)
          ELSE flushWhitespace(f)
    BY DEF handleWhitespaceEnd
  <1>5. f.tokenWritten \in BOOLEAN
    BY DEF InputFile
  <1>6. first \in 0..Held(f)
    BY FirstNewline DEF Held
  <1> HIDE DEF first, nls
  <1>7. ASSUME ~("paraDelim" \in option /\ EndsBlank(f, s)), Len(s) > Held(f) => f.tokenWritten
        PROVE  handleWhitespaceEnd(f, text) = flushWhitespace(f)
    BY <1>1, <1>2, <1>4, <1>7
  <1>8. ASSUME "paraDelim" \in option, EndsBlank(f, s), Len(s) > Held(f) <=> f.tokenWritten
        PROVE  \E m \in 0..Held(f) : handleWhitespaceEnd(f, text) = breakWhitespace(f, m)
    <2>1. CASE Len(s) > Held(f)
      <3>1. \E i \in nls : i # first + 1
        BY <1>1, <1>8, <2>1
      <3>2. handleWhitespaceEnd(f, text) = breakWhitespace(f, first + 1)
        BY <1>4, <1>8, <2>1, <3>1
      <3> QED
        BY <1>3, <1>6, <3>1, <3>2
    <2>2. CASE ~(Len(s) > Held(f))
      <3>1. handleWhitespaceEnd(f, text) = breakWhitespace(f, first)
        BY <1>1, <1>4, <1>8, <2>2
      <3> QED
        BY <1>6, <3>1
    <2> QED
      BY <2>1, <2>2
  <1> QED
    BY <1>7, <1>8

-----------------------------------------------------------------------------
(* What the calls within a step keep                                       *)

(* The end of a word adds no mark. *)
LEMMA KeptEndOfToken ==
    ASSUME NEW para \in BOOLEAN, NEW f \in InputFile, NEW s, NEW done,
           Kept(para, f, s, done), f.currentWord # <<>>
    PROVE  Kept(para, writeEndOfToken(f), s, done)
  <1>1. Placed(f, Len(s)) => Placed(writeEndOfToken(f), Len(s))
    BY EndOfTokenPlaced
  <1>2. Marks(writeEndOfToken(f)) = Marks(f)
    <2>1. writeEndOfToken(f).tokens = Append(f.tokens, f.currentWord) /\ f.currentWord \in Piece
      BY AfterEndOfToken, Fields, Zenon
    <2> QED
      BY <2>1, MarksAppend
  <1> QED
    BY <1>1, <1>2 DEF Kept, Marked

(* Whitespace in one piece adds none either. *)
LEMMA KeptFlush ==
    ASSUME NEW para \in BOOLEAN, NEW f \in InputFile, NEW s, NEW done,
           Kept(para, f, s, done)
    PROVE  Kept(para, flushWhitespace(f), s, done)
  <1>1. Placed(f, Len(s)) => Placed(flushWhitespace(f), Len(s))
    BY FlushPlaced
  <1>2. Marks(flushWhitespace(f)) = Marks(f)
    BY AfterFlush, Zenon DEF Marks, Empty
  <1> QED
    BY <1>1, <1>2 DEF Kept, Marked

(* No mark is missing at the end of whitespace that holds no blank line. *)
LEMMA KeptWithoutBlank ==
    ASSUME NEW para \in BOOLEAN, NEW f \in InputFile, NEW s \in Seq(Char),
           HoldsEnd(f, s), ~(para /\ EndsBlank(f, s)), Kept(para, f, s, FALSE)
    PROVE  Kept(para, f, s, TRUE)
  <1>1. CASE para
    <2>1. ~EndsBlank(f, s)
      BY <1>1
    <2>2. BlankRuns(s, TRUE) = BlankRuns(s, FALSE)
      BY <2>1, BlankRunsEnd, Zenon
    <2> QED
      BY <2>2, Zenon DEF Kept, Marked
  <1>2. CASE ~para
    BY <1>2 DEF Kept, Marked
  <1> QED
    BY <1>1, <1>2, Zenon

(* A character of whitespace completes no run. *)
LEMMA KeptWhitespaceChar ==
    ASSUME NEW para \in BOOLEAN, NEW f \in InputFile, NEW s \in Seq(Char),
           Kept(para, f, s, FALSE), Ahead(f) = 0, f.currentWord = <<>>,
           NEW c \in Char, classifyChar(c) = "WHITESPACE"
    PROVE  Kept(para, writeWhitespaceChar(f, Len(s) + 1), Append(s, c), FALSE)
  <1> DEFINE g == writeWhitespaceChar(f, Len(s) + 1)
             t == Append(s, c)
  <1>1. Len(s) \in Nat /\ Len(t) = Len(s) + 1
    BY TextGrows
  <1>2. Placed(f, Len(s)) => Placed(g, Len(s) + 1)
    BY <1>1, WhitespaceCharPlaced
  <1>3. Marks(g) = Marks(f)
    <2>1. g.tokens = f.tokens
      BY AfterWhitespaceChar
    <2> HIDE DEF g
    <2> QED
      BY <2>1 DEF Marks, Empty
  <1>4. BlankRuns(t, FALSE) = BlankRuns(s, FALSE)
    BY BlankRunsAppend, Zenon
  <1>5. Delimited(s) => Delimited(t)
    BY DelimitedGrows
  <1> HIDE DEF g, t
  <1>6. Kept(para, g, t, FALSE)
    BY <1>1, <1>2, <1>3, <1>4, <1>5, Zenon DEF Kept, Marked
  <1> QED
    BY <1>6, Zenon DEF g, t

(* A character of a token completes the run before it. *)
LEMMA KeptTokenChar ==
    ASSUME NEW para \in BOOLEAN, NEW f \in InputFile, NEW s \in Seq(Char),
           Kept(para, f, s, TRUE),
           \/ Ahead(f) = 0
           \/ Ahead(f) = 1 /\ f.whitespaceBuffer = <<>>,
           NEW c \in Char, classifyChar(c) # "WHITESPACE"
    PROVE  Kept(para, writeTokenChar(f, Len(s) + 1), Append(s, c), FALSE)
  <1> DEFINE g == writeTokenChar(f, Len(s) + 1)
             t == Append(s, c)
  <1>1. Len(s) \in Nat /\ Len(t) = Len(s) + 1
    BY TextGrows
  <1>2. Placed(f, Len(s)) => Placed(g, Len(s) + 1)
    BY <1>1, TokenCharPlaced
  <1>3. Marks(g) = Marks(f)
    <2>1. g.tokens = f.tokens
      BY AfterTokenChar
    <2> HIDE DEF g
    <2> QED
      BY <2>1 DEF Marks, Empty
  <1>4. BlankRuns(t, FALSE) = BlankRuns(s, TRUE)
    BY BlankRunsAppend, Zenon
  <1>5. Delimited(s) => Delimited(t)
    BY DelimitedGrows
  <1> HIDE DEF g, t
  <1>6. Kept(para, g, t, FALSE)
    BY <1>1, <1>2, <1>3, <1>4, <1>5, Zenon DEF Kept, Marked
  <1> QED
    BY <1>6, Zenon DEF g, t

(* handleWhitespaceEnd adds the mark that the last run calls for. *)
LEMMA KeptWhitespaceEnd ==
    ASSUME NEW f \in InputFile, NEW s \in Seq(Char), HoldsEnd(f, s),
           NEW text, \A i \in 1..Len(s) : text[i] = s[i],
           Kept("paraDelim" \in option, f, s, FALSE),
           Ahead(f) = 0, f.currentWord = <<>>, f.tokenWritten <=> Len(s) > Held(f)
    PROVE  Kept("paraDelim" \in option, handleWhitespaceEnd(f, text), s, TRUE)
  <1> DEFINE para == "paraDelim" \in option
             g == handleWhitespaceEnd(f, text)
  <1>0. para \in BOOLEAN
    OBVIOUS
  <1>1. /\ ~(para /\ EndsBlank(f, s)) => g = flushWhitespace(f)
        /\ para /\ EndsBlank(f, s) => \E m \in 0..Held(f) : g = breakWhitespace(f, m)
    BY WhitespaceEnds, Zenon
  <1>2. Kept(para, f, s, FALSE)
    BY Zenon
  <1> HIDE DEF para, g
  <1>3. CASE ~(para /\ EndsBlank(f, s))
    <2>1. Kept(para, f, s, TRUE)
      BY <1>0, <1>2, <1>3, KeptWithoutBlank, Zenon
    <2>2. Kept(para, flushWhitespace(f), s, TRUE)
      BY <1>0, <2>1, KeptFlush, Zenon
    <2> QED
      BY <1>1, <1>3, <2>2, Zenon DEF para, g
  <1>4. CASE para /\ EndsBlank(f, s)
    <2>1. PICK m \in 0..Held(f) : g = breakWhitespace(f, m)
      BY <1>1, <1>4
    <2>2. Placed(f, Len(s)) => Placed(g, Len(s))
      BY <2>1, BreakPlaced
    <2>3. Marks(g) = Marks(f) + 1
      <3>1. g.tokens = Append(f.tokens, <<>>) /\ <<>> \in Piece
        <4>1. breakWhitespace(f, m).tokens = Append(f.tokens, f.currentWord)
          BY AfterBreak, Zenon
        <4> QED
          BY <2>1, <4>1, PieceFacts
      <3> QED
        BY <3>1, MarksAppend
    <2>4. Cardinality(BlankRuns(s, TRUE)) = Cardinality(BlankRuns(s, FALSE)) + 1
      BY <1>4, BlankRunsEnd, Zenon
    <2>5. Kept(para, g, s, TRUE)
      BY <1>2, <1>4, <2>2, <2>3, <2>4, Zenon DEF Kept, Marked
    <2> QED
      BY <2>5, Zenon DEF para, g
  <1> QED
    BY <1>3, <1>4, Zenon

(* whitespaceBuffer after a character of whitespace *)
LEMMA HoldsSpace ==
    ASSUME NEW f \in InputFile, NEW s \in Seq(Char), HoldsEnd(f, s), NEW g,
           g.whitespaceBuffer = Append(f.whitespaceBuffer, Len(s) + 1),
           NEW c \in Char, classifyChar(c) = "WHITESPACE"
    PROVE  HoldsEnd(g, Append(s, c)) /\ Held(g) = Held(f) + 1 /\ Held(f) \in Nat
  <1> DEFINE n == Len(s)
             b == Held(f)
             t == Append(s, c)
  <1>1. /\ n \in Nat /\ Len(t) = n + 1
        /\ \A i \in 1..n : Space(t, i) <=> Space(s, i)
        /\ Space(t, n + 1)
    BY TextGrows
  <1>2. /\ b \in Nat /\ Held(g) = b + 1
        /\ \A i \in 1..b : g.whitespaceBuffer[i] = f.whitespaceBuffer[i]
        /\ g.whitespaceBuffer[b + 1] = n + 1
    <2>1. f.whitespaceBuffer \in Seq(Nat \ {0})
      BY Fields DEF Piece
    <2> QED
      BY <2>1 DEF Held
  <1>3. /\ b <= n /\ \A i \in 1..b : f.whitespaceBuffer[i] = n - b + i
        /\ \A i \in 1..n : i > n - b => Space(s, i)
        /\ n > b => ~Space(s, n - b)
    BY DEF HoldsEnd
  <1> HIDE DEF n, b, t
  <1>4. \A i \in 1..(b + 1) : g.whitespaceBuffer[i] = (n + 1) - (b + 1) + i
    <2> SUFFICES ASSUME NEW i \in 1..(b + 1)
                 PROVE  g.whitespaceBuffer[i] = (n + 1) - (b + 1) + i
      BY Zenon
    <2>1. (n + 1) - (b + 1) + i = n - b + i
      BY <1>1, <1>2
    <2>2. CASE i = b + 1
      <3>1. n - b + (b + 1) = n + 1
        BY <1>1, <1>2
      <3> QED
        BY <1>2, <2>1, <2>2, <3>1, Zenon
    <2>3. CASE i \in 1..b
      BY <1>2, <1>3, <2>1, <2>3, Zenon
    <2>4. i \in 1..b \/ i = b + 1
      BY <1>2
    <2> QED
      BY <2>2, <2>3, <2>4, Zenon
  <1>5. \A i \in 1..(n + 1) : i > (n + 1) - (b + 1) => Space(t, i)
    <2> SUFFICES ASSUME NEW i \in 1..(n + 1), i > (n + 1) - (b + 1) PROVE Space(t, i)
      OBVIOUS
    <2>1. i = n + 1 \/ (i \in 1..n /\ i > n - b)
      BY <1>1, <1>2
    <2> QED
      BY <1>1, <1>3, <2>1
  <1>6. n + 1 > b + 1 => ~Space(t, (n + 1) - (b + 1))
    <2> SUFFICES ASSUME n + 1 > b + 1 PROVE ~Space(t, (n + 1) - (b + 1))
      OBVIOUS
    <2>1. n > b /\ n - b \in 1..n /\ (n + 1) - (b + 1) = n - b
      BY <1>1, <1>2
    <2> QED
      BY <1>1, <1>3, <2>1
  <1>7. b + 1 <= n + 1
    BY <1>1, <1>2, <1>3
  <1>8. HoldsEnd(g, t)
    BY <1>1, <1>2, <1>4, <1>5, <1>6, <1>7, Zenon DEF HoldsEnd
  <1> QED
    BY <1>2, <1>8 DEF b, t

(* whitespaceBuffer after a character of a token *)
LEMMA HoldsNothing ==
    ASSUME NEW s \in Seq(Char), NEW g, g.whitespaceBuffer = <<>>,
           NEW c \in Char, classifyChar(c) # "WHITESPACE"
    PROVE  HoldsEnd(g, Append(s, c)) /\ Held(g) = 0
  <1> DEFINE n == Len(s)
             t == Append(s, c)
  <1>1. n \in Nat /\ Len(t) = n + 1 /\ ~Space(t, n + 1)
    BY TextGrows
  <1>2. Held(g) = 0
    BY DEF Held
  <1> HIDE DEF n, t
  <1>3. HoldsEnd(g, t)
    BY <1>1, <1>2 DEF HoldsEnd
  <1> QED
    BY <1>2, <1>3 DEF t

-----------------------------------------------------------------------------
(* PlaceInv holds after every step, one step of the proof per action (two  *)
(* actions that do the same to the file share one).                        *)
LEMMA PlaceInductive == IInv /\ PlaceInv /\ [Next]_vars => PlaceInv'
  <1> SUFFICES ASSUME IInv, PlaceInv, [Next]_vars
               PROVE  PlaceInv'
    OBVIOUS
  <1> DEFINE para == "paraDelim" \in option
             n == Len(input)
  <1>0. /\ file \in InputFile /\ input \in Seq(Char) /\ n \in Nat /\ para \in BOOLEAN
        /\ Held(file) \in Nat
    BY Fields DEF IInv, TypeOK, Held, Piece
  <1>1. ASSUME state \in Reading
        PROVE  /\ HoldsEnd(file, input) /\ Kept(para, file, input, FALSE)
               /\ state # "WORD" => (file.tokenWritten <=> n > Held(file))
    BY <1>1, Zenon DEF PlaceInv, SpaceInv
  <1>2. ASSUME state \in {"NONE", "WHITESPACE"}
        PROVE  /\ Ahead(file) = 0 /\ file.currentWord = <<>>
               /\ HoldsEnd(file, input) /\ Kept(para, file, input, FALSE)
               /\ file.tokenWritten <=> n > Held(file)
    BY <1>1, <1>2, Zenon DEF IInv, InStep, CollectsWord, Reading
  <1>3. ASSUME state = "WORD"
        PROVE  /\ Ahead(file) = 1 /\ file.currentWord # <<>> /\ file.whitespaceBuffer = <<>>
               /\ HoldsEnd(file, input) /\ Kept(para, file, input, FALSE)
               /\ Held(file) = 0 /\ ~EndsBlank(file, input)
               /\ Kept(para, file, input, TRUE) /\ n > 0
    <2>1. /\ Ahead(file) = 1 /\ file.currentWord # <<>> /\ file.whitespaceBuffer = <<>>
          /\ HoldsEnd(file, input) /\ Kept(para, file, input, FALSE) /\ input # <<>>
      BY <1>1, <1>3, Zenon DEF IInv, InStep, CollectsWord, Reading
    <2>2. Held(file) = 0 /\ ~EndsBlank(file, input)
      BY <2>1 DEF Held, EndsBlank
    <2>3. Kept(para, file, input, TRUE)
      <3> HIDE DEF para
      <3> QED
        BY <1>0, <2>1, <2>2, KeptWithoutBlank, Zenon
    <2>4. n > 0
      BY <1>0, <2>1, EmptySequence
    <2> QED
      BY <2>1, <2>2, <2>3, <2>4, Zenon
  <1>4. ASSUME NEW c \in Char, NEW category, Get(c, category)
        PROVE  /\ input' = Append(input, c) /\ pos = n + 1 /\ Len(input') = n + 1
               /\ pos \in Nat \ {0} /\ \A i \in 1..n : input'[i] = input[i]
               /\ classifyChar(c) = category /\ option' = option
    <2>1. input' = Append(input, c) /\ classifyChar(c) = category /\ option' = option
      BY <1>4 DEF Get
    <2>2. Len(Append(input, c)) = n + 1 /\ \A i \in 1..n : Append(input, c)[i] = input[i]
      BY <1>0, TextGrows
    <2>3. pos \in Nat \ {0}
      BY <1>4, Reads DEF IInv
    <2> QED
      BY <2>1, <2>2, <2>3 DEF pos
  <1>5. ASSUME state' \in Reading, option' = option,
               HoldsEnd(file', input'), Kept(para, file', input', FALSE),
               state' # "WORD" => (file'.tokenWritten <=> Len(input') > Held(file'))
        PROVE  PlaceInv'
    <2>1. /\ ("paraDelim" \in option)' = para
          /\ state' # "DONE"
      BY <1>5 DEF Reading
    <2>2. "paraDelim" \notin option' \/ ~Delimited(input') => Placed(file', Len(input'))
      BY <1>5, <2>1 DEF Kept
    <2> QED
      BY <1>5, <2>1, <2>2, Zenon DEF PlaceInv, SpaceInv
  <1>6. ASSUME NEW c \in Char, NoneWhitespace(c) \/ WhitespaceWhitespace(c)
        PROVE  PlaceInv'
    <2>1. /\ Get(c, "WHITESPACE") /\ state \in {"NONE", "WHITESPACE"}
          /\ file' = writeWhitespaceChar(file, pos) /\ state' = "WHITESPACE"
      BY <1>6 DEF NoneWhitespace, WhitespaceWhitespace
    <2>2. /\ input' = Append(input, c) /\ pos = n + 1 /\ Len(input') = n + 1
          /\ classifyChar(c) = "WHITESPACE" /\ option' = option
      BY <2>1, <1>4
    <2>3. /\ Ahead(file) = 0 /\ file.currentWord = <<>>
          /\ HoldsEnd(file, input) /\ Kept(para, file, input, FALSE)
          /\ file.tokenWritten <=> n > Held(file)
      BY <2>1, <1>2, Zenon
    <2>4. Kept(para, file', input', FALSE)
      <3> HIDE DEF para
      <3> QED
        BY <1>0, <2>1, <2>2, <2>3, KeptWhitespaceChar, Zenon
    <2>5. /\ file'.whitespaceBuffer = Append(file.whitespaceBuffer, n + 1)
          /\ file'.tokenWritten = file.tokenWritten
      BY <1>0, <2>1, <2>2, AfterWhitespaceChar
    <2>6. HoldsEnd(file', input') /\ Held(file') = Held(file) + 1
      BY <1>0, <2>2, <2>3, <2>5, HoldsSpace
    <2>7. file'.tokenWritten <=> Len(input') > Held(file')
      <3>1. n > Held(file) <=> n + 1 > Held(file) + 1
        BY <1>0
      <3> QED
        BY <2>2, <2>3, <2>5, <2>6, <3>1
    <2> QED
      BY <1>5, <2>1, <2>2, <2>4, <2>6, <2>7 DEF Reading
  <1>7. ASSUME NEW c \in Char, NoneOther(c) \/ WhitespaceOther(c)
        PROVE  PlaceInv'
    <2> DEFINE f1 == handleWhitespaceEnd(file, input')
    <2>1. /\ Get(c, "OTHER") /\ state \in {"NONE", "WHITESPACE"}
          /\ file' = writeTokenChar(f1, pos) /\ state' = "WORD"
      BY <1>7 DEF NoneOther, WhitespaceOther
    <2>2. /\ input' = Append(input, c) /\ pos = n + 1 /\ pos \in Nat \ {0}
          /\ \A i \in 1..n : input'[i] = input[i]
          /\ classifyChar(c) = "OTHER" /\ option' = option
      BY <2>1, <1>4
    <2>3. /\ Ahead(file) = 0 /\ file.currentWord = <<>>
          /\ HoldsEnd(file, input) /\ Kept(para, file, input, FALSE)
          /\ file.tokenWritten <=> n > Held(file)
      BY <2>1, <1>2, Zenon
    <2>4. Kept(para, f1, input, TRUE)
      BY <1>0, <2>2, <2>3, KeptWhitespaceEnd, Zenon
    <2>5. f1 \in InputFile /\ Ahead(f1) = 1 /\ f1.whitespaceBuffer = <<>>
      <3>1. f1 \in InputFile /\ Ahead(f1) = Ahead(file) + 1 /\ f1.whitespaceBuffer = <<>>
        BY <1>0, HandleWhitespaceEnd, Zenon
      <3> HIDE DEF f1
      <3> QED
        BY <2>3, <3>1
    <2> HIDE DEF f1
    <2>6. Kept(para, file', input', FALSE)
      <3> HIDE DEF para
      <3> QED
        BY <1>0, <2>1, <2>2, <2>4, <2>5, KeptTokenChar, Zenon
    <2>7. file'.whitespaceBuffer = <<>>
      BY <2>1, <2>5, AfterTokenChar
    <2>8. HoldsEnd(file', input')
      BY <1>0, <2>2, <2>7, HoldsNothing
    <2> QED
      BY <1>5, <2>1, <2>2, <2>6, <2>8, Zenon DEF Reading
  <1>8. ASSUME NEW c \in Char, NoneDelimiter(c)
        PROVE  PlaceInv'
    <2> DEFINE f1 == handleWhitespaceEnd(file, input')
               f2 == writeTokenChar(f1, pos)
    <2>1. /\ Get(c, "DELIMITER") /\ state \in {"NONE", "WHITESPACE"}
          /\ file' = writeEndOfToken(f2) /\ state' = "WHITESPACE"
      BY <1>8 DEF NoneDelimiter
    <2>2. /\ input' = Append(input, c) /\ pos = n + 1 /\ pos \in Nat \ {0}
          /\ \A i \in 1..n : input'[i] = input[i] /\ Len(input') = n + 1
          /\ classifyChar(c) = "DELIMITER" /\ option' = option
      BY <2>1, <1>4
    <2>3. /\ Ahead(file) = 0 /\ file.currentWord = <<>>
          /\ HoldsEnd(file, input) /\ Kept(para, file, input, FALSE)
          /\ file.tokenWritten <=> n > Held(file)
      BY <2>1, <1>2, Zenon
    <2>4. Kept(para, f1, input, TRUE)
      BY <1>0, <2>2, <2>3, KeptWhitespaceEnd, Zenon
    <2>5. f1 \in InputFile /\ Ahead(f1) = 1 /\ f1.whitespaceBuffer = <<>>
      <3>1. f1 \in InputFile /\ Ahead(f1) = Ahead(file) + 1 /\ f1.whitespaceBuffer = <<>>
        BY <1>0, HandleWhitespaceEnd, Zenon
      <3> HIDE DEF f1
      <3> QED
        BY <2>3, <3>1
    <2> HIDE DEF f1
    <2>6. Kept(para, f2, input', FALSE)
      <3> HIDE DEF para
      <3> QED
        BY <1>0, <2>1, <2>2, <2>4, <2>5, KeptTokenChar, Zenon
    <2>7. f2 \in InputFile /\ f2.currentWord # <<>> /\ f2.whitespaceBuffer = <<>>
      BY <2>2, <2>5, WriteTokenChar, Zenon
    <2> HIDE DEF f2
    <2>8. Kept(para, file', input', FALSE)
      <3> HIDE DEF para
      <3> QED
        BY <1>0, <2>1, <2>6, <2>7, KeptEndOfToken, Zenon
    <2>9. file'.whitespaceBuffer = <<>> /\ file'.tokenWritten = TRUE
      BY <2>1, <2>7, AfterEndOfToken, Zenon
    <2>10. HoldsEnd(file', input') /\ Held(file') = 0
      BY <1>0, <2>2, <2>9, HoldsNothing
    <2>11. Len(input') > Held(file')
      BY <1>0, <2>2, <2>10, <1>4, <2>1
    <2> QED
      BY <1>5, <2>1, <2>2, <2>8, <2>9, <2>10, <2>11 DEF Reading
  <1>9. ASSUME NEW c \in Char, WordWhitespace(c)
        PROVE  PlaceInv'
    <2> DEFINE f1 == writeEndOfToken(file)
    <2>1. /\ Get(c, "WHITESPACE") /\ state = "WORD"
          /\ file' = writeWhitespaceChar(f1, pos) /\ state' = "WHITESPACE"
      BY <1>9 DEF WordWhitespace
    <2>2. /\ input' = Append(input, c) /\ pos = n + 1 /\ Len(input') = n + 1
          /\ classifyChar(c) = "WHITESPACE" /\ option' = option
      BY <2>1, <1>4, Zenon
    <2>3. /\ Ahead(file) = 1 /\ file.currentWord # <<>> /\ file.whitespaceBuffer = <<>>
          /\ HoldsEnd(file, input) /\ Kept(para, file, input, FALSE)
          /\ Held(file) = 0 /\ n > 0
      BY <2>1, <1>3, Zenon
    <2>4. Kept(para, f1, input, FALSE)
      <3> HIDE DEF para
      <3> QED
        BY <1>0, <2>3, KeptEndOfToken, Zenon
    <2>5. /\ f1 \in InputFile /\ Ahead(f1) = 0 /\ f1.currentWord = <<>>
          /\ f1.whitespaceBuffer = file.whitespaceBuffer /\ f1.tokenWritten = TRUE
      <3>1. f1.tokenWritten = TRUE
        BY <1>0, AfterEndOfToken, Zenon
      <3>2. /\ f1 \in InputFile /\ Ahead(f1) = 1 - 1 /\ f1.currentWord = <<>>
            /\ f1.whitespaceBuffer = file.whitespaceBuffer
        BY <1>0, <2>3, WriteEndOfToken, Zenon
      <3> QED
        BY <3>1, <3>2
    <2> HIDE DEF f1
    <2>6. HoldsEnd(f1, input) /\ Held(f1) = 0
      BY <2>3, <2>5, Zenon DEF HoldsEnd, Held
    <2>7. Kept(para, file', input', FALSE)
      <3> HIDE DEF para
      <3> QED
        BY <1>0, <2>1, <2>2, <2>4, <2>5, KeptWhitespaceChar, Zenon
    <2>8. /\ file'.whitespaceBuffer = Append(f1.whitespaceBuffer, n + 1)
          /\ file'.tokenWritten = TRUE
      <3>1. /\ writeWhitespaceChar(f1, pos).whitespaceBuffer = Append(f1.whitespaceBuffer, pos)
            /\ writeWhitespaceChar(f1, pos).tokenWritten = f1.tokenWritten
        BY <2>5, AfterWhitespaceChar
      <3> QED
        BY <2>1, <2>2, <2>5, <3>1, Zenon
    <2>9. HoldsEnd(file', input') /\ Held(file') = 1
      <3>1. HoldsEnd(file', Append(input, c)) /\ Held(file') = Held(f1) + 1
        BY <1>0, <2>2, <2>5, <2>6, <2>8, HoldsSpace, Zenon
      <3> QED
        BY <2>2, <2>6, <3>1
    <2>10. Len(input') > Held(file')
      BY <1>0, <2>2, <2>3, <2>9
    <2> QED
      BY <1>5, <2>1, <2>2, <2>7, <2>8, <2>9, <2>10 DEF Reading
  <1>10. ASSUME NEW c \in Char, WordOther(c)
        PROVE  PlaceInv'
    <2>1. /\ Get(c, "OTHER") /\ state = "WORD"
          /\ file' = writeTokenChar(file, pos) /\ state' = "WORD"
      BY <1>10 DEF WordOther
    <2>2. /\ input' = Append(input, c) /\ pos = n + 1
          /\ classifyChar(c) = "OTHER" /\ option' = option
      BY <2>1, <1>4
    <2>3. /\ Ahead(file) = 1 /\ file.whitespaceBuffer = <<>> /\ Kept(para, file, input, TRUE)
      BY <2>1, <1>3, Zenon
    <2>4. Kept(para, file', input', FALSE)
      <3> HIDE DEF para
      <3> QED
        BY <1>0, <2>1, <2>2, <2>3, KeptTokenChar, Zenon
    <2>5. file'.whitespaceBuffer = <<>>
      BY <1>0, <2>1, <2>3, AfterTokenChar
    <2>6. HoldsEnd(file', input')
      BY <1>0, <2>2, <2>5, HoldsNothing
    <2> QED
      BY <1>5, <2>1, <2>2, <2>4, <2>6 DEF Reading
  <1>11. ASSUME NEW c \in Char, WordDelimiter(c)
        PROVE  PlaceInv'
    <2> DEFINE f1 == writeEndOfToken(file)
               f2 == writeTokenChar(f1, pos)
               f3 == writeEndOfToken(f2)
    <2>1. /\ Get(c, "DELIMITER") /\ state = "WORD"
          /\ file' = handleWhitespaceEnd(f3, input') /\ state' = "WHITESPACE"
      BY <1>11 DEF WordDelimiter
    <2>2. /\ input' = Append(input, c) /\ pos = n + 1 /\ pos \in Nat \ {0}
          /\ Len(input') = n + 1 /\ input' \in Seq(Char)
          /\ classifyChar(c) = "DELIMITER" /\ option' = option
      BY <2>1, <1>0, <1>4, TextGrows
    <2>3. /\ Ahead(file) = 1 /\ file.currentWord # <<>> /\ file.whitespaceBuffer = <<>>
          /\ Kept(para, file, input, TRUE)
      BY <2>1, <1>3, Zenon
    <2>4. Kept(para, f1, input, TRUE)
      <3> HIDE DEF para
      <3> QED
        BY <1>0, <2>3, KeptEndOfToken, Zenon
    <2>5. f1 \in InputFile /\ Ahead(f1) = 0 /\ f1.whitespaceBuffer = <<>>
      BY <1>0, <2>3, WriteEndOfToken
    <2> HIDE DEF f1
    <2>6. Kept(para, f2, input', FALSE)
      <3> HIDE DEF para
      <3> QED
        BY <1>0, <2>2, <2>4, <2>5, KeptTokenChar, Zenon
    <2>7. f2 \in InputFile /\ f2.currentWord # <<>> /\ f2.whitespaceBuffer = <<>>
      BY <2>2, <2>5, WriteTokenChar
    <2> HIDE DEF f2
    <2>8. Kept(para, f3, input', FALSE)
      <3> HIDE DEF para
      <3> QED
        BY <1>0, <2>6, <2>7, KeptEndOfToken, Zenon
    <2>9. /\ f3 \in InputFile /\ f3.whitespaceBuffer = <<>> /\ f3.tokenWritten = TRUE
      BY <2>7, WriteEndOfToken, AfterEndOfToken, Zenon
    <2> HIDE DEF f3
    <2>10. HoldsEnd(f3, input') /\ Held(f3) = 0
      BY <1>0, <2>2, <2>9, HoldsNothing
    <2>11. ~EndsBlank(f3, input')
      BY <2>10 DEF EndsBlank
    <2>12. file' = flushWhitespace(f3)
      BY <2>1, <2>2, <2>9, <2>10, <2>11, WhitespaceEnds, Zenon
    <2>13. Kept(para, file', input', FALSE)
      <3> HIDE DEF para
      <3> QED
        BY <1>0, <2>8, <2>9, <2>12, KeptFlush, Zenon
    <2>14. file'.whitespaceBuffer = <<>> /\ file'.tokenWritten = TRUE
      BY <2>9, <2>12, AfterFlush
    <2>15. HoldsEnd(file', input') /\ Held(file') = 0
      BY <1>0, <2>2, <2>14, HoldsNothing
    <2>16. Len(input') > Held(file')
      BY <1>0, <2>2, <2>15
    <2> QED
      BY <1>5, <2>1, <2>2, <2>13, <2>14, <2>15, <2>16 DEF Reading
  <1>12. ASSUME NEW c \in Char, WhitespaceDelimiter(c)
        PROVE  PlaceInv'
    <2> DEFINE f2 == writeTokenChar(file, pos)
               f3 == writeEndOfToken(f2)
    <2>1. /\ Get(c, "DELIMITER") /\ state \in {"NONE", "WHITESPACE"}
          /\ file' = handleWhitespaceEnd(f3, input') /\ state' = "WHITESPACE"
      BY <1>12 DEF WhitespaceDelimiter
    <2>2. /\ input' = Append(input, c) /\ pos = n + 1 /\ pos \in Nat \ {0}
          /\ Len(input') = n + 1 /\ \A i \in 1..n : input'[i] = input[i]
          /\ classifyChar(c) = "DELIMITER" /\ option' = option
      BY <2>1, <1>4
    <2>3. /\ Ahead(file) = 0 /\ HoldsEnd(file, input) /\ Kept(para, file, input, FALSE)
      BY <2>1, <1>2, Zenon
    <2>4. /\ f2 \in InputFile /\ f2.currentWord # <<>>
          /\ f2.whitespaceBuffer = file.whitespaceBuffer
      BY <1>0, <2>2, WriteTokenChar
    <2>5. /\ f3 \in InputFile /\ f3.whitespaceBuffer = file.whitespaceBuffer
          /\ f3.tokenWritten = TRUE
      <3> HIDE DEF f2
      <3> QED
        BY <2>4, WriteEndOfToken, AfterEndOfToken, Zenon
    <2>6. Kept(para, file', input', FALSE)
      <3>1. CASE para /\ EndsBlank(file, input)
        <4>1. Delimited(input')
          BY <1>0, <2>2, <2>3, <3>1, DelimitedHere
        <4> QED
          BY <3>1, <4>1 DEF Kept
      <3>2. CASE ~(para /\ EndsBlank(file, input))
        <4>1. Kept(para, file, input, TRUE)
          <5> HIDE DEF para
          <5> QED
            BY <1>0, <2>3, <3>2, KeptWithoutBlank, Zenon
        <4>2. Kept(para, f2, input', FALSE)
          <5> HIDE DEF para
          <5> QED
            BY <1>0, <2>2, <2>3, <4>1, KeptTokenChar, Zenon
        <4>3. Kept(para, f3, input', FALSE)
          <5> HIDE DEF para, f2
          <5> QED
            BY <1>0, <2>4, <4>2, KeptEndOfToken, Zenon
        <4> HIDE DEF f3
        <4>4. /\ HoldsEnd(f3, input) /\ ~(para /\ EndsBlank(f3, input))
          BY <2>3, <2>5, <3>2, Zenon DEF HoldsEnd, Held, EndsBlank, LastRun
        <4>5. file' = flushWhitespace(f3)
          BY <1>0, <2>1, <2>2, <2>5, <4>4, WhitespaceEnds, Zenon
        <4> HIDE DEF para
        <4> QED
          BY <1>0, <2>5, <4>3, <4>5, KeptFlush, Zenon
      <3> QED
        BY <3>1, <3>2, Zenon
    <2>7. file'.whitespaceBuffer = <<>> /\ file'.tokenWritten = TRUE
      <3> HIDE DEF f3
      <3>1. \/ file' = flushWhitespace(f3)
            \/ \E m : file' = breakWhitespace(f3, m)
        BY <2>1 DEF handleWhitespaceEnd
      <3> QED
        BY <2>5, <3>1, AfterFlush, AfterBreak, Zenon
    <2>8. HoldsEnd(file', input') /\ Held(file') = 0
      BY <1>0, <2>2, <2>7, HoldsNothing
    <2>9. Len(input') > Held(file')
      BY <1>0, <2>2, <2>8
    <2> QED
      BY <1>5, <2>1, <2>2, <2>6, <2>7, <2>8, <2>9 DEF Reading
  <1>13. CASE EndOfFile
    <2> DEFINE f == handleWhitespaceEnd(file, input)
    <2>1. /\ state \in Reading /\ file' = IF state = "WORD" THEN writeEndOfToken(f) ELSE f
          /\ state' \in Ended /\ option' = option /\ input' = input
      BY <1>13 DEF EndOfFile
    <2>2. Kept(para, file', input, TRUE)
      <3>1. CASE state = "WORD"
        <4>1. /\ file.currentWord # <<>> /\ HoldsEnd(file, input)
              /\ Held(file) = 0 /\ ~EndsBlank(file, input)
              /\ Kept(para, file, input, TRUE) /\ file.whitespaceBuffer = <<>>
          BY <3>1, <1>3, Zenon
        <4>2. Kept(para, f, input, TRUE) /\ f \in InputFile /\ f.currentWord # <<>>
          <5>1. f = flushWhitespace(file)
            <6>1. newlines(file, input) = {}
              BY <4>1 DEF newlines, Held
            <6> QED
              BY <6>1 DEF handleWhitespaceEnd
          <5>2. f \in InputFile /\ f.currentWord = file.currentWord
            BY <1>0, <5>1, FlushWhitespace
          <5>3. Kept(para, flushWhitespace(file), input, TRUE)
            <6> HIDE DEF para
            <6> QED
              BY <1>0, <4>1, KeptFlush, Zenon
          <5> QED
            BY <4>1, <5>1, <5>2, <5>3, Zenon
        <4> HIDE DEF f, para
        <4>3. Kept(para, writeEndOfToken(f), input, TRUE)
          BY <1>0, <4>2, KeptEndOfToken, Zenon
        <4> QED
          BY <2>1, <3>1, <4>3, Zenon
      <3>2. CASE state # "WORD"
        <4>1. state \in {"NONE", "WHITESPACE"}
          BY <2>1, <3>2 DEF Reading
        <4>2. Kept(para, f, input, TRUE)
          BY <1>0, <1>2, <4>1, KeptWhitespaceEnd, Zenon
        <4> HIDE DEF f, para
        <4> QED
          BY <2>1, <3>2, <4>2, Zenon
      <3> QED
        BY <3>1, <3>2, Zenon
    <2> HIDE DEF f
    <2>3. state' \notin Reading
      BY <2>1 DEF Reading, Ended
    <2>4. "paraDelim" \notin option \/ ~Delimited(input) => Placed(file', Len(input))
      BY <2>2 DEF Kept
    <2> QED
      BY <2>1, <2>2, <2>3, <2>4, Zenon DEF PlaceInv, SpaceInv
  <1>14. CASE ReadError
    <2>1. state' = "FATAL" /\ option' = option /\ input' = input /\ file' = file
      BY <1>14 DEF ReadError
    <2>2. state' \notin Reading /\ state' # "DONE"
      BY <2>1 DEF Reading
    <2> QED
      BY <2>1, <2>2, Zenon DEF PlaceInv, SpaceInv
  <1>15. CASE UNCHANGED vars
    BY <1>15, Zenon DEF PlaceInv, SpaceInv, vars
  <1>16. CASE Return
    BY <1>15, <1>16 DEF Return
  <1> QED
    BY <1>6, <1>7, <1>8, <1>9, <1>10, <1>11, <1>12, <1>13, <1>14, <1>15, <1>16
       DEF Next, Read

(* PlaceInv holds before anything is read. *)
LEMMA PlaceInitially == Init => PlaceInv
  <1> SUFFICES ASSUME Init PROVE PlaceInv
    OBVIOUS
  <1>1. /\ input = <<>> /\ state = "NONE" /\ file.tokens = <<>> /\ file.whitespace = <<>>
        /\ file.currentWord = <<>> /\ file.whitespaceBuffer = <<>> /\ file.tokenWritten = FALSE
        /\ Len(input) = 0
    BY DEF Init
  <1>2. FileTokens(file) = <<<<>>>> /\ FileSpaces(file) = <<<<>>>>
    BY <1>1 DEF FileTokens, FileSpaces
  <1>3. Placed(file, 0)
    <2> DEFINE T == <<<<>>>>
    <2>1. DOMAIN T = {1} /\ T[1] = <<>> /\ DOMAIN T[1] = {}
      OBVIOUS
    <2> HIDE DEF T
    <2>2. Positions(T) = {} /\ 1..0 = {}
      BY <2>1 DEF Positions
    <2>3. Ordered(T)
      BY <2>1 DEF Ordered
    <2>4. Crossed(T, T)
      BY <2>1 DEF Crossed, Before
    <2>5. InPlace(T, T, 0)
      BY <2>2, <2>3, <2>4 DEF InPlace
    <2> QED
      BY <1>2, <2>5 DEF Placed, T
  <1>4. Runs(input, FALSE) = {} /\ BlankRuns(input, FALSE) = {}
    BY <1>1 DEF Runs, BlankRuns
  <1>5. Marks(file) = 0 /\ Cardinality(BlankRuns(input, FALSE)) = 0
    <2>1. Empty(file) = {}
      BY <1>1 DEF Empty
    <2> QED
      BY <1>4, <2>1, FS_EmptySet, Zenon DEF Marks
  <1>6. HoldsEnd(file, input) /\ Held(file) = 0
    BY <1>1 DEF HoldsEnd, Held
  <1>7. Kept("paraDelim" \in option, file, input, FALSE)
    BY <1>1, <1>3, <1>5, Zenon DEF Kept, Marked
  <1>8. SpaceInv
    BY <1>1, <1>6 DEF SpaceInv
  <1> QED
    BY <1>1, <1>3, <1>7, <1>8, Zenon DEF PlaceInv

(* PlaceInv is about what the two properties are about. *)
LEMMA PlaceInvMeaning == PlaceInv /\ IInv => ReadsBack /\ ParagraphsMarked
  <1> SUFFICES ASSUME PlaceInv, IInv PROVE ReadsBack /\ ParagraphsMarked
    OBVIOUS
  <1> DEFINE done == state = "DONE"
  <1>1. WhitespaceRuns = Runs(input, done)
    BY DEF WhitespaceRuns, Runs, Space
  <1>2. \A r : HoldsBlankLine(r) <=> Blank(input, r)
    BY DEF HoldsBlankLine, Blank, NewlinesOf
  <1>3. Delimited(input) => DelimiterAfterBlankLine
    <2>1. Runs(input, FALSE) \subseteq Runs(input, done)
      BY DEF Runs
    <2> HIDE DEF done
    <2> QED
      BY <1>1, <1>2, <2>1, Zenon DEF Delimited, DelimiterAfterBlankLine
  <1>4. ReadsBack
    <2>1. Placed(file, Len(input)) => Lossless
      BY DEF Placed, InPlace, FileTokens, FileSpaces, Crossed, Lossless, Tokens, Spaces
    <2> QED
      BY <1>3, <2>1 DEF ReadsBack, PlaceInv
  <1>5. ParagraphsMarked
    <2> SUFFICES ASSUME state # "FATAL", ~DelimiterAfterBlankLine
                 PROVE  Cardinality(ParagraphTokens) =
                           IF "paraDelim" \in option
                           THEN Cardinality({r \in WhitespaceRuns : HoldsBlankLine(r)})
                           ELSE 0
      BY DEF ParagraphsMarked
    <2>1. ~Delimited(input)
      BY <1>3
    <2>2. Cardinality(ParagraphTokens) = Marks(file)
      BY DEF ParagraphTokens, Marks, Empty
    <2>3. CASE state = "DONE"
      <3>1. Runs(input, done) = Runs(input, TRUE)
        BY <2>3 DEF Runs
      <3>2. {r \in WhitespaceRuns : HoldsBlankLine(r)} = BlankRuns(input, TRUE)
        BY <1>1, <1>2, <3>1, Zenon DEF BlankRuns
      <3>3. Marked("paraDelim" \in option, file, input, TRUE)
        BY <2>1, <2>3, Zenon DEF PlaceInv, Kept
      <3> QED
        BY <2>2, <3>2, <3>3, Zenon DEF Marked
    <2>4. CASE state # "DONE"
      <3>1. Runs(input, done) = Runs(input, FALSE)
        BY <2>4 DEF Runs
      <3>2. {r \in WhitespaceRuns : HoldsBlankLine(r)} = BlankRuns(input, FALSE)
        BY <1>1, <1>2, <3>1, Zenon DEF BlankRuns
      <3>3. state \in Reading
        BY <2>4 DEF IInv, TypeOK, Ended
      <3>4. Marked("paraDelim" \in option, file, input, FALSE)
        BY <2>1, <3>3, Zenon DEF PlaceInv, Kept
      <3> QED
        BY <2>2, <3>2, <3>4, Zenon DEF Marked
    <2> QED
      BY <2>3, <2>4
  <1> QED
    BY <1>4, <1>5

(* PlaceInv holds throughout. *)
LEMMA PlaceInvariance == Spec => [](IInv /\ PlaceInv)
  <1>1. Init => PlaceInv
    BY PlaceInitially
  <1>2. IInv /\ PlaceInv /\ [Next]_vars => PlaceInv'
    BY PlaceInductive
  <1> QED
    BY <1>1, <1>2, Invariance, PTL DEF Spec

(* Reading the two files back in turn gives all of the input in its order  *)
(* (unless with -S a delimiter ends whitespace that holds a blank line).   *)
THEOREM NothingLost == Spec => []ReadsBack
  <1>1. PlaceInv /\ IInv => ReadsBack
    BY PlaceInvMeaning
  <1> QED
    BY <1>1, PlaceInvariance, PTL

(* handleWhitespaceEnd marks every run of whitespace that holds a blank    *)
(* line, once, and nothing else (with the same exception).                 *)
THEOREM BlankLinesMarked == Spec => []ParagraphsMarked
  <1>1. PlaceInv /\ IInv => ParagraphsMarked
    BY PlaceInvMeaning
  <1> QED
    BY <1>1, PlaceInvariance, PTL

=============================================================================

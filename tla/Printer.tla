------------------------------ MODULE Printer -------------------------------
(***************************************************************************)
(* Printing the differences (doDiff.c): common words with the whitespace   *)
(* before them, changed words between markers, and the line numbers of     *)
(* both files.  Whitespace and words are read from temporary files, a      *)
(* piece and a token at a time, so a piece can only be looked at once:     *)
(* for a change the pieces are loaded into whitespaceBuffer first.         *)
(*                                                                         *)
(* A text is a sequence over "SP", "NL", "CR" and "W", any other           *)
(* character; the pieces and tokens are picked as they are read.  Colors   *)
(* and overstriking are left out, and so is where addchar sends a          *)
(* character (module ContextBuffer).                                       *)
(***************************************************************************)
EXTENDS Integers, Sequences, FiniteSets, SequencesExt

CONSTANTS
    Texts,             \* sets [whitespace, tokens] of the pieces of a file
    paraDelimMarker,   \* what is printed for an empty token
    MaxWords           \* bound on the number of words printed

VARIABLES
    option,
    text,              \* the element of Texts that is read
    printer,           \* what the static variables of doDiff.c hold
    whitespaceBuffer,  \* per file: << >>, or the piece loaded, in a tuple
    lastWasDelete,
    command,           \* the command of the script that is printed
    todo,              \* the modes printWords is still to be called with
    started,           \* whether printWords has printed its first word
    left,              \* the words that may still be read
    lines,             \* history: the newlines read from each file
    pc                 \* "common", "words", "changed" or "end"

vars == <<option, text, printer, whitespaceBuffer, lastWasDelete, command,
          todo, started, left, lines, pc>>

Newlines(s) == Len(SelectSeq(s, LAMBDA c : c = "NL"))

(* What the options make of needStartStop and needMarkers *)
needStartStop ==
    Cardinality({o \in {"printCommon", "printDeleted", "printAdded"} : option[o]}) >= 2

needMarkers ==
    /\ option.printCommon \/ option.printDeleted \/ option.printAdded
    /\ ~option.printCommon \/ ~(option.printDeleted \/ option.printAdded)

Init ==
    /\ option \in [printCommon : BOOLEAN, printDeleted : BOOLEAN, printAdded : BOOLEAN,
                   repeatMarkers : BOOLEAN, lineNumbers : BOOLEAN, wdiffOutput : BOOLEAN]
    /\ text \in Texts
    /\ printer = [lastWasLinefeed |-> TRUE, lastWasCarriageReturn |-> FALSE,
                  oldLineNumber |-> 1, newLineNumber |-> 1,
                  reader |-> [inside |-> "COMMON", startOfLine |-> TRUE, lost |-> FALSE]]
    /\ whitespaceBuffer = [old |-> << >>, new |-> << >>]
    /\ lastWasDelete = FALSE
    /\ command = "C_ADD"
    /\ todo = << >>
    /\ started = FALSE
    /\ left = MaxWords
    /\ lines = [old |-> 0, new |-> 0]
    /\ pc = "common"

-----------------------------------------------------------------------------
(* Output.  Each operator takes the static variables to those after the    *)
(* call.                                                                   *)

IsCommon(mode) == mode \in {"COMMON", "OLD_COMMON"}

(* mode + COMMON, for ADD and DEL *)
PlusCommon(mode) == IF mode = "ADD" THEN "COMMON" ELSE "OLD_COMMON"

(* History: a reader of the output knows from the markers what is common,  *)
(* added or deleted, and is lost when the markers do not nest, do not fit  *)
(* the text between them, or cross a line that -R says they do not cross,  *)
(* or when a line does not start with its numbers.                         *)
Read(r, item, mode) ==
    LET kind == IF IsCommon(mode) THEN "COMMON" ELSE mode
        fits ==
            CASE item = "start" -> r.inside = "COMMON"
              [] item = "stop" -> r.inside = kind
              [] item \in {"NL", "CR", "number"} ->
                    r.inside = IF option.repeatMarkers THEN "COMMON" ELSE kind
              [] OTHER -> r.inside = kind
    IN [inside |-> CASE item = "start" -> kind
                     [] item = "stop" -> "COMMON"
                     [] OTHER -> r.inside,
        startOfLine |-> item = "NL",
        lost |-> \/ r.lost
                 \/ (needStartStop /\ ~fits)
                 \/ (option.lineNumbers /\ (item = "number") # r.startOfLine)]

Put(p, item, mode) == [p EXCEPT !.reader = Read(@, item, mode)]

doPostLinefeed(p, mode) ==
    LET q == IF option.lineNumbers THEN Put(p, "number", mode) ELSE p
        r == IF needStartStop /\ ~IsCommon(mode) /\ option.repeatMarkers
             THEN Put(q, "start", mode) ELSE q
    IN IF p.lastWasLinefeed THEN [r EXCEPT !.lastWasLinefeed = FALSE] ELSE p

(* Slip: the line feed after a carriage return closes them again. *)
ClosesLine_EachNewline(p, c, mode) ==
    /\ needStartStop
    /\ ~IsCommon(mode)
    /\ option.repeatMarkers
    /\ c \in {"CR", "NL"}

(* Whether the markers are closed before c is printed *)
ClosesLine(p, c, mode) ==
    /\ needStartStop
    /\ ~IsCommon(mode)
    /\ option.repeatMarkers
    /\ c = "CR" \/ (c = "NL" /\ ~p.lastWasCarriageReturn)

PrintChar(p, c, mode) ==
    LET q == doPostLinefeed(p, mode)
        r == IF ClosesLine(q, c, mode) THEN Put(q, "stop", mode) ELSE q
    IN [Put(r, c, mode) EXCEPT !.lastWasLinefeed = (c = "NL"),
                               !.lastWasCarriageReturn = (c = "CR")]

CountLine(p, file, n) ==
    IF file = "old" THEN [p EXCEPT !.oldLineNumber = @ + n]
    ELSE [p EXCEPT !.newLineNumber = @ + n]

handleWhitespaceChar(p, c, print, mode) ==
    CountLine(IF print THEN PrintChar(p, c, mode) ELSE p,
              IF mode \in {"COMMON", "ADD"} THEN "new" ELSE "old",
              Newlines(<<c>>))

handleNextWhitespace(p, piece, print, mode) ==
    FoldLeft(LAMBDA q, c : handleWhitespaceChar(q, c, print, mode), p, piece)

-----------------------------------------------------------------------------
(* What follows the first newline of s *)
AfterNewline(s) ==
    LET at == {k \in DOMAIN s : s[k] = "NL"}
    IN IF at = {} THEN << >>
       ELSE SubSeq(s, 1 + CHOOSE k \in at : \A j \in at : k <= j, Len(s))

(* The piece of A is printed.  At each of its newlines the piece of B is   *)
(* skipped to its next newline, and the rest of it at the end.             *)
handleSynchronizedNextWhitespace(p, old, new, printNew) ==
    LET A == IF printNew THEN "new" ELSE "old"
        B == IF printNew THEN "old" ELSE "new"
        Step(s, c) ==
            LET q == IF option.printCommon THEN PrintChar(s.p, c, "COMMON") ELSE s.p
                skipped == Newlines(s.rest) - Newlines(AfterNewline(s.rest))
            IN IF c # "NL" THEN [s EXCEPT !.p = q]
               ELSE [p |-> CountLine(CountLine(q, A, 1), B, skipped),
                     rest |-> AfterNewline(s.rest)]
        end == FoldLeft(Step, [p |-> p, rest |-> IF printNew THEN old ELSE new],
                        IF printNew THEN new ELSE old)
    IN CountLine(end.p, B, Newlines(end.rest))

handleNextToken(p, token, print, mode) ==
    LET Marker(q, c) == Put(doPostLinefeed(q, mode), c, mode)
        Char(q, c) ==
            LET r == IF print THEN PrintChar(q, c, mode) ELSE q
                n == Newlines(<<c>>)
            IN CASE mode = "COMMON" -> CountLine(CountLine(r, "old", n), "new", n)
                 [] mode = "ADD" -> CountLine(r, "new", n)
                 [] mode = "DEL" -> CountLine(r, "old", n)
                 [] OTHER -> r
    IN IF token = << >> /\ print /\ mode # "COMMON"
       THEN FoldLeft(Marker, p, paraDelimMarker)
       ELSE FoldLeft(Char, p, token)

-----------------------------------------------------------------------------
(* The whitespace that is next in a file, and its newlines if it is read   *)
(* from the file only now                                                  *)
NextWhitespace(file) ==
    IF whitespaceBuffer[file] = << >> THEN text.whitespace
    ELSE {Head(whitespaceBuffer[file])}

NewLines(file, piece) ==
    IF whitespaceBuffer[file] = << >> THEN Newlines(piece) ELSE 0

(* One word of printToCommonWord, or of printEnd *)
printToCommonWord ==
    /\ pc \in {"common", "changed"}
    /\ left > 0
    /\ \E o \in NextWhitespace("old"), n \in NextWhitespace("new"), t \in text.tokens :
          LET p == handleSynchronizedNextWhitespace(printer, o, n, ~lastWasDelete)
              q == handleNextToken(p, t, option.printCommon, "COMMON")
          IN /\ printer' = handleNextToken(q, t, FALSE, "OLD_COMMON")
             /\ lines' = [old |-> lines.old + NewLines("old", o) + Newlines(t),
                          new |-> lines.new + NewLines("new", n) + Newlines(t)]
    /\ lastWasDelete' = FALSE
    /\ left' = left - 1
    /\ pc' = "common"
    /\ UNCHANGED <<option, text, whitespaceBuffer, command, todo, started>>

(* A change that only has words of one file, or is printed as wdiff does,  *)
(* leaves the whitespace in the files.                                     *)
StartPlain ==
    /\ pc = "common"
    /\ command' \in {"C_ADD", "C_DEL", "C_CHANGE"}
    /\ command' = "C_CHANGE" => option.wdiffOutput
    /\ todo' = (IF command' = "C_ADD" THEN << >> ELSE <<"DEL">>)
               \o (IF command' = "C_DEL" THEN << >> ELSE <<"ADD">>)
    /\ left >= Len(todo')
    /\ pc' = "words"
    /\ UNCHANGED <<option, text, printer, whitespaceBuffer, lastWasDelete,
                   started, left, lines>>

(* loadNextWhitespace of the old file finds no newline. *)
LoadOld ==
    /\ pc = "common"
    /\ ~option.wdiffOutput
    /\ left >= 2
    /\ command' = "C_CHANGE"
    /\ \E o \in text.whitespace :
          /\ Newlines(o) = 0
          /\ whitespaceBuffer' = [whitespaceBuffer EXCEPT !.old = <<o>>]
    /\ todo' = <<"DEL", "ADD">>
    /\ pc' = "words"
    /\ UNCHANGED <<option, text, printer, lastWasDelete, started, left, lines>>

(* Slip: the old whitespace stays in its buffer. *)
Separated_KeepOld(o, n) == [old |-> <<o>>, new |-> << <<"SP">> >>]

(* The whitespace of both files has been printed; the old and the new word *)
(* are separated by a space.                                               *)
Separated(o, n) == [old |-> << << >> >>, new |-> << <<"SP">> >>]

(* It finds one, so that of the new file is loaded too.  If that has a     *)
(* newline as well they are printed together; otherwise the new words are  *)
(* printed before the old ones.                                            *)
LoadBoth ==
    /\ pc = "common"
    /\ ~option.wdiffOutput
    /\ left >= 2
    /\ command' = "C_CHANGE"
    /\ \E o, n \in text.whitespace :
          /\ Newlines(o) > 0
          /\ lines' = [old |-> lines.old + Newlines(o), new |-> lines.new + Newlines(n)]
          /\ \/ /\ Newlines(n) > 0
                /\ printer' = handleSynchronizedNextWhitespace(printer, o, n, ~lastWasDelete)
                /\ whitespaceBuffer' = Separated(o, n)
                /\ todo' = <<"DEL", "ADD">>
             \/ /\ Newlines(n) = 0
                /\ whitespaceBuffer' = [old |-> <<o>>, new |-> <<n>>]
                /\ todo' = <<"ADD", "DEL">>
                /\ UNCHANGED printer
    /\ pc' = "words"
    /\ UNCHANGED <<option, text, lastWasDelete, started, left>>

-----------------------------------------------------------------------------
(* printWords, for the mode at the head of todo *)

File(mode) == IF mode = "ADD" THEN "new" ELSE "old"

Prints(mode) == IF mode = "ADD" THEN option.printAdded ELSE option.printDeleted

(* The words that are still needed for the modes after this one *)
Reserved == Len(todo) - 1

(* Slip: whitespaceBufferUsed stays true. *)
BufferRead_StaysUsed(file) == whitespaceBuffer

BufferRead(file) == [whitespaceBuffer EXCEPT ![file] = << >>]

(* A word of the file and the whitespace before it are read. *)
ReadWord(file, w, t) ==
    /\ left > Reserved
    /\ lines' = [lines EXCEPT ![file] = @ + NewLines(file, w) + Newlines(t)]
    /\ whitespaceBuffer' = BufferRead(file)
    /\ left' = left - 1
    /\ started' = TRUE
    /\ UNCHANGED <<option, text, lastWasDelete, command, todo, pc>>

(* The whitespace before the first word is printed as common text. *)
FirstWord ==
    /\ pc = "words"
    /\ ~started
    /\ LET mode == Head(todo)
           print == Prints(mode)
       IN \E w \in NextWhitespace(File(mode)), t \in text.tokens :
            /\ ReadWord(File(mode), w, t)
            /\ LET q == handleNextWhitespace(printer, w, print, PlusCommon(mode))
                   r == IF print THEN doPostLinefeed(q, "COMMON") ELSE q
                   s == IF print /\ needStartStop THEN Put(r, "start", mode) ELSE r
               IN printer' = handleNextToken(s, t, print, mode)

(* handleWord *)
NextWord ==
    /\ pc = "words"
    /\ started
    /\ LET mode == Head(todo)
           print == Prints(mode)
       IN \E w \in NextWhitespace(File(mode)), t \in text.tokens :
            /\ ReadWord(File(mode), w, t)
            /\ printer' = handleNextToken(
                              handleNextWhitespace(printer, w, print, mode),
                              t, print, mode)

(* The line of = signs *)
PutSeparator(p) ==
    [p EXCEPT !.lastWasLinefeed = TRUE, !.reader.startOfLine = TRUE]

(* The whitespace after the words printed last is that of the old file. *)
EndsInDeleted ==
    command = "C_DEL" /\ option.printDeleted /\ ~option.wdiffOutput

(* The words of one file end.  After the last words of a change a          *)
(* separator may be printed.                                               *)
StopWords ==
    /\ pc = "words"
    /\ started
    /\ LET mode == Head(todo)
           last == Len(todo) = 1
           p == IF ~Prints(mode) THEN printer
                ELSE LET q == doPostLinefeed(printer, mode)
                     IN IF needStartStop THEN Put(q, "stop", mode) ELSE q
       IN /\ printer' = IF last /\ needMarkers THEN PutSeparator(p) ELSE p
          /\ lastWasDelete' = (lastWasDelete \/ (last /\ EndsInDeleted))
          /\ pc' = IF last THEN "changed" ELSE "words"
    /\ todo' = Tail(todo)
    /\ started' = FALSE
    /\ UNCHANGED <<option, text, whitespaceBuffer, command, left, lines>>

(* The whitespace after the last words *)
printEnd ==
    /\ pc \in {"common", "changed"}
    /\ \/ /\ ~option.printCommon
          /\ UNCHANGED <<printer, lastWasDelete, lines>>
       \/ /\ option.printCommon
          /\ \E o \in NextWhitespace("old"), n \in NextWhitespace("new") :
                /\ printer' = handleSynchronizedNextWhitespace(printer, o, n, ~lastWasDelete)
                /\ lines' = [old |-> lines.old + NewLines("old", o),
                             new |-> lines.new + NewLines("new", n)]
          /\ lastWasDelete' = FALSE
    /\ pc' = "end"
    /\ UNCHANGED <<option, text, whitespaceBuffer, command, todo, started, left>>

Ended == pc = "end" /\ UNCHANGED vars

Next ==
    \/ printToCommonWord
    \/ StartPlain \/ LoadOld \/ LoadBoth
    \/ FirstWord \/ NextWord \/ StopWords
    \/ printEnd \/ Ended

Spec == Init /\ [][Next]_vars

-----------------------------------------------------------------------------

(* doDiff.c:692: a piece of whitespace is only kept in whitespaceBuffer    *)
(* for words of a change that are still to be printed, so none is left     *)
(* there for the common words after it.                                    *)
WhitespaceUsedUp ==
    \A file \in {"old", "new"} :
        whitespaceBuffer[file] # << >> =>
            \E k \in DOMAIN todo : File(todo[k]) = file /\ ~(started /\ k = 1)

(* doDiff.c:185 "keeping the other file synchronized as far as line        *)
(* numbers are concerned": whatever is printed, skipped, printed together  *)
(* or in reverse order, oldLineNumber and newLineNumber are the lines of   *)
(* the two files that have been reached.                                   *)
LineNumbersCountLines ==
    LET Pending(file) == Newlines(FoldLeft(LAMBDA a, b : a \o b, << >>, whitespaceBuffer[file]))
    IN /\ printer.oldLineNumber + Pending("old") = 1 + lines.old
       /\ printer.newLineNumber + Pending("new") = 1 + lines.new

(* man/dwdiff.1:162 "Repeat the begin and end markers at the start and end *)
(* of line if a change crosses a newline": every changed word is printed   *)
(* between its markers and no common text is, the markers nest, with -R    *)
(* none is open across the end of a line (a line feed, or a carriage       *)
(* return and a line feed), and with -L every line starts with numbers.    *)
MarkersEncloseChanges ==
    /\ ~printer.reader.lost
    /\ ~started => printer.reader.inside = "COMMON"

=============================================================================

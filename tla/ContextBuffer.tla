---------------------------- MODULE ContextBuffer ----------------------------
(***************************************************************************)
(* buffer.c with option.context set (-C): the output is cut down to the    *)
(* lines near a change.  A line that is common so far is kept in a ring of *)
(* contextLines + 1 buffers, because a change may still follow within      *)
(* contextLines lines.                                                     *)
(*                                                                         *)
(* What is written is a unit, identified by its number in the order of the *)
(* calls: a character (addchar), a marker or colour (writeString) or line  *)
(* numbers (printLineNumbers).  Without option.context all three functions *)
(* only pass the unit on.                                                  *)
(***************************************************************************)
EXTENDS Integers, Sequences, FiniteSets, SequencesExt

CONSTANTS
    ContextLines, \* the arguments of -C that are considered
    MaxUnits      \* bound on the number of units written

ASSUME ContextLinesAssumption == ContextLines \subseteq Nat
ASSUME MaxUnitsAssumption == MaxUnits \in Nat

Unit == [newline: BOOLEAN, common: BOOLEAN]

VARIABLES
    contextLines,       \* option.contextLines
    state,              \* PrintState
    bufferIndex,        \* the buffer of the current line
    afterContextLines,  \* lines of context printed since the last change
    contextBuffers,     \* the ring of buffers
    output,             \* what is in option.output
    written             \* history: the units passed to this component

vars == <<contextLines, state, bufferIndex, afterContextLines, contextBuffers,
          output, written>>

PreBuffering == {"PRE_BUFFERING", "PRE_BUFFERING_INITIAL"}
Ring == {"BUFFERING", "BUFFERING_INITIAL"}
Buffering == PreBuffering \cup Ring
Printing == {"PRINTING_CHANGED", "PRINTING_AFTER_CONTEXT"}

Separator == 0
text == [newline |-> FALSE, common |-> TRUE]

-----------------------------------------------------------------------------

(* static PrintState state = PRE_BUFFERING_INITIAL; initContextBuffers     *)
Init ==
    /\ contextLines \in ContextLines
    /\ state = "PRE_BUFFERING_INITIAL"
    /\ bufferIndex = 0
    /\ afterContextLines = 0
    /\ contextBuffers = [i \in 0..contextLines |-> << >>]
    /\ output = << >>
    /\ written = << >>

(* The buffers i..j, one after the other. *)
Buffers(i, j) ==
    FlattenSeq([n \in 1..(j - i + 1) |-> contextBuffers[i + n - 1]])

(* Slip: the ring is printed from its first buffer. *)
Flushed_WrongOrder ==
    (IF state = "BUFFERING" THEN <<Separator>> ELSE << >>)
    \o (IF state \in Buffering THEN Buffers(0, bufferIndex) ELSE << >>)
    \o (IF state \in Ring THEN Buffers(bufferIndex + 1, contextLines)
                          ELSE << >>)

(* What a character that is not common causes to be printed first. *)
Flushed ==
    (IF state = "BUFFERING" THEN <<Separator>> ELSE << >>)
    \o (IF state \in Ring THEN Buffers(bufferIndex + 1, contextLines)
                          ELSE << >>)
    \o (IF state \in Buffering THEN Buffers(0, bufferIndex) ELSE << >>)

contextDone == afterContextLines + 1 = contextLines

(* state after a newline that is written in state st *)
StateAfterNewline(st) ==
    CASE st = "PRINTING_CHANGED" /\ contextLines = 0 -> "PRE_BUFFERING"
      [] st = "PRINTING_CHANGED" /\ contextLines > 0 -> "PRINTING_AFTER_CONTEXT"
      [] st = "PRINTING_AFTER_CONTEXT" /\ contextDone -> "PRE_BUFFERING"
      [] st = "PRE_BUFFERING" /\ bufferIndex = contextLines -> "BUFFERING"
      [] st = "PRE_BUFFERING_INITIAL" /\ bufferIndex = contextLines ->
            "BUFFERING_INITIAL"
      [] OTHER -> st

(* Slip: the ring is one buffer short. *)
IndexAfterNewline_WrapsEarly(st) ==
    CASE st \in Buffering ->
            IF bufferIndex + 1 >= contextLines THEN 0 ELSE bufferIndex + 1
      [] st = "PRINTING_AFTER_CONTEXT" /\ contextDone -> 0
      [] OTHER -> bufferIndex

IndexAfterNewline(st) ==
    CASE st \in Buffering ->
            IF bufferIndex + 1 > contextLines THEN 0 ELSE bufferIndex + 1
      [] st = "PRINTING_AFTER_CONTEXT" /\ contextDone -> 0
      [] OTHER -> bufferIndex

LinesAfterNewline(st) ==
    CASE st = "PRINTING_CHANGED" /\ contextLines > 0 -> 0
      [] st = "PRINTING_AFTER_CONTEXT" -> afterContextLines + 1
      [] OTHER -> afterContextLines

(* unit is written in state st, after prefix. *)
Emit(unit, st, prefix) ==
    LET number == Len(written) + 1
    IN /\ Len(written) < MaxUnits
       /\ UNCHANGED contextLines
       /\ written' = Append(written, unit)
       /\ output' = IF st \in Printing THEN output \o Append(prefix, number)
                                       ELSE output \o prefix
       /\ LET filled == IF st \in Printing THEN contextBuffers
                        ELSE [contextBuffers EXCEPT ![bufferIndex] =
                                 Append(@, number)]
          IN contextBuffers' =
                IF unit.newline
                THEN [filled EXCEPT ![IndexAfterNewline(st)] = << >>]
                ELSE filled

addchar(unit) ==
    LET st == IF unit.common THEN state ELSE "PRINTING_CHANGED"
        prefix == IF unit.common THEN << >> ELSE Flushed
    IN /\ Emit(unit, st, prefix)
       /\ state' = IF unit.newline THEN StateAfterNewline(st) ELSE st
       /\ bufferIndex' = IF unit.newline THEN IndexAfterNewline(st)
                                         ELSE bufferIndex
       /\ afterContextLines' = IF unit.newline THEN LinesAfterNewline(st)
                                               ELSE afterContextLines

(* writeString and printLineNumbers: the text has no newline, and does not *)
(* by itself make a line a changed one.                                    *)
writeString ==
    /\ Emit(text, state, << >>)
    /\ UNCHANGED <<state, bufferIndex, afterContextLines>>

Next == (\E unit \in Unit : addchar(unit)) \/ writeString

Spec == Init /\ [][Next]_vars

-----------------------------------------------------------------------------

(* The line in which unit n was written, and that of the next unit. *)
LineOf(n) == Cardinality({i \in 1..(n - 1) : written[i].newline})
current == LineOf(Len(written) + 1)

ChangedLines ==
    {LineOf(n) : n \in {i \in DOMAIN written : ~written[i].common}}

Near(line) ==
    \E c \in ChangedLines : line - c <= contextLines /\ c - line <= contextLines

(* The units that are near a change, in order, with a separator where some *)
(* lines are left out between two of them.                                 *)
Window ==
    LET shown == SelectSeq([n \in DOMAIN written |-> n],
                           LAMBDA n : Near(LineOf(n)))
        Gap(k) == k > 1 /\ LineOf(shown[k]) > LineOf(shown[k - 1]) + 1
    IN FlattenSeq([k \in DOMAIN shown |->
                      IF Gap(k) THEN <<Separator, shown[k]>> ELSE <<shown[k]>>])

(* -C: after every call the output holds exactly the lines that are within *)
(* contextLines lines of a change, whole and in order, and a line with     *)
(* only -- stands exactly where lines are left out between two blocks.     *)
ShowsContext == output = Window

(* A line that is not shown yet and may still have to be, because a change *)
(* can follow, is whole in the buffer the next change prints it from.      *)
KeepsContext ==
    state \in Buffering =>
        LET kept == (IF state \in Ring
                     THEN Buffers(bufferIndex + 1, contextLines) ELSE << >>)
                    \o Buffers(0, bufferIndex)
        IN kept = SelectSeq([n \in DOMAIN written |-> n],
                            LAMBDA n : /\ ~Near(LineOf(n))
                                       /\ current - LineOf(n) <= contextLines)

=============================================================================

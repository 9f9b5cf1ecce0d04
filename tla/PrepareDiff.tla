----------------------------- MODULE PrepareDiff -----------------------------
(***************************************************************************)
(* prepareAndExecuteDiff (dwdiff.c) reads one file after the other with    *)
(* readFile: the two files of the command line, or with -u the two sides   *)
(* of each hunk that splitDiffInput has written.  Tokenizer is the reading *)
(* of one file, DiffInput the splitting of the unified diff.               *)
(*                                                                         *)
(* The word and the whitespace that are being collected, and tokenWritten, *)
(* are globals shared by all files; only the last is reset by readFile.    *)
(***************************************************************************)
EXTENDS Tokenizer, DiffInput

CONSTANT
    FileMax       \* bound on the length of a file of the command line

VARIABLES
    diffInput,    \* option.diffInput: is the input a unified diff (-u)?
    reading       \* the file readFile reads or has read last, or "none"

prepareVars == <<vars, splitVars, diffInput, reading>>

-----------------------------------------------------------------------------
(* With -u: the text of the temporary file that is read *)

Side == IF reading = "oldFile" THEN OldText ELSE NewText

(* Slip: the marker is left in the text. *)
SideChar_Marker(k) == diff[Side[k]]

(* splitDiffInput has put a space in place of the marker of the line. *)
SideChar(k) == IF Side[k] \in Markers THEN "space" ELSE diff[Side[k]]

(* The characters getNextChar may return now; none at the end of the file. *)
NextChars ==
    IF ~diffInput THEN IF Len(input) < FileMax THEN Char ELSE {}
    ELSE IF Len(input) < Len(Side) THEN {SideChar(Len(input) + 1)} ELSE {}

FileMayEnd == diffInput => Len(input) = Len(Side)

-----------------------------------------------------------------------------

PrepareInit ==
    /\ Init
    /\ \/ /\ diffInput = TRUE
          /\ SplitInit
          /\ reading = "none"
       \/ /\ diffInput = FALSE
          /\ diff = << >> /\ next = 0 /\ mode = "FIRST_HEADER" /\ files = << >>
          /\ oldFile = NULL /\ newFile = NULL /\ out = << >>
          /\ statistics = [oldTotal |-> 0, newTotal |-> 0, oldDiffers |-> 0, newDiffers |-> 0]
          /\ outcome = "RUNNING"
          /\ reading = "oldFile"

(* splitDiffInput takes a character of the unified diff. *)
Split ==
    /\ diffInput /\ reading = "none"
    /\ Copy \/ FirstOfLine \/ RestOfLine \/ Crash
    /\ UNCHANGED <<vars, diffInput, reading>>

(* readFile is called: the files are new, the count is zero. *)
Call(f) ==
    /\ reading' = f
    /\ input' = << >> /\ state' = "NONE" /\ wordCount' = 0
    /\ file' = [file EXCEPT !.tokens = << >>, !.whitespace = << >>, !.tokenWritten = FALSE]
    /\ UNCHANGED <<option, splitVars, diffInput>>

(* A hunk is complete and its sides are compared. *)
ReadOld ==
    /\ diffInput /\ reading = "none"
    /\ HunkComplete /\ NULL \notin {oldFile, newFile}
    /\ Call("oldFile")

ReadNew == reading = "oldFile" /\ state = "DONE" /\ Call("newFile")

(* A step of readFile *)
readFile ==
    /\ reading # "none" /\ state \in Reading
    /\ \/ \E c \in NextChars : Read(c)
       \/ FileMayEnd /\ EndOfFile
       \/ ReadError
    /\ UNCHANGED <<splitVars, diffInput, reading>>

(* VECTOR_FREE, when both files have been read *)
FreeBuffers ==
    /\ file' = [file EXCEPT !.currentWord = << >>, !.whitespaceBuffer = << >>]
    /\ UNCHANGED <<option, input, state, wordCount, diffInput>>

(* Both sides have been read and are compared; the next hunk follows. *)
CompareHunk ==
    /\ diffInput /\ reading = "newFile" /\ state = "DONE"
    /\ EndHunk \/ LastHunk
    /\ reading' = "none"
    /\ FreeBuffers

(* readFile fails in the middle of a unified diff. *)
FatalInHunk ==
    /\ diffInput /\ reading # "none" /\ state = "FATAL"
    /\ Fatal
    /\ UNCHANGED <<vars, diffInput, reading>>

(* Without -u the comparison of the two files follows. *)
PrepareEnded ==
    /\ IF diffInput THEN outcome # "RUNNING"
       ELSE state = "FATAL" \/ (state = "DONE" /\ reading = "newFile")
    /\ UNCHANGED prepareVars

PrepareNext ==
    \/ Split \/ ReadOld \/ readFile \/ ReadNew
    \/ CompareHunk \/ FatalInHunk \/ PrepareEnded

PrepareSpec == PrepareInit /\ [][PrepareNext]_prepareVars

-----------------------------------------------------------------------------
(* dwdiff.c:399-400, 444-451: with -u readFile returns the number of words *)
(* of each side of a hunk, also if one of its lines starts with a          *)
(* delimiter: the space written in place of the marker comes before it.    *)
HunkTotals ==
    diffInput /\ reading # "none" /\ outcome = "RUNNING" /\ state = "DONE" =>
        wordCount = Words(Side)

=============================================================================

------------------------------ MODULE DiffInput ------------------------------
(***************************************************************************)
(* dwdiff -u: splitDiffInput (dwdiff.c) takes a unified diff apart, writes *)
(* the two sides of each hunk to temporary files, lets them be compared as *)
(* any two files are, and copies everything that is not part of a hunk to  *)
(* the output.  The temporary files are those of tempfile.c: six slots,    *)
(* filled in order and emptied together.                                   *)
(*                                                                         *)
(* A character of the text stands for its position in the input, so that   *)
(* it can be followed to the output.  The line marker that is replaced by  *)
(* a space keeps its position.  What the comparison of two texts prints is *)
(* the subject of ContextDiff and Printer; here it is one item of output.  *)
(* Some names begin with Split or Diff because PrepareDiff extends this    *)
(* module together with Tokenizer.                                         *)
(***************************************************************************)
EXTENDS Integers, Sequences, FiniteSetsExt

CONSTANTS
    Inputs       \* unified diffs, as sequences of characters

DiffChar == {"+", "-", "space", "@", "w", "newline"}

ASSUME InputsAssumption == Inputs \subseteq Seq(DiffChar)

VARIABLES
    diff,        \* the unified diff
    next,        \* the number of characters that have been read
    mode,        \* DiffInputMode
    files,       \* the slots of tempfile.c that are in use
    oldFile, newFile, \* the slots splitDiffInput writes to, or NULL
    out,         \* what has been printed: characters and compared hunks
    statistics,  \* the totals, and the words that were not common
    outcome      \* how the program has ended, or "RUNNING"

splitVars == <<diff, next, mode, files, oldFile, newFile, out, statistics,
               outcome>>

NULL == 0

(* sizeof(files) / sizeof(files[0]) *)
Slots == 6

EmptyFile == [text |-> << >>, closed |-> FALSE]

(* putchar: the character is on both sides of the output. *)
Character(p) == [old |-> <<p>>, new |-> <<p>>, compared |-> FALSE]

Hunk(old, new) == [old |-> old, new |-> new, compared |-> TRUE]

(* The positions whose character is the marker of its line *)
Markers == {p \in DOMAIN diff : p = 1 \/ diff[p - 1] = "newline"}

(* The words readFile finds; they are of one character in the model. *)
Words(text) ==
    Cardinality({p \in Range(text) \ Markers : diff[p] \notin {"space", "newline"}})

-----------------------------------------------------------------------------
(* tempfile.c *)

(* tempFile, called n times: the slots that follow those in use. *)
tempFile(slots, n) == slots \o [k \in 1..n |-> EmptyFile]

closeTempFile(slots, f) == [slots EXCEPT ![f].closed = TRUE]

(* Slip: openIndex is not set back. *)
resetTempFiles_Keep(slots) == [k \in DOMAIN slots |-> EmptyFile]

(* Every file is closed and removed, and all slots are free again. *)
resetTempFiles(slots) == << >>

-----------------------------------------------------------------------------
(* splitDiffInput makes its two files in the slots after kept.  mkstemp    *)
(* may fail for either of them; tempFile then returns NULL and uses no     *)
(* slot.                                                                   *)
MakeFiles(kept, slots, old, new) ==
    \E oldMade, newMade \in 0..1 :
        /\ slots = tempFile(kept, oldMade + newMade)
        /\ old = IF oldMade = 1 THEN Len(kept) + 1 ELSE NULL
        /\ new = IF newMade = 1 THEN Len(kept) + oldMade + 1 ELSE NULL

SplitInit ==
    /\ diff \in Inputs
    /\ next = 0
    /\ mode = "FIRST_HEADER"
    /\ MakeFiles(<< >>, files, oldFile, newFile)
    /\ out = << >>
    /\ statistics = [oldTotal |-> 0, newTotal |-> 0,
                     oldDiffers |-> 0, newDiffers |-> 0]
    /\ outcome = "RUNNING"

(* getNextCharSC returns the next character, c. *)
getNextCharSC(c) ==
    /\ outcome = "RUNNING"
    /\ next < Len(diff)
    /\ c = diff[next + 1]
    /\ next' = next + 1

EndOfInput == outcome = "RUNNING" /\ next = Len(diff)

(* The mode when character c of a header or of line counts is printed. *)
Copied(c) == CASE mode = "HEADER" /\ c = "newline" -> "FIRST_HEADER"
               [] mode = "LINE_COUNTS" /\ c = "newline" -> "FIRST"
               [] OTHER -> mode

(* A character outside the hunks is copied to the output.                  *)
Copy ==
    /\ mode \in {"FIRST_HEADER", "HEADER", "LINE_COUNTS"}
    /\ \E c \in DiffChar :
          /\ getNextCharSC(c)
          /\ mode' = IF mode # "FIRST_HEADER" THEN Copied(c)
                     ELSE IF c # "@" THEN "HEADER" ELSE "LINE_COUNTS"
    /\ out' = Append(out, Character(next'))
    /\ UNCHANGED <<diff, files, oldFile, newFile, statistics, outcome>>

-----------------------------------------------------------------------------
(* The lines of a hunk *)

LineMode == [marker \in {"+", "-", "space"} |->
                CASE marker = "+" -> "NEW" [] marker = "-" -> "OLD"
                  [] marker = "space" -> "COMMON"]

(* The files the characters of such a line are written to. *)
Targets(line) ==
    CASE line = "OLD" -> {oldFile}
      [] line = "NEW" -> {newFile}
      [] line = "COMMON" -> {oldFile, newFile}

(* sputc to each of the files *)
Write(targets) ==
    files' = [f \in DOMAIN files |->
                 IF f \in targets
                 THEN [files[f] EXCEPT !.text = Append(@, next')] ELSE files[f]]

(* The marker of the line: a space is written in its place. *)
FirstOfLine ==
    /\ mode = "FIRST"
    /\ \E c \in DOMAIN LineMode :
          /\ getNextCharSC(c)
          /\ NULL \notin Targets(LineMode[c])
          /\ Write(Targets(LineMode[c]))
          /\ mode' = LineMode[c]
    /\ UNCHANGED <<diff, oldFile, newFile, out, statistics, outcome>>

RestOfLine ==
    /\ mode \in {"OLD", "NEW", "COMMON"}
    /\ NULL \notin Targets(mode)
    /\ \E c \in DiffChar :
          /\ getNextCharSC(c)
          /\ mode' = IF c = "newline" THEN "FIRST" ELSE mode
    /\ Write(Targets(mode))
    /\ UNCHANGED <<diff, oldFile, newFile, out, statistics, outcome>>

-----------------------------------------------------------------------------
(* The end of a hunk *)

OldText == files[oldFile].text
NewText == files[newFile].text

(* A hunk is about to be compared. *)
HunkComplete ==
    \/ EndOfInput
    \/ /\ outcome = "RUNNING"
       /\ next < Len(diff)
       /\ mode = "FIRST"
       /\ diff[next + 1] \notin DOMAIN LineMode

(* prepareAndExecuteDiff sets the totals to those of this hunk; doDiff     *)
(* adds the words that are not common to those of the hunks before it.     *)
Counted(common) ==
    [oldTotal |-> Words(OldText), newTotal |-> Words(NewText),
     oldDiffers |-> statistics.oldDiffers + Words(OldText) - common,
     newDiffers |-> statistics.newDiffers + Words(NewText) - common]

(* Both files are closed, read back by name and compared; some of their    *)
(* words are common.                                                       *)
prepareAndExecuteDiff(after) ==
    /\ \E common \in 0..Min({Words(OldText), Words(NewText)}) :
          statistics' = Counted(common)
    /\ out' = Append(out, Hunk(OldText, NewText)) \o after

(* All six files, when readFile has made two for each of the two texts. *)
InUse == tempFile(closeTempFile(closeTempFile(files, oldFile), newFile), 4)

(* ASSERT(openIndex < sizeof(files) / sizeof(files[0])), for readFile and  *)
(* for the files of the next hunk.                                         *)
SlotsLeft ==
    /\ Len(InUse) <= Slots
    /\ next < Len(diff) => Len(resetTempFiles(InUse)) + 2 <= Slots

(* Slip: what doDiff has left in charData is printed. *)
savedChar_Lost == Character(0)

savedChar == Character(next')

(* Any other character at the start of a line ends the hunk: it is         *)
(* compared, the temporary files are removed and new ones are made.        *)
EndHunk ==
    /\ HunkComplete
    /\ NULL \notin {oldFile, newFile}
    /\ SlotsLeft
    /\ \E c \in DiffChar :
          /\ getNextCharSC(c)
          /\ mode' = IF c = "@" THEN "LINE_COUNTS" ELSE "HEADER"
    /\ prepareAndExecuteDiff(<<savedChar>>)
    /\ MakeFiles(resetTempFiles(InUse), files', oldFile', newFile')
    /\ UNCHANGED <<diff, outcome>>

(* The end of the input ends the last hunk, and dwdiff. *)
LastHunk ==
    /\ EndOfInput
    /\ NULL \notin {oldFile, newFile}
    /\ SlotsLeft
    /\ prepareAndExecuteDiff(<< >>)
    /\ files' = resetTempFiles(InUse)
    /\ outcome' = "exit"
    /\ UNCHANGED <<diff, next, mode, oldFile, newFile>>

Ends(how) ==
    /\ outcome' = how
    /\ UNCHANGED <<diff, next, mode, oldFile, newFile, out, statistics>>

(* readFile cannot make one of its files. *)
Fatal ==
    /\ HunkComplete
    /\ NULL \notin {oldFile, newFile}
    /\ files' = resetTempFiles(files)
    /\ Ends("exit 2")

(* The file is used although tempFile has returned NULL. *)
Crash ==
    /\ \/ HunkComplete /\ NULL \in {oldFile, newFile}
       \/ /\ outcome = "RUNNING"
          /\ next < Len(diff)
          /\ \/ /\ mode = "FIRST"
                /\ diff[next + 1] \in DOMAIN LineMode
                /\ NULL \in Targets(LineMode[diff[next + 1]])
             \/ /\ mode \in {"OLD", "NEW", "COMMON"}
                /\ NULL \in Targets(mode)
    /\ UNCHANGED files
    /\ Ends("crash")

SplitEnded == outcome # "RUNNING" /\ UNCHANGED splitVars

SplitNext ==
    \/ Copy \/ FirstOfLine \/ RestOfLine \/ EndHunk \/ LastHunk
    \/ Fatal \/ Crash \/ SplitEnded

SplitSpec == SplitInit /\ [][SplitNext]_splitVars

-----------------------------------------------------------------------------

(* The slots of tempfile.c are enough for every hunk, whatever number of   *)
(* hunks came before it, so the ASSERT in tempFile does not fail; and no   *)
(* temporary file is left when dwdiff exits, also when it exits in the     *)
(* middle because it cannot make another one.                              *)
TempFilesInHand ==
    /\ HunkComplete /\ NULL \notin {oldFile, newFile} => SlotsLeft
    /\ outcome \in {"exit", "exit 2"} => files = << >>

(* The first character of the line that character p is on. *)
MarkerOf(p) ==
    diff[Max({1} \cup {q \in 2..p : diff[q - 1] = "newline"})]

(* What is printed, with the hunk that is still being collected. *)
Pending ==
    IF outcome = "RUNNING" /\ NULL \notin {oldFile, newFile}
    THEN Append(out, Hunk(OldText, NewText)) ELSE out

(* The texts one after the other are in the order of the input. *)
InOrder(texts) ==
    \A j, k \in DOMAIN texts : \A a \in DOMAIN texts[j], b \in DOMAIN texts[k] :
        j < k \/ (j = k /\ a < b) => texts[j][a] < texts[k][b]

(* dwdiff.c:436: every character of the unified diff appears in the output *)
(* in its place, copied or as part of a hunk that is compared.  The old    *)
(* side of a hunk is its lines marked - or with a space, the new side its  *)
(* lines marked + or with a space, and the first line of a hunk follows a  *)
(* line of line counts.                                                    *)
InputInOrder ==
    outcome \in {"RUNNING", "exit"} /\ NULL \notin {oldFile, newFile} =>
        /\ InOrder([k \in DOMAIN Pending |-> Pending[k].old])
        /\ InOrder([k \in DOMAIN Pending |-> Pending[k].new])
        /\ UNION {Range(Pending[k].old \o Pending[k].new) : k \in DOMAIN Pending}
              = 1..next
        /\ \A k \in DOMAIN Pending :
              LET h == Pending[k]
                  all == Range(h.old \o h.new)
              IN h.compared /\ all # {} =>
                    /\ Range(h.old) = {p \in all : MarkerOf(p) \in {"-", "space"}}
                    /\ Range(h.new) = {p \in all : MarkerOf(p) \in {"+", "space"}}
                    /\ Min(all) > 1 /\ MarkerOf(Min(all) - 1) = "@"

(* man/dwdiff.1:72-77: the numbers -s prints include the number of words   *)
(* of each file, of which the deleted and changed words are a part.        *)
TotalsCoverDifferences ==
    outcome = "exit" =>
        /\ statistics.oldDiffers <= statistics.oldTotal
        /\ statistics.newDiffers <= statistics.newTotal

=============================================================================

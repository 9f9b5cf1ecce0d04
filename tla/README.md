# A TLA+ model of dwdiff

dwdiff compares two texts word by word. This directory models the program
`upstream/dwdiff/src` (dwdiff 2.1.4) in TLA+, model-checks the modules with TLC
on small instances, and proves the most important invariants with TLAPS for all
instances. `PROJECT.json` maps every definition to the lines it models and lists
the runs, mutants, findings, hazards and theorems.

## The system

A comparison goes through these parts, in one process and one thread; dwfilter runs
it as a child process:

| part | source | module | state |
|---|---|---|---|
| separating a file into tokens and whitespace | `dwdiff.c` (`readFile`, `handleWhitespaceEnd`) | `Tokenizer`, `PrepareDiff` | modelled |
| giving every different word a number | `hashtable.c` | `HashTable` | modelled |
| comparing two vectors of numbers | `diff/diffseq.h` (`compareseq`, `diag`) | `Alignment`, `CompareSeq`, `CompareAlignment` | modelled |
| discarding lines, moving changes, edit script | `diff/analyze.c` (`diff_2_files`) | `EditScript` | modelled |
| context words, recursion, statistics, exit status | `doDiff.c` (`doDiff`, `doDiffInternal`) | `ContextDiff` | modelled |
| printing words, whitespace, markers, line numbers | `doDiff.c` (lines 81-533, 685-728) | `Printer` | partly |
| cutting the output down to context lines (`-C`) | `buffer.c` | `ContextBuffer` | modelled |
| unified diffs as input (`-u`) | `dwdiff.c` (`splitDiffInput`, `prepareAndExecuteDiff`) | `DiffInput`, `PrepareDiff` | modelled |
| temporary files | `tempfile.c` | `DiffInput` | modelled |
| buffered files, streams, reading ahead | `file.c`, `stream.c`, `unicode.c` | `BufferedFile` | modelled |
| encoding, decoding, surrogates, clusters | `unicode.c` | `Utf8`, `BufferedFile` | partly |
| options, character sets, defaults | `option.c` | `Options` | partly |
| profiles | `profile.c` | `Options` | modelled |
| dwfilter | `dwfilter.c` | `Dwfilter` | modelled |
| utilities, vectors, dispatch | `util.c`, `vector.h`, `dispatch*.h` | | not modelled |
| ICU, translations, build and fuzz scripts | `upstream/icu`, `po`, `scripts`, `fuzz` | | not modelled |

`readFile` writes the tokens and the whitespace of each file to two temporary
files and hands each word to the hash table, so the comparison sees two vectors
of numbers. `doDiff` has them compared (with `-m`, as contexts of several words,
numbered by the hash table again), cuts the edit script down, and reads the
temporary files back to print. Everything printed passes through `buffer.c`. With
`-u` all of this happens once for each hunk, with the temporary files, `charData`,
the statistics and the line numbers shared by the hunks.

Parts that interact are composed: `EditScript` extends `HashTable`, `BufferedFile` extends
`Utf8`, `Dwfilter` extends `Options`, and `PrepareDiff` extends `Tokenizer` and `DiffInput`.
Where that would be too large, a module abstracts the parts it calls by what their modules
establish: `CompareSeq` is shown to implement `Alignment`, `EditScript` lets `compareseq`
return any correct pairing, `ContextDiff` lets `diff_2_files` return any correct edit script
(the shortest ones with `-A best`), `DiffInput` sees a comparison as one item of output,
`Printer` reads any pieces and tokens, in step as `Tokenizer` writes them, under the
settings `SettingsConsistent` says the options lead to, and `Dwfilter` sees a comparison as
one step.

## Modules and code

Definitions keep the names of the code where they can. A `MC...` module fixes the
inputs of a run. A definition called `X_Something` with the comment *Slip* is a
mistake that could be made in `X`; the specification never uses it. It is there to
be put in the place of `X`, and then the run must fail.

**Tokenizer.** `state` is the variable of `readFile`. There is one action for each
state and category of character (`NoneWhitespace`, ..., `WhitespaceOther`), one for the
end of the file and one for a failed read. A character is its position in the
input, so a piece of a file shows where its characters came from.

**Alignment, CompareSeq.** The recursion of `compareseq` is a stack of calls, `diag`
takes a step for the forward pass, one for the backward pass and one for the
heuristics of each cost. `Alignment` is the promise made in the comment of `diag`:
a call may be split at any point. `CompareAlignment` is the refinement mapping: its
`pending` is the set of the nonempty calls on the stack.

**HashTable, EditScript.** `getValue` finds or adds a word, `getHashMax` ends a generation. A
bucket is a set, since a word is at most once in the list. `EditScript` starts with the
words of both files being numbered, the range to compare possibly starting after other
words, and goes on with the phases of `diff_2_files`: marking and discarding, comparing,
one action per loop step of `shift_boundaries` (`Scan` to the end of a run, moving it
back and forth, settling), and `build_script`.

**ContextDiff.** `stack` holds the calls of `doDiffInternal` that have not returned,
with their range, context and remaining script. One action for each branch of the
loop: cut down, recurse, aggregate, print.

**Printer.** `printer` holds the static variables of `doDiff.c` and, as history, how
a reader of the output understands the markers (`reader`). The whitespace loaded for
a change is in `whitespaceBuffer`; pieces and tokens are picked when they are read.

**ContextBuffer.** The state of `buffer.c` under its own names and, as history, the
units written so far.

**DiffInput.** `mode` is that of `splitDiffInput`, `files` the six slots of
`tempfile.c`. Creating a temporary file may fail at each of the calls.

**PrepareDiff.** The two calls of `readFile` in `prepareAndExecuteDiff`, on any two files or on the
two sides of each hunk that `DiffInput` has collected. The token and whitespace files are new for
each call, but the buffers in front of them are globals: only `tokenWritten` is reset at the start
of `readFile`, and the others are freed when both files have been read. So here the
second file is read with what the first one has left.

**Utf8.** The functions of `unicode.c` that do not read or write: the parts of `getuc`,
`convertToUTF8`, surrogates, and the two tables that say which characters continue a
cluster. Bytes, code units and characters are numbers, as in the code.

**BufferedFile.** What happens to a text on its way through the program's files, in single
bytes or in UTF-8: it may first be written to the file of a side of a hunk, closed and
opened again; it is read and decoded (`getByte`, or `getuc`, `getucFiltered` and
`getClusterInternal`), written to the token file, which is flushed and rewound, and read
back word by word by `handleNextToken`. Every read or write may fail; the loops over short
and interrupted transfers are part of a step. The categories of the characters, which ICU
knows, are a constant.

**Options.** `parseCmdLine` argument by argument and line by line: `preParseArgs`,
`loadProfile`, the options of the profile, the arguments again, the checks and defaults.
`phase` says how far it has got. An argument is the name of an option and a value.

**Dwfilter.** `main` and `child` are the two processes. The child is a copy of dwfilter until
it executes a program; as dwdiff it takes the steps of `Options`. `Faults` says which
system calls may fail and whether children may be killed. When `readFile` fails dwdiff ends
before it has printed anything (`ReadFileFails`). When a temporary file cannot be read back it ends
with an incomplete output and any status, or stays in `printEnd` for ever (`ReadingBackFails`,
`printEndLoops`). `seen` is what the post processor finds in its two files; for the file dwdiff has
written that is which parts of the text it holds and what the options have put in besides
(`Reformatted`). The same module runs dwdiff alone (`main` is `"shell"`).

## What the runs check

Passing runs (the numbers of states are distinct states):

| run | properties | instance and why it is enough |
|---|---|---|
| `prepare_diff` | `TypeOK` `PiecesInStep` `ParagraphsMarked` `ReadsBack` `HunkTotals` `TempFilesInHand` `InputInOrder` | two files of up to 6 characters of four kinds, with and without `-S`: long enough for whitespace with two newlines between two tokens, at the start and at the end; and all unified diffs of up to 4 lines of six kinds, with and without the last newline: two hunks in a row, and hunks at the end; 427,212 |
| `compareseq` | `TypeOK` `DiagonalsReady` `FindsMinimal` `CorrectDiff` `ImplementsAlignment` `RecursionDescends` | all pairs of vectors of up to 4 elements of 3 kinds; the limits of the heuristics (20, 200, 12, 256 in the code) are scaled down to 1, 0, 1 and 2, so both heuristics and the giving up happen; `CorrectDiff` is that of `Alignment`; 126,305 |
| `edit_script` | `TypeOK` `KeepsDiffCorrect` `InStep` `ScriptIsCorrect` `DiscardsInsideRuns` `SameNumberSameWord` `NumbersBelowHashMax` `Terminates` | all pairs of files of up to 4 lines of 2 kinds with every correct pairing, and every run of 7 lines that match nothing, one or many; the limits 5, 3 and 8 of `discard_confusing_lines` are scaled down to 1, 2 and 3, so that a run of 7 reaches all of them; 5 words in 2 buckets and 4 numbers, so that chains have two words and the numbers run out; 318,921 |
| `context_diff` | `AssertionsHold` `EveryWordOnce` `StatisticsAddUp` `ExitStatus` `RecursionDescends` | all files of up to 5 words of 2 kinds, contexts of 2 and 4 words, with and without `--aggregate-changes`, shortest and arbitrary correct scripts: 5 words are longer than the context, so changes are cut down and compared again; 1,021,290 |
| `context_buffer` | `ShowsContext` `KeepsContext` | `-C0`, `-C1`, `-C2` and 9 units of output: the ring of three buffers wraps around (output may end at any point, so deadlock is not checked); 1,048,575 |
| `printer` | `WhitespaceUsedUp` `LineNumbersCountLines` `MarkersEncloseChanges` | 4 words, all combinations of `-1 -2 -3 -R -L --wdiff-output`, pieces with no, one and two newlines and with CR LF: a change with both kinds of words, a common word and another change; 222,912 |
| `streams` | `TypeOK` `InputDecoded` `ReadsBack` `ReadingEnds` | a buffer of 3 bytes; in UTF-8 all texts of up to 3 of 14 pieces: characters of one to four bytes, accents, signs that join the next character, the escaped characters 0 and 1, parts of characters, halves of surrogate pairs, too long and too large ones; in single bytes up to 4 of 5: characters and clusters lie across the end of a buffer, and files end before, at and after it; 320,580 |
| `dwfilter` | `CommandLineWins` `SettingsConsistent` `PostProcessorSees` `TempFileThere` `EventuallyDone` | dwdiff with every sequence of up to 3 of 8 options that print, of 6 that classify characters, and with single others and all lists of files; dwfilter with up to 2 of 8 options; `.dwdiffrc` missing, unreadable, with two profiles, one of them in two parts, or with options that dwdiff ignores for dwfilter; every fault at every point: three options are all of `-1 -2 -3` in any order, or two and the profile; 282,070 |

What they show, beyond their types: no piece of a file is lost or moved when it is
split; equal numbers are equal words; the comparison is correct whatever its
heuristics do, and the shortest with `-A best`; discarding and moving changes keep it
correct and end; cutting changes down to less context prints each word once, and the
numbers of deleted, added and changed words and the exit status agree with what is printed (the
totals of `-s` are counted by `readFile`, see the findings); the ring of `-C` shows
exactly the lines near a change; the line numbers are exact and the markers enclose
exactly the changes; a unified diff is taken apart without a loss, and the words of
each hunk are counted; valid UTF-8 is decoded whatever is around it, but for U+10000 and the
characters from U+1D800 to U+1DFFF, and temporary files read back as they were written; the settings
depend on which options are given where, as the manual says, and not on their order; the
post processor of dwfilter gets the promised texts if dwdiff succeeds, whatever parts, colours or
markers a profile asks for, and the temporary file
exists for exactly as long as it is needed.

Runs that fail, each with a finding:

* `tokenizer_count` (`CountedWords`): a delimiter that is the first character of a file is a token
  but is not counted, so `-s` gives the file one word too few (`dwdiff.c:315`). With `-u` it does not
  happen, because the text of a hunk starts with a space (`HunkTotals`).
* `tokenizer_para_order` (`Lossless`): with `-S`, a delimiter that follows a blank line
  is stored before the mark of the blank line, so the files no longer read back as the
  input (`dwdiff.c:347-352`).
* `diff_input_totals` (`TotalsCoverDifferences`): with `-u -s`, the totals are those of
  the last hunk and the differences those of all hunks; percentages exceed 100%
  (`dwdiff.c:399`).
* `dwfilter_status` (`FilterGetsBoth`): after an error dwdiff exits with status 2, and dwfilter
  only stops for a status above 2, so that the post processor is run on an empty or incomplete
  file (`dwfilter.c:206`).

`PostProcessorSees` of `Dwfilter` excludes failures of dwdiff, and two more cases in which the
post processor does not see what `dwfilter.1` promises: the file that is not reformatted comes
from standard input, which dwdiff has read to its end when the post processor gets the dash
(`dwfilter.c:218`); and the profile has `line-numbers`, which dwdiff does not ignore for
dwfilter as it does the other options that change the text (`option.c:702`). With `-C` the user
asks for less than the text.

`ReadsBack` and `ParagraphsMarked` of `Tokenizer` exclude exactly the case of
`tokenizer_para_order`.

### Fairness

The program is sequential and runs until it ends, so a step that can be taken is taken:
`EditScript` assumes weak fairness of its next step for `Terminates`. `BufferedFile`
assumes it for reading without an error: a read of a local temporary file returns. A
failing read is not forced to happen, and after one `printEnd` really does not end, which
`ReadingEnds` excludes. `Dwfilter` assumes weak fairness of the steps of both
processes together: only one of them can move at a time, each runs until it ends, and a
post processor that waits for its user for ever is left out. Nobody is assumed to kill a child:
after a failing read of a temporary file dwdiff may stay in `printEnd` and dwfilter wait for it for
ever, and `EventuallyDone` says that this is the only way in which a call does not end. The
recursion of `compareseq` and `doDiffInternal` is shown to end without fairness, by a measure that
each call decreases (`RecursionDescends`).

## What is proved

TLAPS proves, for all values of the constants that satisfy the named assumptions:

* `TokenizerProofs`: `TypeCorrect`, `FilesStayInStep` (`PiecesInStep`), `CountsWords`,
  `NothingLost` (`ReadsBack`) and `BlankLinesMarked` (`ParagraphsMarked`), from
  `OptionAssumption` (the sets of characters are sets of characters). `CountsWords` is
  `CountedWords` for every file that does not start with a delimiter, so `tokenizer_count` shows the
  only way in which the count is wrong. These theorems are about one file, read with empty buffers;
  that every file is read so is what `prepare_diff` checks.
  The inductive invariant `IInv` adds to the type that in each state the files hold the
  right number of pieces, that a word is being collected exactly in state `WORD`, and that
  the count is the number of tokens with text less a leading delimiter. Lemmas say
  what each helper (`writeTokenChar`, `writeEndOfToken`, `handleWhitespaceEnd`, ...) does to the
  pieces and to the count; the step has one case for each action.
  The last two theorems need `PlaceInv` as well: `whitespaceBuffer` is all of the whitespace at the
  end of the input and nothing else (`HoldsEnd`), and between words `tokenWritten` says
  whether anything came before it. From that follows that `handleWhitespaceEnd` breaks the
  whitespace exactly when the last run of the input holds a blank line (`WhitespaceEnds`), so
  the marks are as many as the runs with a blank line (`Marked`). The characters stay in
  their places (`Placed`) because whitespace is only broken when no token comes after it; the
  one exception is the delimiter that readFile writes before it looks at the whitespace, and
  that is the one the properties name.
* `AlignmentProofs`: `TypeCorrect`, `NeverCrosses` (`Chain`) and
  `PartitionsCannotCauseIncorrectDiff` (`CorrectDiff`), from `VectorAssumption`. `CorrectDiff`
  only speaks of the end, so `IInv` follows the calls: rectangles and pairs form a chain, every
  index is noted, matched or in a rectangle (`Accounted`), only one of them (`Exclusive`), and
  matched elements are equal (`MatchedEqual`). One lemma for each of the steps: passing over
  equal ends, noting one side, splitting.
* `DiagProofs`, `CompareSeqProofs`: `CompareseqImplementsAlignment` (`ImplementsAlignment`),
  `CompareseqIsCorrect` (`CorrectDiff`), `EntriesAreReady` (`DiagonalsReady`) and
  `CompareseqTypeCorrect` (`TypeOK`), for all vectors and all limits of the heuristics, from
  `CompareAssumption`: the vectors are shorter than `OFFSET_MAX`, as `diffseq.h` asks of the type
  `OFFSET` ("a signed integer type sufficient to hold the difference between two indices"). See
  below for the argument.
* `HashTableProofs`: `TypeCorrect`, `NumbersStandForWords` (`SameNumberSameWord`) and
  `HashMaxBoundsNumbers` (`NumbersBelowHashMax`), from `HashAssumption` (any function from words
  to buckets) and `ValueMaxAssumption`. `IInv` adds that the table holds exactly what was given
  out, each word in its bucket, and the numbers below `nextValue`, all of them.

* `Utf8Proofs`: `DecodesWhatIsEncoded` (the bytes `convertToUTF8` writes for a character are
  decoded to it), `EncodesWhatIsDecoded` (the other way round) and `SurrogatesInPairs` (the code
  units of a character are put together again), for all characters of Unicode except
  the three in `AtLimit`: the code compares with `>` where it needs `>=` (`unicode.c:167`), so
  U+0080, U+0800 and U+10000 are encoded one byte too short. The lemmas follow the
  decoder: what the lead byte says, that no valid sequence is rejected, and what the
  shifted bits add up to for each length.
* `DiffInputProofs`: `SlotsSuffice` (`TempFilesInHand`) and `EveryCharacterInPlace`
  (`InputInOrder`), for unified diffs with any number of lines and hunks. For the first the
  inductive invariant is that between two hunks at most two slots are in
  use, with lemmas on what making, closing and writing a temporary file does to the slots.
  For the second it is `PlaceInv`: for some `m` the output has the first `m` characters
  (`Good`) and the two texts of the hunk have the others (`Collected`), and `mode` says what
  the marker of the line being read is and that the hunk follows a line of line counts
  (`InLine`). Without the latter a hunk could collect a line of the wrong kind unnoticed
  until it is printed. One lemma for each step: a character is copied, goes to the texts of
  its line, ends the hunk.
* `DwfilterProofs`: `TempFileIsThere` (`TempFileThere`), for all calls, profiles and faults. The
  inductive invariant says where the child can be for each place of `main`, and that after
  dwdiff the file can only be missing if dwdiff could not be executed, in which case the
  status is 127 and dwfilter does not go on.

`SameNumberSameWord` and `NumbersBelowHashMax` are also checked by `edit_script`, on the
composed modules.

### Why diag stays in its rectangle

The abstract comparison may split a rectangle at any of its points, so `compareseq` is correct
if `diag` returns points of the rectangle. That is not obvious, because the entries of `fdiag`
and `bdiag` can lie outside it: when a search comes to the end of a vector, the next pass goes
on beyond it, and the limits `fmin`, `fmax`, `bmin`, `bmax` only close in step by step.

The inductive invariant `IInv` (in `CompareSeqProofs`) has two parts: the calls on the stack are
rectangles of the vectors, each before the next (`CallsOK`); and during a search its variables
satisfy `BeforeForward` or `BeforeBackward`, depending on which pass is next. These two predicates
(in `DiagProofs`) say

* that the limits are around the middle diagonal, inside the rectangle's diagonals and of the same
  parity, and that the arrays are inside the allocation (`Limits`, `Allocated`);
* that an entry of `fdiag` is not before the start, and that one beyond an edge has a neighbour
  towards the corner that is at most one step behind it (`Reached`, and `ReachedBack` for `bdiag`);
* that entries on diagonals of the other search are inside the rectangle (`Inside`), or at most
  on its edge if the diagonals are next to each other (`Near`). The parity of the difference of
  the middle diagonals says which of them holds, and which pass can meet the other.

A pass extends an entry from a neighbour, which is `Near`, so the point where the searches meet is
inside. If they do not meet, the new entries on diagonals of the other search are smaller than
its entries, so they are `Inside`. Then the limits of the other search move by one: an entry
beyond an edge would have a neighbour on a diagonal where it was inside, so they are `Near`
again. The point after a big snake is checked by the code, and the points it takes when it gives
up are cut off at the edges.

The refinement is then proved step by step: `Slide`, `Note` and the four ways out of `diag` are
steps of `Alignment`, all others leave its variables unchanged. `CompareseqIsCorrect` is
`PartitionsCannotCauseIncorrectDiff` through this refinement.

### Only model-checked

* Liveness (`Terminates`, `ReadingEnds`, `EventuallyDone`) is out of the reach of the prover.
* What recursive definitions compute needs induction over data: the longest common subsequence
  of `FindsMinimal`, and `BufferedFile`, whose decoder and reader are recursive operators. The
  same holds for what `SelectSeq` and sorted sequences hold: `CommandLineWins`,
  `SettingsConsistent` and `PostProcessorSees`.
* `RecursionDescends` of `CompareSeq`: that neither part of a split is the whole rectangle needs
  that the point where the searches meet is on a shortest path.
* `HunkTotals` of `PrepareDiff`, and the properties of `EditScript`, `ContextDiff`, `ContextBuffer` and
  `Printer`.

## Abstractions to know of

* Characters, words and contexts are positions, model values or small numbers. Colors,
  overstriking and the layout of numbers are left out.
* `Printer` reads carriage returns only before line feeds: for a lone one within a change
  the code writes a stop marker and no start marker (`doDiff.c:122`). Paragraph markers hold
  no newline: the code does not note a newline in them (`doDiff.c:317`). The escapes for the
  bytes 0 and 1 are left out; `PROJECT.json` lists what can go wrong there.
* A character of the range U+1D800 to U+1DFFF looks like a surrogate to
  `getucFiltered` (`unicode.c:135`, the mask leaves out the higher bits); `BufferedFile` follows the
  code, but none of these characters is in the texts of the run, and neither are U+0080, U+0800
  and U+10000: `InputDecoded` and `ReadsBack` would not hold for them.
* The categories of characters are those of the characters in the texts. A cluster is at most as
  long as a text.
* `Dwfilter` gives the post processor both files at once. dwfilter itself is not killed: it
  would leave its temporary file behind.
* `Options` takes the characters of a set for numbers and compares clusters as such. A
  character of 128 or more in a set of a single-byte locale is left out: `SET_BIT` uses it as a
  negative index where `char` is signed (`option.c:260`).
* In `ContextDiff` all common words are printed.
* Running out of memory ends the program and is not modelled.

## Not modelled

* ICU (`upstream/icu`) is a library of several hundred thousand lines, by far the most of the
  repository, that is kept there to be linked. dwdiff calls it for the category of a
  character, case folding and normalization. Its answers are constants here; a
  model of its tables or its other services would say nothing of dwdiff. So the definitions of
  this project stand for about half of dwdiff's own source (3,100 of 6,349 lines) and for well
  under one percent of all lines in the repository.
* Decomposition and case folding of a cluster (`unicode.c`, `-i`, `-I`) are a call of ICU each; the
  modules take words to be compared after it.
* Escapes and colours in the values of options, short options and their grouping
  (`optionMacros.h`), and the double dash are text processing without state.
* Overstriking and colours of the output (`-p`, `-l`, `-c`) write more characters around each
  character and change no other state.
* Vectors, memory allocation and the tables that choose between the single-byte and the UTF-8
  version of a function (`vector.h`, `util.c`, `dispatch*.h`) are sequences, and parameters of
  the modules.
* Not composed: `Printer` with `ContextBuffer` (which characters count as common for `-C`), and
  `-u` with `-C`, where the ring survives from hunk to hunk.
* The documented option `-D` of dwfilter does not exist in the code.

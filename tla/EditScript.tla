------------------------------ MODULE EditScript ------------------------------
(***************************************************************************)
(* doDiffInternal's call of diff_2_files: the words of both files get      *)
(* numbers (HashTable) and a range of them is compared.                    *)
(*                                                                         *)
(* diff_2_files (diff/analyze.c): lines that match nothing, or too much,   *)
(* are discarded, the others are compared, the changes are moved over      *)
(* equal lines to join them, and then turned into an edit script.  A line  *)
(* is the number of a word.                                                *)
(*                                                                         *)
(* compareseq may return any pairs of equal lines in order (CompareSeq).   *)
(* Lines are numbered from 0.  changed[f] has an element for the position  *)
(* before the first line of file f and one for that after its last line,   *)
(* "always 0": they end every scan.                                        *)
(***************************************************************************)
EXTENDS HashTable, Sequences, SequencesExt, FiniteSetsExt

CONSTANTS
    Inputs,           \* the pairs of files, and where the lines compared begin
    compareseq(_, _), \* the sets of pairs of positions that may be found
    Many,             \* a line that matches more is discardable: 5 in the code
    InARow,           \* so many unmatched lines end a scan: 3 in the code
    FarIn             \* an unmatched line so far in does, too: 8 in the code

ASSUME InputsAssumption ==
    Inputs \subseteq [words: Seq(Word) \X Seq(Word), from: Nat \X Nat]
ASSUME LimitsAssumption == Many \in Nat /\ InARow \in Nat \ {0} /\ FarIn \in Nat

VARIABLES
    input,         \* the words of the files, and the range to be compared
    equivs,        \* the numbers of the words, then filevec[f].equivs
    discarded,     \* the lines found to be discardable, until they are
    changed,       \* filevec[f].changed
    pc,            \* what is done next
    f,             \* the file whose changes are shifted
    i, j,          \* the line in f, and the corresponding one in the other
    start,         \* the first line of the current run of changes
    runlength,     \* its length when the loop began
    corresponding, \* the last end at which it met a run in the other file
    script         \* the edit script so far

shifting == <<f, start, runlength, corresponding>>
numbering == <<input, tableVars>>
files == <<numbering, equivs, discarded>>
vars == <<files, changed, pc, f, i, j, start, runlength, corresponding, script>>

lines(g) == Len(equivs[g])
equiv(n) == equivs[f][n + 1]
other == changed[1 - f]
i_end == lines(f)

(* The first position from n on that is not changed, and the last before n. *)
Following(flags, n) == Min({k \in DOMAIN flags : k >= n /\ ~flags[k]})
Preceding(flags, n) == Max({k \in DOMAIN flags : k < n /\ ~flags[k]})

-----------------------------------------------------------------------------

Init ==
    /\ TableInit
    /\ input \in Inputs
    /\ equivs = [g \in {0, 1} |-> << >>]
    /\ changed = << >>
    /\ discarded = << >>
    /\ pc = "number"
    /\ f = 0
    /\ i = 0
    /\ j = 0
    /\ start = 0
    /\ runlength = 0
    /\ corresponding = 0
    /\ script = << >>

-----------------------------------------------------------------------------
(* doDiffInternal: the words are numbered, those of the old file first. *)

words(g) == input.words[g + 1]
numbered == IF Len(equivs[0]) < Len(words(0)) THEN 0 ELSE 1

Number ==
    /\ pc = "number"
    /\ Len(equivs[numbered]) < Len(words(numbered))
    /\ LET word == words(numbered)[Len(equivs[numbered]) + 1]
       IN \/ /\ Find(word) \/ Add(word)
             /\ equivs' = [equivs EXCEPT ![numbered] = Append(@, getValue(word))]
          \/ Full(word) /\ UNCHANGED equivs
    /\ UNCHANGED <<input, discarded, changed, pc, shifting, i, j, script>>

(* The numbers are all given; a range of each file is compared. *)
SelectRange ==
    /\ pc = "number"
    /\ \A g \in {0, 1} : Len(equivs[g]) = Len(words(g))
    /\ getHashMax
    /\ equivs' = [g \in {0, 1} |-> SubSeq(equivs[g], input.from[g + 1] + 1,
                                          Len(words(g)))]
    /\ changed' = [g \in {0, 1} |-> [k \in -1..Len(equivs'[g]) |-> FALSE]]
    /\ pc' = "mark"
    /\ UNCHANGED <<input, discarded, shifting, i, j, script>>

(* The ASSERT in getValue has ended the program. *)
Aborted == panic /\ UNCHANGED vars

-----------------------------------------------------------------------------
(* discard_confusing_lines *)

(* The bits of a number of lines, and how often n >> 2 leaves something. *)
Bits == 31
Quarterings(n) == Cardinality({k \in 1..(Bits \div 2) : n \div 4^k > 0})

equiv_count(g, class) ==
    Cardinality({n \in 1..lines(g) : equivs[g][n] = class})

many(g) == Many * 2^Quarterings(lines(g) \div 64)

(* The lines that match nothing in the other file, and those that match    *)
(* many lines and are provisionally discardable.                           *)
MarkDiscardable ==
    /\ pc = "mark"
    /\ discarded' =
          [g \in {0, 1} |->
             LET matches == [class \in 0..(hashMax - 1) |-> equiv_count(1 - g, class)]
                 those(P(_)) == {n \in 0..(lines(g) - 1) :
                                    equivs[g][n + 1] # 0 /\ P(matches[equivs[g][n + 1]])}
             IN [unmatched |-> those(LAMBDA nmatch : nmatch = 0),
                 provisional |-> those(LAMBDA nmatch : nmatch > many(g))]]
    /\ pc' = "discard"
    /\ UNCHANGED <<numbering, equivs, changed, shifting, i, j, script>>

Unmatched(g) == discarded[g].unmatched
Provisional(g) == discarded[g].provisional

(* The runs of discardable lines, from their first to their last unmatched *)
(* line.                                                                   *)
Runs(g) ==
    LET unmatched == Unmatched(g)
        discardable == unmatched \cup Provisional(g)
    IN {a..b : <<a, b>> \in {p \in unmatched \X unmatched :
           /\ p[1] <= p[2]
           /\ p[1]..p[2] \subseteq discardable
           /\ \A n \in unmatched : n < p[1] => ~(n..p[1] \subseteq discardable)
           /\ \A n \in unmatched : n > p[2] => ~(p[2]..n \subseteq discardable)}}

(* Provisional lines that come so many in a row do not stand. *)
minimum(length) == 2^Quarterings(length \div 4) + 1

(* The offset, from one end of the run, at which cancelling stops, for the *)
(* set of the offsets from that end at which a line is unmatched.          *)
ScanEnd(length, offsets) ==
    Min({length}
        \cup (offsets \cap FarIn..(length - 1))
        \cup {k \in (InARow - 1)..(length - 1) :
                 (k - InARow + 1)..k \subseteq offsets})

(* Slip: however many lines of the run are provisional, some stay. *)
Cancelled_NoQuarter(g, run) ==
    LET unmatched == run \cap Unmatched(g)
        length == Cardinality(run)
        first == Min(run)
        last == Max(run)
        provisional == run \cap Provisional(g)
    IN {n \in provisional :
          \/ \E a \in run : LET sub == a..(a + minimum(length) - 1)
                            IN n \in sub /\ sub \subseteq provisional
          \/ n - first < ScanEnd(length, {u - first : u \in unmatched})
          \/ last - n < ScanEnd(length, {last - u : u \in unmatched})}

(* The provisional lines of the run that are not discarded after all. *)
Cancelled(g, run) ==
    LET unmatched == run \cap Unmatched(g)
        length == Cardinality(run)
        first == Min(run)
        last == Max(run)
        provisional == run \cap Provisional(g)
    IN IF 4 * Cardinality(provisional) > length THEN provisional
       ELSE {n \in provisional :
               \/ \E a \in run : LET sub == a..(a + minimum(length) - 1)
                                 IN n \in sub /\ sub \subseteq provisional
               \/ n - first < ScanEnd(length, {u - first : u \in unmatched})
               \/ last - n < ScanEnd(length, {last - u : u \in unmatched})}

(* With --algorithm=minimal every line is compared. *)
Discard ==
    /\ pc = "discard"
    /\ \E minimal \in BOOLEAN :
          changed' = [g \in {0, 1} |->
             [k \in -1..lines(g) |->
                ~minimal /\ \E run \in Runs(g) : k \in run \ Cancelled(g, run)]]
    /\ pc' = "compare"
    /\ UNCHANGED <<files, shifting, i, j, script>>

-----------------------------------------------------------------------------
(* compareseq *)

(* Slip: the numbers that leave out the discarded lines are not mapped. *)
realindexes_Virtual(g) == [n \in 1..lines(g) |-> n - 1]

(* The lines that have not been discarded *)
realindexes(g) ==
    SelectSeq([n \in 1..lines(g) |-> n - 1], LAMBDA n : ~changed[g][n])

undiscarded(g) ==
    LET kept == SelectSeq([n \in 1..lines(g) |-> n], LAMBDA n : ~changed[g][n - 1])
    IN [n \in DOMAIN kept |-> equivs[g][kept[n]]]

(* NOTE_DELETE and NOTE_INSERT mark the lines that are not in a pair. *)
Compare ==
    /\ pc = "compare"
    /\ \E pairs \in compareseq(undiscarded(0), undiscarded(1)) :
          LET noted(g) == {realindexes(g)[n] : n \in
                             DOMAIN undiscarded(g) \ {p[g + 1] : p \in pairs}}
          IN changed' = [g \in {0, 1} |->
                [k \in -1..lines(g) |-> changed[g][k] \/ k \in noted(g)]]
    /\ discarded' = << >>
    /\ pc' = "scan"
    /\ UNCHANGED <<numbering, equivs, shifting, i, j, script>>

-----------------------------------------------------------------------------
(* shift_boundaries *)

(* while (i < i_end && !changed[i]) { while (other_changed[j++]) ...; i++; } *)
Scan ==
    /\ pc = "scan"
    /\ i < i_end /\ ~changed[f][i]
    /\ i' = i + 1
    /\ j' = Following(other, j) + 1
    /\ UNCHANGED <<files, changed, pc, shifting, script>>

(* Another run of changes. *)
StartRun ==
    /\ pc = "scan"
    /\ i < i_end /\ changed[f][i]
    /\ start' = i
    /\ i' = Following(changed[f], i + 1)
    /\ j' = Following(other, j)
    /\ runlength' = i' - start'
    /\ pc' = "back"
    /\ UNCHANGED <<files, changed, f, corresponding, script>>

canMoveBack == start > 0 /\ equiv(start - 1) = equiv(i - 1)

(* Slip: the other file is not followed. *)
MoveBack_OtherStays ==
    /\ pc = "back"
    /\ canMoveBack
    /\ changed' = [changed EXCEPT ![f] = [@ EXCEPT ![start - 1] = TRUE,
                                                   ![i - 1] = FALSE]]
    /\ start' = Preceding(changed'[f], start - 1) + 1
    /\ i' = i - 1
    /\ UNCHANGED <<files, pc, f, j, runlength, corresponding, script>>

(* The run moves back over an equal line, and joins the run before it. *)
MoveBack ==
    /\ pc = "back"
    /\ canMoveBack
    /\ changed' = [changed EXCEPT ![f] = [@ EXCEPT ![start - 1] = TRUE,
                                                   ![i - 1] = FALSE]]
    /\ start' = Preceding(changed'[f], start - 1) + 1
    /\ i' = i - 1
    /\ j' = Preceding(other, j)
    /\ UNCHANGED <<files, pc, f, runlength, corresponding, script>>

StopBack ==
    /\ pc = "back"
    /\ ~canMoveBack
    /\ corresponding' = IF other[j - 1] THEN i ELSE i_end
    /\ pc' = "forward"
    /\ UNCHANGED <<files, changed, f, i, j, start, runlength, script>>

canMoveForward == i # i_end /\ equiv(start) = equiv(i)

(* Slip: the start does not move along. *)
MoveForward_StartStays ==
    /\ pc = "forward"
    /\ canMoveForward
    /\ changed' = [changed EXCEPT ![f] = [@ EXCEPT ![start] = FALSE,
                                                   ![i] = TRUE]]
    /\ i' = Following(changed'[f], i + 1)
    /\ j' = Following(other, j + 1)
    /\ corresponding' = IF j' > j + 1 THEN i' ELSE corresponding
    /\ UNCHANGED <<files, pc, f, start, runlength, script>>

(* The run moves forward over an equal line, and joins the run after it. *)
MoveForward ==
    /\ pc = "forward"
    /\ canMoveForward
    /\ changed' = [changed EXCEPT ![f] = [@ EXCEPT ![start] = FALSE,
                                                   ![i] = TRUE]]
    /\ start' = start + 1
    /\ i' = Following(changed'[f], i + 1)
    /\ j' = Following(other, j + 1)
    /\ corresponding' = IF j' > j + 1 THEN i' ELSE corresponding
    /\ UNCHANGED <<files, pc, f, runlength, script>>

(* Slip: the length is only recorded before the loop. *)
StopForward_NotRecorded ==
    /\ pc = "forward"
    /\ ~canMoveForward
    /\ pc' = IF runlength # i - start THEN "back" ELSE "settle"
    /\ UNCHANGED <<files, changed, f, i, j, start, runlength, corresponding,
                   script>>

(* The loop is repeated when the run has grown. *)
StopForward ==
    /\ pc = "forward"
    /\ ~canMoveForward
    /\ pc' = IF runlength # i - start THEN "back" ELSE "settle"
    /\ runlength' = i - start
    /\ UNCHANGED <<files, changed, f, i, j, start, corresponding, script>>

(* Back to where a run of the other file is. *)
MoveToCorresponding ==
    /\ pc = "settle"
    /\ corresponding < i
    /\ changed' = [changed EXCEPT ![f] = [@ EXCEPT ![start - 1] = TRUE,
                                                   ![i - 1] = FALSE]]
    /\ start' = start - 1
    /\ i' = i - 1
    /\ j' = Preceding(other, j)
    /\ UNCHANGED <<files, pc, f, runlength, corresponding, script>>

Settled ==
    /\ pc = "settle"
    /\ corresponding >= i
    /\ pc' = "scan"
    /\ UNCHANGED <<files, changed, shifting, i, j, script>>

(* The next file, or build_script, where i and j are i0 and i1. *)
FileDone ==
    /\ pc = "scan"
    /\ i = i_end
    /\ IF f = 0 THEN f' = 1 /\ pc' = "scan" /\ i' = 0 /\ j' = 0
                ELSE /\ f' = f /\ pc' = "build"
                     /\ i' = lines(0) /\ j' = lines(1)
    /\ UNCHANGED <<files, changed, start, runlength, corresponding, script>>

(* Slip: the change is recorded from where it ends. *)
Change_AtEnd(line0, line1) ==
    [line0 |-> i, line1 |-> j, deleted |-> i - line0, inserted |-> j - line1]

Change(line0, line1) ==
    [line0 |-> line0, line1 |-> line1,
     deleted |-> i - line0, inserted |-> j - line1]

build_script ==
    /\ pc = "build"
    /\ i >= 0 \/ j >= 0
    /\ LET line0 == Preceding(changed[0], i) + 1
           line1 == Preceding(changed[1], j) + 1
       IN /\ script' = IF changed[0][i - 1] \/ changed[1][j - 1]
                       THEN <<Change(line0, line1)>> \o script
                       ELSE script
          /\ i' = line0 - 1
          /\ j' = line1 - 1
    /\ UNCHANGED <<files, changed, pc, shifting>>

Built ==
    /\ pc = "build"
    /\ i < 0 /\ j < 0
    /\ pc' = "done"
    /\ UNCHANGED <<files, changed, shifting, i, j, script>>

Done == pc = "done" /\ UNCHANGED vars

Next ==
    \/ Number \/ SelectRange \/ Aborted
    \/ MarkDiscardable \/ Discard \/ Compare
    \/ Scan \/ StartRun
    \/ MoveBack \/ StopBack \/ MoveForward \/ StopForward
    \/ MoveToCorresponding \/ Settled \/ FileDone
    \/ build_script \/ Built \/ Done

Spec == Init /\ [][Next]_vars

FairSpec == Spec /\ WF_vars(Next)

-----------------------------------------------------------------------------

Kept(g) == SelectSeq([n \in 1..lines(g) |-> n], LAMBDA n : ~changed[g][n - 1])
(* The words of file g that are compared, and those that are not changed. *)
text(g) == SubSeq(words(g), input.from[g + 1] + 1, Len(words(g)))
KeptWords(g) == [n \in DOMAIN Kept(g) |-> text(g)[Kept(g)[n]]]
Unchanged(g, n) == Cardinality({k \in 0..(n - 1) : ~changed[g][k]})

(* Type invariant: no index leaves the flags with the elements before and  *)
(* after them, which stay 0.                                               *)
TypeOK ==
    /\ TableTypeOK
    /\ \A g \in {0, 1} : equivs[g] \in Seq(0..VALUE_MAX)
    /\ pc # "number" =>
          \A g \in {0, 1} : /\ changed[g] \in [-1..lines(g) -> BOOLEAN]
                             /\ ~changed[g][-1] /\ ~changed[g][lines(g)]
    /\ f \in {0, 1}
    /\ i \in -1..Max({lines(0), lines(1)})
    /\ j \in -1..Max({lines(0), lines(1)})
    /\ pc \in {"scan", "back", "forward", "settle"} =>
          i \in 0..i_end /\ j \in 0..lines(1 - f)
    /\ pc \in {"forward", "settle"} => corresponding \in 0..i_end
    /\ pc \in {"back", "forward", "settle"} =>
          /\ start \in 0..(i - 1)
          /\ \A k \in start..(i - 1) : changed[f][k]

(* "it can validly be done": after every move the lines that are not       *)
(* changed are still the same words in both files.                         *)
KeepsDiffCorrect ==
    pc \notin {"number", "mark", "discard", "compare"} => KeptWords(0) = KeptWords(1)

(* diff/analyze.c:119: a line that occurs in the other file is discarded   *)
(* only in a run of discardable lines, between two lines that do not       *)
(* occur there, and no more than a quarter of such a run are lines that    *)
(* do.                                                                     *)
DiscardsInsideRuns ==
    pc = "compare" =>
        \A g \in {0, 1} : \A n \in Provisional(g) :
            LET discardable == Unmatched(g) \cup Provisional(g)
                run == {k \in discardable : n..k \cup k..n \subseteq discardable}
                between == {k \in run : \E a, b \in run \cap Unmatched(g) : k \in a..b}
            IN changed[g][n] =>
                  /\ n \in between
                  /\ 4 * Cardinality({k \in between \cap Provisional(g) : changed[g][k]})
                        <= Cardinality(between)

(* While the changes of f are shifted, i and j stay at corresponding       *)
(* places: as many unchanged lines lie before i in f as before j in the    *)
(* other file.                                                             *)
InStep ==
    pc \in {"scan", "back", "forward", "settle"} =>
        Unchanged(f, i) = Unchanged(1 - f, j)

(* The edit script turns file 0 into file 1: before each change the words  *)
(* of both files are the same, and so are they after the last one.  Two    *)
(* changes never touch each other: at least one common line is between     *)
(* them, on which doDiffInternal relies when it cuts the changes down.     *)
ScriptIsCorrect ==
    pc = "done" =>
        LET n == Len(script)
            end0(k) == IF k = 0 THEN 0 ELSE script[k].line0 + script[k].deleted
            end1(k) == IF k = 0 THEN 0 ELSE script[k].line1 + script[k].inserted
            next0(k) == IF k = n THEN lines(0) ELSE script[k + 1].line0
            next1(k) == IF k = n THEN lines(1) ELSE script[k + 1].line1
        IN /\ \A k \in 0..n :
                 SubSeq(text(0), end0(k) + 1, next0(k)) =
                 SubSeq(text(1), end1(k) + 1, next1(k))
           /\ \A k \in 1..(n - 1) : end0(k) < next0(k)
           /\ \A k \in 1..n : script[k].deleted + script[k].inserted > 0

(* The runs are moved back and forth until they no longer grow, which ends. *)
Terminates == <>(pc = "done" \/ panic)

=============================================================================

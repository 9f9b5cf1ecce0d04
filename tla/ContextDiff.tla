----------------------------- MODULE ContextDiff -----------------------------
(***************************************************************************)
(* doDiff (doDiff.c): the words of two files are compared, together with   *)
(* -m words around each of them, and the edit script of that comparison is *)
(* cut down to the words that really differ and printed.                   *)
(*                                                                         *)
(* doDiffInternal calls itself to compare the inside of a long change with *)
(* less context.  The stack holds its calls that have not returned.        *)
(* diff_2_files may return any correct edit script (EditScript), and       *)
(* getValue gives different numbers to different contexts (HashTable), so  *)
(* a context stands for its own number here.  option.printCommon is set:   *)
(* without it printEnd reads nothing.                                      *)
(***************************************************************************)
EXTENDS Integers, Sequences, FiniteSets, SequencesExt, FiniteSetsExt

CONSTANTS
    Value,             \* the numbers of the words
    Inputs,            \* the pairs of files, as diffTokens
    MatchContexts,     \* the values of option.matchContext: twice the -m option
    diff_2_files(_, _, _) \* the edit scripts of two vectors that may be
                          \* returned, when minimal is set or not

ASSUME InputsAssumption == Inputs \subseteq Seq(Value) \X Seq(Value)
ASSUME MatchContextAssumption ==
    MatchContexts \subseteq {n \in Nat : n % 2 = 0}

VARIABLES
    option,                \* of aggregateChanges and minimal, those that are set
    oldTokens, newTokens,  \* diffTokens of the files
    stack,                 \* the calls of doDiffInternal
    oldPrinted, newPrinted,\* lastPrinted of the files
    common,                \* history: the pairs of words printed as common
    deleted, added,        \* history: the words printed as deleted or added
    statistics,
    differences,           \* the exit status
    outcome                \* whether doDiff has returned

vars == <<option, oldTokens, newTokens, stack, oldPrinted, newPrinted, common,
          deleted, added, statistics, differences, outcome>>

(* Not a number of a word: the end of the file or range. *)
Edge == -1

Section(line0, count0, line1, count1) ==
    [line0 |-> line0, count0 |-> count0, line1 |-> line1, count1 |-> count1]

(* A call that has not compared anything yet. *)
Call(range, context) ==
    [range |-> range, context |-> context, called |-> FALSE, script |-> << >>]

Init ==
    /\ option \in SUBSET {"aggregateChanges", "minimal"}
    /\ \E in \in Inputs : oldTokens = in[1] /\ newTokens = in[2]
    /\ \E matchContext \in MatchContexts :
          stack = <<Call(Section(0, Len(oldTokens), 0, Len(newTokens)),
                         matchContext)>>
    /\ oldPrinted = 0
    /\ newPrinted = 0
    /\ common = {}
    /\ deleted = {}
    /\ added = {}
    /\ statistics = [added |-> 0, deleted |-> 0,
                     oldChanged |-> 0, newChanged |-> 0]
    /\ differences = 0
    /\ outcome = "RUNNING"

top == stack[1]

-----------------------------------------------------------------------------
(* The comparison *)

(* Slip: the context is one word short. *)
initializeContextDiffTokens_Short(data, context) ==
    LET dataRange == Len(data)
    IN [i \in 1..context |-> <<Edge>> \o SubSeq(data, 1, i)]
       \o [i \in 1..(dataRange - context) |-> SubSeq(data, i, i + context - 1)]
       \o [i \in 1..context |->
              Append(SubSeq(data, dataRange - context + i, dataRange), Edge)]

(* Every word with the context words before it; the first and the last     *)
(* words also with the edge.                                               *)
initializeContextDiffTokens(data, context) ==
    LET dataRange == Len(data)
    IN [i \in 1..context |-> <<Edge>> \o SubSeq(data, 1, i)]
       \o [i \in 1..(dataRange - context) |-> SubSeq(data, i, i + context)]
       \o [i \in 1..context |->
              Append(SubSeq(data, dataRange - context + i, dataRange), Edge)]

(* No more context than there are words, and an even number. *)
Trimmed(range, context) ==
    2 * (Min({context, range.count0, range.count1}) \div 2)

(* doDiffInternal up to its loop *)
Compare ==
    /\ stack # << >>
    /\ ~top.called
    /\ LET range == top.range
           context == Trimmed(range, top.context)
           data0 == SubSeq(oldTokens, range.line0 + 1,
                           range.line0 + range.count0)
           data1 == SubSeq(newTokens, range.line1 + 1,
                           range.line1 + range.count1)
       IN \E script \in diff_2_files(
                 initializeContextDiffTokens(data0, context),
                 initializeContextDiffTokens(data1, context),
                 "minimal" \in option) :
             stack' = [stack EXCEPT ![1] =
                         [range |-> range, context |-> context,
                          called |-> TRUE, script |-> script]]
    /\ UNCHANGED <<option, oldTokens, newTokens, oldPrinted, newPrinted, common,
                   deleted, added, statistics, differences, outcome>>

-----------------------------------------------------------------------------
(* The loop of doDiffInternal: one change of the script *)

Ready == stack # << >> /\ top.called /\ top.script # << >>

(* script->line0 += baseRange[0]; script->line1 += baseRange[2] *)
change == LET c == Head(top.script)
          IN [c EXCEPT !.line0 = @ + top.range.line0,
                       !.line1 = @ + top.range.line1]

(* The words on both sides of the change are inside the context. *)
short(c) == c.deleted <= top.context \/ c.inserted <= top.context

isChange(c) == c.deleted > 0 /\ c.inserted > 0

(* option.matchContext && context != 0 && command == C_CHANGE *)
tooLong(c) == isChange(c) /\ top.context # 0

(* Slip: the words that are in both files are not taken off. *)
CutDown_Delete(c) ==
    CASE ~tooLong(c) -> c
      [] tooLong(c) /\ short(c) /\ c.deleted < c.inserted ->
            [c EXCEPT !.deleted = 0]
      [] tooLong(c) /\ short(c) /\ c.inserted < c.deleted ->
            [c EXCEPT !.inserted = 0, !.deleted = @ - c.inserted]
      [] OTHER ->
            [c EXCEPT !.deleted = @ - top.context, !.inserted = @ - top.context]

(* What is left of the change when the contexts that only repeat words of  *)
(* a neighbour are taken off.                                              *)
CutDown(c) ==
    CASE ~tooLong(c) -> c
      [] tooLong(c) /\ short(c) /\ c.deleted < c.inserted ->
            [c EXCEPT !.deleted = 0, !.inserted = @ - c.deleted]
      [] tooLong(c) /\ short(c) /\ c.inserted < c.deleted ->
            [c EXCEPT !.inserted = 0, !.deleted = @ - c.inserted]
      [] OTHER ->
            [c EXCEPT !.deleted = @ - top.context, !.inserted = @ - top.context]

(* Whether the change is printed, not compared again. *)
printed(c) == ~tooLong(c) \/ short(c) \/ "aggregateChanges" \in option

(* ASSERT(script->deleted != script->inserted) *)
AssertDifferent(c) == tooLong(c) /\ short(c) => c.deleted # c.inserted

(* printToCommonWord(c.line1) goes this many words on in both files. *)
commonWords(c) == Max({0, c.line1 - newPrinted})

(* ASSERT(file->lastPrinted == start) in printWords *)
AssertStart(c) ==
    /\ c.deleted > 0 => oldPrinted + commonWords(c) = c.line0
    /\ c.inserted > 0 => newPrinted + commonWords(c) = c.line1

PrintCommon(n) ==
    common' = common \cup {<<oldPrinted + k, newPrinted + k>> : k \in 1..n}

(* Slip: the difference is not noted. *)
FoundDifference_Lost == UNCHANGED differences

FoundDifference == differences' = 1

NextChange == [stack EXCEPT ![1].script = Tail(@)]

(* Slip: the context is not halved. *)
NewContext_Same == top.context

(* Half the context, and again an even number. *)
NewContext == 2 * (top.context \div 4)

(* A change with long sides is compared again, with half the context. *)
Recurse ==
    /\ Ready
    /\ ~printed(change)
    /\ LET c == CutDown(change)
       IN stack' = <<Call(Section(c.line0, c.deleted, c.line1, c.inserted),
                          NewContext)>> \o NextChange
    /\ FoundDifference
    /\ UNCHANGED <<option, oldTokens, newTokens, oldPrinted, newPrinted, common,
                   deleted, added, statistics, outcome>>

(* Slip: the words taken off are counted as well. *)
Counted_Uncut(c) ==
    IF isChange(change) THEN [statistics EXCEPT !.newChanged = @ + c.inserted,
                                                !.oldChanged = @ + change.deleted]
    ELSE [statistics EXCEPT !.added = @ + c.inserted,
                            !.deleted = @ + c.deleted]

Counted(c) ==
    IF isChange(c) THEN [statistics EXCEPT !.newChanged = @ + c.inserted,
                                           !.oldChanged = @ + c.deleted]
    ELSE [statistics EXCEPT !.added = @ + c.inserted,
                            !.deleted = @ + c.deleted]

(* The common words before the change, its deleted and its added words.    *)
(* The order in which the last two are printed depends on the whitespace   *)
(* before them.                                                            *)
PrintChange ==
    /\ Ready
    /\ AssertDifferent(change)
    /\ printed(change)
    /\ LET c == CutDown(change)
           n == commonWords(c)
       IN /\ AssertStart(c)
          /\ PrintCommon(n)
          /\ deleted' = deleted \cup (oldPrinted + n + 1)..(oldPrinted + n + c.deleted)
          /\ added' = added \cup (newPrinted + n + 1)..(newPrinted + n + c.inserted)
          /\ oldPrinted' = oldPrinted + n + c.deleted
          /\ newPrinted' = newPrinted + n + c.inserted
          /\ statistics' = Counted(c)
    /\ stack' = NextChange
    /\ FoundDifference
    /\ UNCHANGED <<option, oldTokens, newTokens, outcome>>

(* One of the two ASSERTs fails. *)
Panic ==
    /\ Ready
    /\ \/ ~AssertDifferent(change)
       \/ printed(change) /\ ~AssertStart(CutDown(change))
    /\ outcome' = "PANIC"
    /\ FoundDifference
    /\ stack' = << >>
    /\ UNCHANGED <<option, oldTokens, newTokens, oldPrinted, newPrinted, common,
                   deleted, added, statistics>>

Return ==
    /\ stack # << >>
    /\ top.called
    /\ top.script = << >>
    /\ stack' = Tail(stack)
    /\ UNCHANGED <<option, oldTokens, newTokens, oldPrinted, newPrinted, common,
                   deleted, added, statistics, differences, outcome>>

(* printEnd: the words of the new file that are left, with as many of the  *)
(* old file.                                                               *)
printEnd ==
    /\ stack = << >>
    /\ outcome = "RUNNING"
    /\ LET n == Len(newTokens) - newPrinted
       IN /\ PrintCommon(n)
          /\ oldPrinted' = oldPrinted + n
          /\ newPrinted' = newPrinted + n
    /\ outcome' = "ENDED"
    /\ UNCHANGED <<option, oldTokens, newTokens, stack, deleted, added, statistics,
                   differences>>

Ended == outcome # "RUNNING" /\ UNCHANGED vars

Next == Compare \/ Recurse \/ PrintChange \/ Panic \/ Return \/ printEnd \/ Ended

Spec == Init /\ [][Next]_vars

-----------------------------------------------------------------------------

(* doDiff.c:421: when a change is printed, the common words before it have *)
(* brought both files to where it starts, however it was cut down and      *)
(* whichever call of doDiffInternal it comes from.  doDiff.c:662: a change *)
(* with a short side never has two equal sides, as long as the edit script *)
(* is a shortest one.                                                      *)
AssertionsHold ==
    Ready => /\ printed(change) => AssertStart(CutDown(change))
             /\ "minimal" \in option => AssertDifferent(change)

(* The words that are printed once for both files are the same in both,    *)
(* though only their contexts have been compared, and at the end every     *)
(* word of the old file has been printed once, as a common or as a deleted *)
(* word, and every word of the new file once, as a common or as an added   *)
(* one.                                                                    *)
EveryWordOnce ==
    /\ \A p \in common : oldTokens[p[1]] = newTokens[p[2]]
    /\ outcome = "ENDED" =>
        /\ {p[1] : p \in common} = (1..Len(oldTokens)) \ deleted
        /\ {p[2] : p \in common} = (1..Len(newTokens)) \ added
        /\ \A p, q \in common : p[1] < q[1] <=> p[2] < q[2]
        /\ oldPrinted = Len(oldTokens)

(* doDiff.c:730-744: in both files the tokens that are not counted as      *)
(* deleted (added) or changed are as many as the tokens printed as common. *)
(* main subtracts the counts from what readFile returned (dwdiff.c:579),   *)
(* which is less than the number of tokens if the file starts with a       *)
(* delimiter or has marks of blank lines (-S); that number is the subject  *)
(* of Tokenizer.                                                           *)
StatisticsAddUp ==
    outcome = "ENDED" =>
        /\ Len(oldTokens) - statistics.deleted - statistics.oldChanged
              = Cardinality(common)
        /\ Len(newTokens) - statistics.added - statistics.newChanged
              = Cardinality(common)

(* The exit status is 1 exactly when the files do not have the same words. *)
ExitStatus ==
    outcome = "ENDED" => (differences = 1 <=> oldTokens # newTokens)

(* doDiffInternal calls itself for a smaller comparison, so the recursion  *)
(* ends even when nothing of the two sides matches.                        *)
RecursionDescends ==
    [][Len(stack') > Len(stack) =>
          stack'[1].range.count0 + stack'[1].range.count1 + stack'[1].context
             < top.range.count0 + top.range.count1 + top.context]_vars

=============================================================================

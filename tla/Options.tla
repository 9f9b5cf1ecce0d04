------------------------------ MODULE Options ------------------------------
(***************************************************************************)
(* The options of dwdiff (option.c) and the profiles (profile.c).          *)
(*                                                                         *)
(* parseCmdLine goes over the arguments twice.  The first time it looks    *)
(* for the profile and for --dwfilter; then the options of the profile are *)
(* parsed, and after them the arguments.  An argument is a record of the   *)
(* long name of an option, or "file" or "-", and a value.  What follows    *)
(* from the options is decided when all of them are known.                 *)
(***************************************************************************)
EXTENDS Integers, Sequences, SequencesExt, FiniteSets, FiniteSetsExt

CONSTANTS
    Spaces,         \* the characters for which isspace and ispunct are true
    Punctuation

VARIABLES
    UTF8Mode,   \* what the locale says
    argv,       \* the arguments
    dwdiffrc,   \* .dwdiffrc: its lines, or why it cannot be opened
    option,
    profile,    \* what loadProfile found
    todo,       \* the arguments or lines that are left in this phase
    phase       \* of parseCmdLine; "fatal" and "help" end the program

optionVars == <<UTF8Mode, argv, dwdiffrc, option, profile, todo, phase>>

NULL == "NULL"
Space == 32      \* characters are numbers

MarkerOption == [start_delete |-> "delStart", stop_delete |-> "delStop",
                 start_insert |-> "addStart", stop_insert |-> "addStop"]
MarkerNames == {MarkerOption[n] : n \in DOMAIN MarkerOption}

initializeOptions ==
    [printDeleted |-> TRUE, printAdded |-> TRUE, printCommon |-> TRUE,
     needMarkers |-> FALSE, needStartStop |-> TRUE,
     marker |-> [m \in MarkerNames |-> NULL],
     delimiters |-> {}, punctuationMask |-> FALSE, whitespace |-> {}, whitespaceSet |-> FALSE,
     statistics |-> FALSE, overstrike |-> FALSE, colorMode |-> FALSE,
     lineNumbers |-> FALSE, context |-> -1, matchContext |-> 2,
     algorithm |-> "normal", paraDelim |-> FALSE, repeatMarkers |-> FALSE,
     ignoreCase |-> FALSE, decomposition |-> "NFD", aggregateChanges |-> FALSE,
     wdiffOutput |-> FALSE, diffInput |-> FALSE, dwfilterMode |-> FALSE,
     output |-> "stdout", profile |-> "default",
     oldFile |-> NULL, newFile |-> NULL, noOptionCount |-> 0, stop |-> "none"]

Fatal(o) == [o EXCEPT !.stop = "fatal"]

(* What preParseArgs keeps of the options *)
preParseArg(o, a) ==
    CASE a.name = "profile" -> [o EXCEPT !.profile = a.value]
      [] a.name = "no_profile" -> [o EXCEPT !.profile = NULL]
      [] a.name = "dwfilter" -> [o EXCEPT !.dwfilterMode = TRUE]
      [] a.name = "aggregate_changes" -> [o EXCEPT !.aggregateChanges = TRUE]
      [] a.name = "wdiff_output" -> [o EXCEPT !.wdiffOutput = TRUE]
      [] a.name = "help" -> [o EXCEPT !.stop = "help"]
      [] OTHER -> o

(* The options that --dwfilter makes dwdiff ignore *)
NotForDwfilter == {"no_deleted", "no_inserted", "no_common", "statistics", "printer",
                   "less_mode", "color", "paragraph_separator", "repeat_markers",
                   "diff_input"}

noDefaultMarkers(o) ==
    [o EXCEPT !.marker = [m \in MarkerNames |-> IF @[m] = NULL THEN "" ELSE @[m]]]

(* A file, or standard input *)
InputFile(o, a) ==
    LET n == [o EXCEPT !.noOptionCount = @ + 1]
    IN CASE o.noOptionCount = 0 -> [n EXCEPT !.oldFile = a.value]
         [] o.noOptionCount = 1 /\ a.name = "-" /\ o.oldFile = "stdin" -> Fatal(o)
         [] o.noOptionCount = 1 /\ ~(a.name = "-" /\ o.oldFile = "stdin") ->
               [n EXCEPT !.newFile = a.value]
         [] OTHER -> Fatal(o)

(* The body of the option *)
Option(o, a) ==
    CASE a.name = "no_deleted" ->
            [o EXCEPT !.printDeleted = FALSE, !.needMarkers = @ \/ ~o.printAdded,
                      !.needStartStop = @ /\ o.printCommon /\ o.printAdded]
      [] a.name = "no_inserted" ->
            [o EXCEPT !.printAdded = FALSE, !.needMarkers = @ \/ ~o.printDeleted,
                      !.needStartStop = @ /\ o.printCommon /\ o.printDeleted]
      [] a.name = "no_common" -> [o EXCEPT !.printCommon = FALSE, !.needMarkers = TRUE]
      [] a.name = "delimiters" -> [o EXCEPT !.delimiters = @ \cup a.value]
      [] a.name = "punctuation" ->
            IF UTF8Mode THEN [o EXCEPT !.punctuationMask = TRUE]
            ELSE [o EXCEPT !.delimiters = @ \cup Punctuation]
      [] a.name = "white_space" ->
            [o EXCEPT !.whitespaceSet = TRUE, !.whitespace = @ \cup a.value]
      [] a.name = "ignore_case" -> [o EXCEPT !.ignoreCase = TRUE]
      [] a.name = "ignore_formatting" /\ UTF8Mode -> [o EXCEPT !.decomposition = "NFKD"]
      [] a.name = "statistics" -> [o EXCEPT !.statistics = TRUE]
      [] a.name \in {"printer", "less_mode"} ->
            noDefaultMarkers([o EXCEPT !.overstrike = TRUE])
      [] a.name = "color" -> noDefaultMarkers([o EXCEPT !.colorMode = TRUE])
      [] a.name \in DOMAIN MarkerOption ->
            [o EXCEPT !.marker = [@ EXCEPT ![MarkerOption[a.name]] = a.value]]
      [] a.name = "line_numbers" -> [o EXCEPT !.lineNumbers = TRUE]
      [] a.name = "context" /\ a.value >= 0 -> [o EXCEPT !.context = a.value]
      [] a.name = "match_context" /\ a.value >= 0 ->
            [o EXCEPT !.matchContext = 2 * a.value]
      [] a.name = "algorithm" /\ a.value \in {"best", "normal", "fast"} ->
            [o EXCEPT !.algorithm = a.value]
      [] a.name = "paragraph_separator" -> [o EXCEPT !.paraDelim = TRUE]
      [] a.name = "repeat_markers" -> [o EXCEPT !.repeatMarkers = TRUE]
      [] a.name = "diff_input" -> [o EXCEPT !.diffInput = TRUE]
      [] a.name = "aggregate_changes" -> [o EXCEPT !.aggregateChanges = TRUE]
      [] a.name = "wdiff_output" -> [o EXCEPT !.wdiffOutput = TRUE]
      [] a.name = "dwfilter" -> [o EXCEPT !.dwfilterMode = TRUE, !.output = a.value]
      [] a.name = "reverse" /\ o.dwfilterMode -> o
      [] a.name = "profile" -> [o EXCEPT !.profile = a.value]
      [] a.name = "no_profile" -> [o EXCEPT !.profile = NULL]
      [] a.name \in {"help", "version"} -> [o EXCEPT !.stop = "help"]
      [] a.name \in {"file", "-"} -> InputFile(o, a)
      [] OTHER -> Fatal(o)

(* Slip: --dwfilter does not make dwdiff ignore options of a profile. *)
parseArg_AllOptions(o, a) == Option(o, a)

parseArg(o, a) ==
    IF o.dwfilterMode /\ a.name \in NotForDwfilter THEN o ELSE Option(o, a)

-----------------------------------------------------------------------------
(* completeDefaults, when the print options are known *)

DefaultMarker == [delStart |-> "[-", delStop |-> "-]", addStart |-> "{+", addStop |-> "+}"]

(* Slip: needStartStop is only set by -1 and -2. *)
completeDefaults_NotCounted(o) ==
    IF o.dwfilterMode
    THEN [o EXCEPT !.marker = [m \in MarkerNames |-> ""], !.printAdded = FALSE,
                   !.needMarkers = FALSE, !.needStartStop = TRUE]
    ELSE [o EXCEPT
            !.marker = [m \in MarkerNames |-> IF @[m] = NULL THEN DefaultMarker[m] ELSE @[m]],
            !.needMarkers = @ /\ (o.printCommon \/ o.printAdded \/ o.printDeleted)]

completeDefaults(o) ==
    LET shown == {p \in {"printCommon", "printAdded", "printDeleted"} : o[p]}
    IN IF o.dwfilterMode
       THEN [o EXCEPT !.marker = [m \in MarkerNames |-> ""], !.printAdded = FALSE,
                      !.needMarkers = FALSE, !.needStartStop = TRUE]
       ELSE [o EXCEPT
               !.marker = [m \in MarkerNames |->
                              IF @[m] = NULL THEN DefaultMarker[m] ELSE @[m]],
               !.needMarkers = @ /\ shown # {},
               !.needStartStop = @ /\ Cardinality(shown) # 1]

(* isWhitespaceUTF8 and isDelimiterUTF8, and with them classifyChar *)
isDelimiter(o, c) == c \in o.delimiters \/ (o.punctuationMask /\ c \in Punctuation)
isWhitespace(o, c) ==
    IF UTF8Mode /\ ~o.whitespaceSet THEN c \in Spaces ELSE c \in o.whitespace

postProcessOptions(o) ==
    LET n == IF UTF8Mode \/ o.whitespaceSet THEN o
             ELSE [o EXCEPT !.whitespace = Spaces \ o.delimiters]
    IN [n EXCEPT !.wdiffOutput = @ \/ isDelimiter(n, Space) \/ ~isWhitespace(n, Space)]

(* The search of checkOverlapUTF8 in the two sorted lists: j goes on to    *)
(* the first element of w that is not less than the next delimiter.        *)
InBoth(d, w) ==
    FoldLeft(LAMBDA m, c :
                LET j == Min({i \in m.j..Len(w) : w[i] >= c} \cup {Len(w) + 1})
                IN [j |-> j, found |-> m.found \/ (j <= Len(w) /\ w[j] = c)],
             [j |-> 1, found |-> FALSE], d).found

Sorted(S) == SetToSortSeq(S, <)

checkOverlap(o) ==
    IF /\ o.whitespaceSet
       /\ \/ ~UTF8Mode /\ o.delimiters \cap o.whitespace # {}
          \/ UTF8Mode /\ InBoth(Sorted(o.delimiters), Sorted(o.whitespace))
          \/ o.punctuationMask /\ \E c \in o.whitespace : c \in Punctuation
    THEN Fatal(o) ELSE o

(* The files there must be, and with -u must not *)
checkFiles(o) ==
    CASE o.diffInput /\ o.newFile \notin {NULL, "stdin"} -> Fatal(o)
      [] o.diffInput /\ o.newFile \in {NULL, "stdin"} /\ o.oldFile = NULL ->
            [o EXCEPT !.oldFile = "stdin"]
      [] ~o.diffInput /\ o.newFile = NULL -> Fatal(o)
      [] OTHER -> o

-----------------------------------------------------------------------------
(* parseCmdLine *)

(* The phase that follows, unless an option ended the program *)
Follows(o, next) == IF o.stop = "none" THEN next ELSE o.stop

Start ==
    /\ phase = "start"
    /\ option' = initializeOptions
    /\ todo' = argv
    /\ phase' = "preparse"
    /\ UNCHANGED <<UTF8Mode, argv, dwdiffrc, profile>>

preParseArgs ==
    /\ phase = "preparse" /\ todo # << >>
    /\ option' = preParseArg(option, Head(todo))
    /\ todo' = Tail(todo)
    /\ phase' = Follows(option', phase)
    /\ UNCHANGED <<UTF8Mode, argv, dwdiffrc, profile>>

NoOptions == [saveProfile |-> FALSE, profileFound |-> FALSE, options |-> << >>]

(* Only the file of the default profile may be missing, or any when the    *)
(* home directory is not known.                                            *)
OpenProfile ==
    /\ phase = "preparse" /\ todo = << >>
    /\ profile' = NoOptions
    /\ IF option.profile = NULL
       THEN todo' = << >> /\ phase' = "profile"
       ELSE /\ todo' = dwdiffrc.lines
            /\ phase' = CASE dwdiffrc.errno = "none" -> "load"
                          [] dwdiffrc.errno = "no home directory" -> "profile"
                          [] dwdiffrc.errno = "ENOENT" /\ option.profile = "default" -> "profile"
                          [] OTHER -> "fatal"
    /\ UNCHANGED <<UTF8Mode, argv, dwdiffrc, option>>

(* A line [p] selects the options that follow it; they are put in front of *)
(* the ones found before.                                                  *)
loadProfile ==
    /\ phase = "load" /\ todo # << >>
    /\ LET line == Head(todo)
       IN profile' = CASE line.name = "[]" ->
                            [profile EXCEPT !.saveProfile = line.value = option.profile,
                                            !.profileFound = @ \/ line.value = option.profile]
                       [] line.name # "[]" /\ profile.saveProfile ->
                            [profile EXCEPT !.options = <<line>> \o @]
                       [] OTHER -> profile
    /\ todo' = Tail(todo)
    /\ UNCHANGED <<UTF8Mode, argv, dwdiffrc, option, phase>>

(* Slip: the list is not reversed. *)
ProfileLoaded_Backwards ==
    /\ phase = "load" /\ todo = << >>
    /\ todo' = profile.options
    /\ phase' = IF profile.profileFound \/ option.profile = "default" THEN "profile" ELSE "fatal"
    /\ UNCHANGED <<UTF8Mode, argv, dwdiffrc, option, profile>>

(* The list is reversed at the end of the file. *)
ProfileLoaded ==
    /\ phase = "load" /\ todo = << >>
    /\ todo' = Reverse(profile.options)
    /\ phase' = IF profile.profileFound \/ option.profile = "default" THEN "profile" ELSE "fatal"
    /\ UNCHANGED <<UTF8Mode, argv, dwdiffrc, option, profile>>

(* An argument, or an option of the profile by applyProfileOptions *)
parseArgs ==
    /\ phase \in {"profile", "arguments"} /\ todo # << >>
    /\ option' = parseArg(option, Head(todo))
    /\ todo' = Tail(todo)
    /\ phase' = Follows(option', phase)
    /\ UNCHANGED <<UTF8Mode, argv, dwdiffrc, profile>>

ProfileApplied ==
    /\ phase = "profile" /\ todo = << >>
    /\ todo' = argv
    /\ phase' = "arguments"
    /\ UNCHANGED <<UTF8Mode, argv, dwdiffrc, option, profile>>

ArgumentsParsed ==
    /\ phase = "arguments" /\ todo = << >>
    /\ option' = checkFiles(option)
    /\ phase' = Follows(option', "complete")
    /\ UNCHANGED <<UTF8Mode, argv, dwdiffrc, profile, todo>>

Complete ==
    /\ phase = "complete"
    /\ option' = checkOverlap(postProcessOptions(completeDefaults(option)))
    /\ phase' = Follows(option', "parsed")
    /\ UNCHANGED <<UTF8Mode, argv, dwdiffrc, profile, todo>>

parseCmdLine == \/ Start \/ preParseArgs \/ OpenProfile \/ loadProfile \/ ProfileLoaded
                \/ parseArgs \/ ProfileApplied \/ ArgumentsParsed \/ Complete

-----------------------------------------------------------------------------

(* The last argument of args that has one of the names, as a sequence *)
LastOf(args, names) ==
    LET those == SelectSeq(args, LAMBDA a : a.name \in names)
    IN IF those = << >> THEN << >> ELSE <<Last(those)>>

(* dwdiff.1:166-173: the profile that is read is the last one named,       *)
(* unless --no-profile follows; its options are the lines of .dwdiffrc     *)
(* for which the nearest header above is that of the profile.              *)
ProfileRead ==
    LET last == LastOf(argv, {"profile", "no_profile"})
        name == CASE last = << >> -> "default"
                  [] last # << >> /\ Head(last).name = "no_profile" -> NULL
                  [] OTHER -> Head(last).value
        lines == dwdiffrc.lines
        Of(i) == LET headers == {h \in 1..i : lines[h].name = "[]"}
                 IN IF headers = {} THEN NULL ELSE lines[Max(headers)].value
        those == {i \in DOMAIN lines : lines[i].name # "[]" /\ Of(i) = name}
    IN IF name = NULL THEN << >>
       ELSE [n \in 1..Cardinality(those) |-> lines[Sorted(those)[n]]]

Setting(names, default) ==
    LET last == LastOf(ProfileRead \o argv, names)
    IN IF last = << >> THEN default ELSE Head(last).value

(* option.c:793: when an option is given several times the last one        *)
(* counts, and one on the command line counts more than one of the         *)
(* profile, wherever --profile stands; what is not given has its default.  *)
(* With --dwfilter, which may follow, no marker is left.                   *)
CommandLineWins ==
    phase = "parsed" =>
        /\ option.algorithm = Setting({"algorithm"}, "normal")
        /\ option.context = Setting({"context"}, -1)
        /\ option.matchContext = 2 * Setting({"match_context"}, 1)
        /\ \A n \in DOMAIN MarkerOption :
              option.marker[MarkerOption[n]] =
                 IF option.dwfilterMode THEN ""
                 ELSE Setting({n}, IF option.overstrike \/ option.colorMode THEN ""
                                   ELSE DefaultMarker[MarkerOption[n]])

(* option.c:483-521, 559-582, 265-278, 350-376: what is printed, and whether markers    *)
(* have to tell changes apart, depends on which of -1, -2 and -3 are given *)
(* and not on their order or place; a separator is only needed when common *)
(* words or both kinds of changes are left out.  For dwfilter none of the  *)
(* options of a profile that change the text has an effect.  No character  *)
(* given with -W is a delimiter, and the output is that of wdiff when it   *)
(* is asked for or the space is no whitespace, and only then.              *)
SettingsConsistent ==
    phase = "parsed" =>
        LET given == {ProfileRead[i].name : i \in DOMAIN ProfileRead}
                     \cup {argv[i].name : i \in DOMAIN argv}
            off == {"no_deleted", "no_inserted", "no_common"} \cap given
        IN /\ IF option.dwfilterMode
              THEN /\ option.printDeleted /\ option.printCommon /\ ~option.printAdded
                   /\ option.needStartStop /\ ~option.needMarkers
                   /\ ~option.paraDelim /\ ~option.repeatMarkers /\ ~option.statistics
                   /\ ~option.colorMode /\ ~option.overstrike /\ ~option.diffInput
              ELSE /\ option.printDeleted = ("no_deleted" \notin off)
                   /\ option.printAdded = ("no_inserted" \notin off)
                   /\ option.printCommon = ("no_common" \notin off)
                   /\ option.needStartStop = (Cardinality(off) < 2)
                   /\ option.needMarkers = \/ off = {"no_deleted", "no_inserted"}
                                           \/ "no_common" \in off /\ Cardinality(off) < 3
           /\ option.whitespaceSet =>
                 \A c \in option.whitespace : ~isDelimiter(option, c)
           /\ option.wdiffOutput = \/ "wdiff_output" \in given
                                   \/ isDelimiter(option, Space)
                                   \/ ~isWhitespace(option, Space)

=============================================================================

----------------------------- MODULE Dwfilter ------------------------------
(***************************************************************************)
(* The two programs as processes: dwdiff on its own, and dwfilter.c, which *)
(* runs dwdiff to write one of the files in the layout of the other to a   *)
(* temporary file, and then a program of the user on the result.           *)
(*                                                                         *)
(* What dwdiff does between its options and its exit status is the subject *)
(* of the other modules; here it reads its inputs and writes its output in *)
(* one step.  The faults of the system that may happen are a parameter.    *)
(***************************************************************************)
EXTENDS Options

CONSTANTS
    Commands,   \* the calls of dwdiff and dwfilter
    Faults      \* \subseteq {"mkstemp", "fork", "exec", "wait", "read", "write", "kill"}

VARIABLES
    command,    \* the call: the program, its options, files and post processor
    main,       \* where main of dwfilter is; "shell" when dwdiff runs alone
    child,      \* what the child process executes
    status,     \* with which the child ended
    tempfile,
    stdin,      \* "unread" or "read"
    seen,       \* the two texts the post processor finds
    fault,      \* dwdiff failed, or its output was lost
    exitStatus

processVars == <<main, child, status, tempfile, stdin, seen, fault, exitStatus>>
vars == <<optionVars, command, processVars>>

NONE == "none"
KilledBySignal == -1     \* in status
NotYet == -2             \* in exitStatus
NoFile == [state |-> "absent"]
EmptyFile == [state |-> "empty"]

reverse == \E i \in DOMAIN command.options : command.options[i].name = "reverse"

FileArg(f) == IF f = "-" THEN [name |-> "-", value |-> "stdin"]
              ELSE [name |-> "file", value |-> f]

Init ==
    /\ UTF8Mode \in BOOLEAN
    /\ \E c \in Commands :
          /\ command = c
          /\ dwdiffrc = c.dwdiffrc
          /\ main = IF c.program = "dwdiff" THEN "shell" ELSE "start"
          /\ child = IF c.program = "dwdiff" THEN "dwdiff" ELSE NONE
          /\ argv = IF c.program = "dwdiff"
                    THEN c.options \o [i \in DOMAIN c.files |-> FileArg(c.files[i])]
                    ELSE << >>
    /\ option = initializeOptions
    /\ phase = "start" /\ todo = << >> /\ profile = NoOptions
    /\ status = 0 /\ exitStatus = NotYet
    /\ tempfile = NoFile /\ stdin = "unread" /\ seen = << >> /\ fault = FALSE

-----------------------------------------------------------------------------
(* dwfilter *)

(* fatal, exit and the end of main; cleanup is registered with atexit. *)
Exit(code) ==
    /\ main' = "exited"
    /\ exitStatus' = code
    /\ tempfile' = NoFile

Accepted == {"delimiters", "punctuation", "white_space", "context", "match_context",
             "ignore_case", "ignore_formatting", "aggregate_changes", "wdiff_output",
             "algorithm", "reverse", "profile", "no_profile"}

(* The options are only recognised here; files has the two files and the   *)
(* post processor.                                                         *)
DwfilterParses ==
    /\ main = "start"
    /\ LET odd == SelectSeq(command.options, LAMBDA a : a.name \notin Accepted)
       IN CASE odd # << >> /\ Head(odd).name \in {"help", "version"} -> Exit(0)
            [] odd # << >> /\ Head(odd).name \notin {"help", "version"} -> Exit(2)
            [] odd = << >> /\ Len(command.files) < 3 -> Exit(2)
            [] OTHER -> main' = "create" /\ UNCHANGED <<exitStatus, tempfile>>
    /\ UNCHANGED <<optionVars, command, child, status, stdin, seen, fault>>

createTempfile ==
    /\ main = "create"
    /\ \/ main' = "dwdiff" /\ tempfile' = EmptyFile /\ UNCHANGED exitStatus
       \/ "mkstemp" \in Faults /\ Exit(2)
    /\ UNCHANGED <<optionVars, command, child, status, stdin, seen, fault>>

Fork ==
    /\ main \in {"dwdiff", "post"} /\ child = NONE
    /\ \/ child' = "forked" /\ UNCHANGED <<main, exitStatus, tempfile>>
       \/ "fork" \in Faults /\ Exit(2) /\ UNCHANGED child
    /\ UNCHANGED <<optionVars, command, status, stdin, seen, fault>>

(* The arguments of dwdiff *)
cmdArgs ==
    LET old == FileArg(command.files[1])
        new == FileArg(command.files[2])
    IN <<[name |-> "dwfilter", value |-> "tempfile"]>> \o command.options
          \o (IF reverse THEN <<new, old>> ELSE <<old, new>>)

ExecDwdiff ==
    /\ child = "forked" /\ main = "dwdiff"
    /\ child' = "dwdiff"
    /\ argv' = cmdArgs
    /\ UNCHANGED <<UTF8Mode, dwdiffrc, option, profile, todo, phase, command, main,
                   status, tempfile, stdin, seen, fault, exitStatus>>

(* What a program finds when it opens a file *)
Opened(f) == CASE f = "tempfile" -> tempfile
               [] f = "-" -> [state |-> IF stdin = "read" THEN "empty" ELSE "whole",
                              of |-> "-"]
               [] OTHER -> [state |-> "whole", of |-> f]

PostArgs == IF reverse THEN <<command.files[1], "tempfile">>
            ELSE <<"tempfile", command.files[2]>>

(* The post processor reads both files before anything else happens. *)
ExecPostProcessor ==
    /\ child = "forked" /\ main = "post"
    /\ child' = "post"
    /\ seen' = <<Opened(PostArgs[1]), Opened(PostArgs[2])>>
    /\ UNCHANGED <<optionVars, command, main, status, tempfile, stdin, fault, exitStatus>>

(* The child is a copy of dwfilter: its exit calls cleanup as well. *)
ExecFails ==
    /\ "exec" \in Faults
    /\ child = "forked"
    /\ child' = "ended" /\ status' = 127
    /\ tempfile' = NoFile
    /\ UNCHANGED <<optionVars, command, main, stdin, seen, fault, exitStatus>>

(* Slip: the comparison is with the status of a failed exec. *)
Waited_More ==
    LET code == IF status = KilledBySignal THEN 0 ELSE status
    IN CASE main = "dwdiff" /\ code > 127 -> Exit(2)
         [] main = "dwdiff" /\ code <= 127 -> main' = "post" /\ UNCHANGED <<exitStatus, tempfile>>
         [] main = "post" -> Exit(code)

(* WEXITSTATUS of a child that was killed is 0. *)
Waited ==
    LET code == IF status = KilledBySignal THEN 0 ELSE status
    IN CASE main = "dwdiff" /\ code > 2 -> Exit(2)
         [] main = "dwdiff" /\ code <= 2 -> main' = "post" /\ UNCHANGED <<exitStatus, tempfile>>
         [] main = "post" -> Exit(code)

(* Slip: a child that was killed is started again. *)
Wait_Again ==
    /\ child = "ended" /\ main # "shell"
    /\ child' = NONE
    /\ IF status = KilledBySignal THEN UNCHANGED <<main, exitStatus, tempfile>>
       ELSE Waited \/ ("wait" \in Faults /\ Exit(2))
    /\ UNCHANGED <<optionVars, command, status, stdin, seen, fault>>

(* wait fails when the parent had SIGCHLD ignored. *)
Wait ==
    /\ child = "ended" /\ main # "shell"
    /\ child' = NONE
    /\ \/ Waited
       \/ "wait" \in Faults /\ Exit(2)
    /\ UNCHANGED <<optionVars, command, status, stdin, seen, fault>>

-----------------------------------------------------------------------------
(* The child processes *)

Ends(code) == child' = "ended" /\ status' = code

DwdiffParses ==
    /\ child = "dwdiff"
    /\ parseCmdLine
    /\ UNCHANGED <<command, processVars>>

DwdiffStops ==
    /\ child = "dwdiff" /\ phase \in {"fatal", "help"}
    /\ Ends(IF phase = "fatal" THEN 2 ELSE 0)
    /\ fault' = TRUE
    /\ UNCHANGED <<optionVars, command, main, tempfile, stdin, seen, exitStatus>>

(* What dwdiff writes, in the layout of the second file: the words of the  *)
(* parts that are printed, and whatever the options put in besides.  The   *)
(* deleted and the common words are the text of the first file.            *)
Reformatted ==
    [state |-> "whole", of |-> option.oldFile, layout |-> option.newFile,
     words |-> {p \in {"printDeleted", "printCommon", "printAdded"} : option[p]},
     besides |-> {x \in {"lineNumbers", "colorMode", "overstrike", "paraDelim",
                         "repeatMarkers", "needMarkers"} : option[x]}
                 \cup {m \in MarkerNames : option.marker[m] # ""}
                 \cup (IF option.context = -1 THEN {} ELSE {"context"})]

Reads == IF "stdin" \in {option.oldFile, option.newFile} THEN "read" ELSE stdin

(* fflush of the output is not checked: with a full disk dwdiff returns    *)
(* the result of the comparison all the same.                              *)
Compare ==
    /\ child = "dwdiff" /\ phase = "parsed"
    /\ \E differences \in {0, 1} : Ends(differences)
    /\ stdin' = Reads
    /\ \/ /\ tempfile' = IF option.output = "tempfile" THEN Reformatted ELSE tempfile
          /\ UNCHANGED fault
       \/ /\ "write" \in Faults
          /\ tempfile' = IF option.output = "tempfile" THEN [state |-> "part"] ELSE tempfile
          /\ fault' = TRUE
    /\ UNCHANGED <<optionVars, command, main, seen, exitStatus>>

(* readFile: an input cannot be opened or read, or a temporary file cannot *)
(* be made or written.  Nothing has been printed yet.                      *)
ReadFileFails ==
    /\ "read" \in Faults
    /\ child = "dwdiff" /\ phase = "parsed"
    /\ Ends(2)
    /\ stdin' \in {stdin, Reads}
    /\ fault' = TRUE
    /\ UNCHANGED <<optionVars, command, main, tempfile, seen, exitStatus>>

(* A read from a temporary file of dwdiff fails while the text is printed. *)
(* It is fatal after an escape; otherwise it is taken for the end of a     *)
(* word, and dwdiff returns the result of the comparison.  But printEnd    *)
(* goes on to the end of the new file's tokens, and that is never seen     *)
(* when they are what cannot be read.                                      *)
ReadingBackFails ==
    /\ "read" \in Faults
    /\ child = "dwdiff" /\ phase = "parsed"
    /\ \/ \E code \in {0, 1, 2} : Ends(code)
       \/ option.printCommon /\ child' = "looping" /\ UNCHANGED status
    /\ stdin' = Reads
    /\ tempfile' = IF option.output = "tempfile" THEN [state |-> "part"] ELSE tempfile
    /\ fault' = TRUE
    /\ UNCHANGED <<optionVars, command, main, seen, exitStatus>>

(* The loop of printEnd, in which nothing changes any more *)
printEndLoops == child = "looping" /\ UNCHANGED vars

(* The post processor ends on its own account. *)
PostProcessorEnds ==
    /\ child = "post"
    /\ \E code \in {0, 1} : Ends(code)
    /\ UNCHANGED <<optionVars, command, main, tempfile, stdin, seen, fault, exitStatus>>

Killed ==
    /\ "kill" \in Faults
    /\ child \in {"dwdiff", "looping", "post"} /\ main # "shell"
    /\ Ends(KilledBySignal)
    /\ fault' = (fault \/ child # "post")
    /\ tempfile' \in {tempfile} \cup (IF child = "post" THEN {} ELSE {[state |-> "part"]})
    /\ UNCHANGED <<optionVars, command, main, stdin, seen, exitStatus>>

Done == main = "exited" \/ (main = "shell" /\ child = "ended")

Terminated == Done /\ UNCHANGED vars

Steps == \/ DwfilterParses \/ createTempfile \/ Fork \/ ExecDwdiff
         \/ ExecPostProcessor \/ ExecFails \/ Wait
         \/ DwdiffParses \/ DwdiffStops \/ Compare \/ ReadFileFails \/ ReadingBackFails
         \/ PostProcessorEnds

Next == Steps \/ Killed \/ printEndLoops \/ Terminated

Spec == Init /\ [][Next]_vars

(* Programs run until they end; nobody has to kill one. *)
FairSpec == Spec /\ WF_vars(Steps)

-----------------------------------------------------------------------------

(* The pair dwfilter promises its post processor *)
Promised ==
    LET Whole(f) == [state |-> "whole", of |-> f]
        Text(f) == IF f = "-" THEN "stdin" ELSE f
        Layout(f, g) == [state |-> "whole", of |-> Text(f), layout |-> Text(g),
                         words |-> {"printDeleted", "printCommon"}, besides |-> {}]
        old == command.files[1]
        new == command.files[2]
    IN IF reverse THEN <<Whole(old), Layout(new, old)>>
       ELSE <<Layout(old, new), Whole(new)>>

(* dwfilter.1:10: dwfilter   "passes the reformated old file and the new   *)
(* file through a secondary filter", or with -r the old file and the       *)
(* reformatted new file (dwfilter.c:202, 217).                             *)
FilterGetsBoth == seen # << >> => seen = Promised

(* dwfilter.c:198-218, option.c:508-520, 559-582, 664-740: when dwdiff did *)
(* not fail, the post processor finds the promised texts in the order of   *)
(* its arguments.  One of them is the plain text of its file, although a   *)
(* profile asks dwdiff to leave out parts, to print markers, colours or    *)
(* paragraph separators or to overstrike.  Left out are the three cases in *)
(* which it does not: the other file is standard input, which dwdiff has   *)
(* read; a profile has line-numbers; and the user asks for context lines.  *)
PostProcessorSees ==
    LET given == {ProfileRead[i].name : i \in DOMAIN ProfileRead}
                 \cup {argv[i].name : i \in DOMAIN argv}
        kept == command.files[IF reverse THEN 1 ELSE 2]
    IN seen # << >> /\ ~fault /\ kept # "-" /\ {"line_numbers", "context"} \cap given = {}
          => seen = Promised

(* dwfilter.c:138-154: the temporary file is there as long as a program    *)
(* that was given its name runs, although a copy of dwfilter that cannot   *)
(* execute the program deletes it; and it is gone when dwfilter has ended, *)
(* whichever way it did.                                                   *)
TempFileThere ==
    /\ main # "shell" /\ child \in {"dwdiff", "looping", "post"} => tempfile # NoFile
    /\ main = "exited" => tempfile = NoFile /\ child = NONE

(* dwfilter.c:156-170, option.c:793: every call ends, also when a child is *)
(* killed, cannot be started or fails, but for one case: dwdiff cannot     *)
(* read its temporary file back and stays in printEnd (doDiff.c:484).      *)
(* dwfilter then waits without limit.  The fairness is that of programs    *)
(* that run until they end; a post processor that never ends is left out.  *)
EventuallyDone == <>Done \/ <>[](child = "looping")

=============================================================================

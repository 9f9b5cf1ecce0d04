--------------------------- MODULE DwfilterProofs --------------------------
(***************************************************************************)
(* The temporary file of dwfilter, for all calls, profiles and faults.     *)
(*                                                                         *)
(* TempFileThere is not inductive: that the post processor has the file    *)
(* depends on how the child before it ended.  The file can only be missing *)
(* after dwdiff when dwdiff could not be executed, and then the status is  *)
(* above 2 and dwfilter does not go on.                                    *)
(***************************************************************************)
EXTENDS Dwfilter, TLAPS

MissingMeans127 ==
    main = "dwdiff" /\ child = "ended" /\ tempfile = NoFile => status = 127

IInv ==
    /\ main \in {"shell", "start", "create", "dwdiff", "post", "exited"}
    /\ child \in {NONE, "forked", "dwdiff", "looping", "post", "ended"}
    /\ main = "shell" => child \in {"dwdiff", "looping", "ended"}
    /\ main \in {"start", "create", "exited"} => child = NONE
    /\ main \in {"start", "exited"} => tempfile = NoFile
    /\ main \in {"dwdiff", "post"} /\ child # "ended" => tempfile # NoFile
    /\ status \in Int
    /\ MissingMeans127

(* A file with contents, or with none yet, is not a missing one. *)
LEMMA FilesExist ==
    EmptyFile # NoFile /\ [state |-> "part"] # NoFile /\ Reformatted # NoFile
<1>1. EmptyFile.state = "empty" /\ NoFile.state = "absent"
  BY DEF EmptyFile, NoFile
<1>2. Reformatted.state = "whole"
  BY DEF Reformatted
<1>3. [state |-> "part"].state = "part"
  OBVIOUS
<1> QED
  BY <1>1, <1>2, <1>3

(* The invariant holds when a program is started. *)
LEMMA InitIInv == Init => IInv
<1> SUFFICES ASSUME Init PROVE IInv
  OBVIOUS
<1>1. PICK c \in Commands :
         /\ main = IF c.program = "dwdiff" THEN "shell" ELSE "start"
         /\ child = IF c.program = "dwdiff" THEN "dwdiff" ELSE NONE
  BY DEF Init
<1>2. tempfile = NoFile /\ status = 0
  BY DEF Init
<1> QED
  BY <1>1, <1>2 DEF IInv, MissingMeans127, NONE

(* Waiting for dwdiff only leads to the post processor with the file in    *)
(* place.                                                                  *)
LEMMA WaitIInv == IInv /\ Wait => IInv'
<1> SUFFICES ASSUME IInv, Wait PROVE IInv'
  OBVIOUS
<1>1. /\ main \in {"dwdiff", "post"}
      /\ child = "ended" /\ child' = NONE
      /\ status \in Int /\ status' = status
  BY DEF IInv, Wait, NONE
<1>2. CASE Exit(2)
  BY <1>1, <1>2 DEF Exit, IInv, MissingMeans127, NONE
<1>3. CASE Waited /\ main = "post"
  BY <1>1, <1>3 DEF Waited, Exit, IInv, MissingMeans127, NONE
<1>4. CASE Waited /\ main = "dwdiff"
  <2>1. CASE tempfile = NoFile
    <3>1. status = 127
      BY <1>1, <1>4, <2>1 DEF IInv, MissingMeans127
    <3>2. Exit(2)
      BY <1>4, <3>1 DEF Waited, KilledBySignal
    <3> QED
      BY <1>2, <3>2
  <2>2. CASE tempfile # NoFile
    <3> DEFINE code == IF status = KilledBySignal THEN 0 ELSE status
    <3>c. code \in Int
      BY DEF IInv
    <3>1. CASE code > 2
      <4>0. status # KilledBySignal /\ status > 2 /\ ~(status <= 2)
        BY <1>1, <3>1
      <4>1. Exit(2)
        BY <1>4, <4>0 DEF Waited
      <4> QED
        BY <1>2, <4>1
    <3>2. CASE code <= 2
      <4>1. main' = "post" /\ tempfile' = tempfile
        BY <1>4, <3>c, <3>2 DEF Waited
      <4> QED
        BY <1>1, <2>2, <4>1 DEF IInv, MissingMeans127, NONE
    <3> QED
      BY <3>c, <3>1, <3>2
  <2> QED
    BY <2>1, <2>2
<1> QED
  BY <1>1, <1>2, <1>3, <1>4 DEF Wait

(* Every other step of the two programs and of the system keeps it. *)
LEMMA NextIInv == IInv /\ [Next]_vars => IInv'
<1> SUFFICES ASSUME IInv, [Next]_vars PROVE IInv'
  OBVIOUS
<1> USE FilesExist DEF NONE
<1>1. CASE DwfilterParses
  BY <1>1 DEF DwfilterParses, Exit, IInv, MissingMeans127
<1>2. CASE createTempfile
  BY <1>2 DEF createTempfile, Exit, IInv, MissingMeans127
<1>3. CASE Fork
  BY <1>3 DEF Fork, Exit, IInv, MissingMeans127
<1>4. CASE ExecDwdiff
  BY <1>4 DEF ExecDwdiff, IInv, MissingMeans127
<1>5. CASE ExecPostProcessor
  BY <1>5 DEF ExecPostProcessor, IInv, MissingMeans127
<1>6. CASE ExecFails
  BY <1>6 DEF ExecFails, IInv, MissingMeans127
<1>7. CASE Wait
  BY <1>7, WaitIInv
<1>8. CASE DwdiffParses
  BY <1>8 DEF DwdiffParses, processVars, IInv, MissingMeans127
<1>9. CASE DwdiffStops
  BY <1>9 DEF DwdiffStops, Ends, IInv, MissingMeans127
<1>10. CASE Compare
  <2>1. tempfile' \in {tempfile, Reformatted, [state |-> "part"]}
    BY <1>10 DEF Compare
  <2>2. child = "dwdiff" /\ child' = "ended" /\ main' = main /\ status' \in Int
    BY <1>10 DEF Compare, Ends
  <2> QED
    BY <2>1, <2>2 DEF IInv, MissingMeans127
<1>11. CASE ReadFileFails
  BY <1>11 DEF ReadFileFails, Ends, IInv, MissingMeans127
<1>12. CASE PostProcessorEnds
  BY <1>12 DEF PostProcessorEnds, Ends, IInv, MissingMeans127
<1>13. CASE Killed
  <2>1. tempfile' \in {tempfile, [state |-> "part"]}
    BY <1>13 DEF Killed
  <2>2. child \in {"dwdiff", "looping", "post"} /\ child' = "ended" /\ main' = main /\ status' \in Int
    BY <1>13 DEF Killed, Ends, KilledBySignal
  <2> QED
    BY <2>1, <2>2 DEF IInv, MissingMeans127
<1>14. CASE ReadingBackFails
  <2>1. tempfile' \in {tempfile, [state |-> "part"]}
    BY <1>14 DEF ReadingBackFails
  <2>2. /\ child = "dwdiff" /\ child' \in {"looping", "ended"}
        /\ main' = main /\ status' \in Int
    BY <1>14 DEF ReadingBackFails, Ends, IInv
  <2> QED
    BY <2>1, <2>2 DEF IInv, MissingMeans127
<1>15. CASE UNCHANGED vars
  BY <1>15 DEF vars, processVars, IInv, MissingMeans127
<1> QED
  BY <1>1, <1>2, <1>3, <1>4, <1>5, <1>6, <1>7, <1>8, <1>9, <1>10, <1>11, <1>12,
     <1>13, <1>14, <1>15 DEF Next, Steps, printEndLoops, Terminated

(* dwfilter.c:138-154, 206: for every call, every profile and whatever     *)
(* fails, the temporary file is there while dwdiff or the post processor   *)
(* may open it, and gone when dwfilter has ended.                          *)
THEOREM TempFileIsThere == Spec => []TempFileThere
<1>1. IInv => TempFileThere
  <2> SUFFICES ASSUME IInv PROVE TempFileThere
    OBVIOUS
  <2>1. main # "shell" /\ child \in {"dwdiff", "looping", "post"} => tempfile # NoFile
    BY DEF IInv, NONE
  <2>2. main = "exited" => tempfile = NoFile /\ child = NONE
    BY DEF IInv
  <2> QED
    BY <2>1, <2>2 DEF TempFileThere
<1> QED
  BY InitIInv, NextIInv, <1>1, PTL DEF Spec

=============================================================================

--------------------------- MODULE DiffInputProofs -------------------------
(***************************************************************************)
(* The temporary files of dwdiff -u, for a unified diff with any number of *)
(* lines and hunks.                                                        *)
(*                                                                         *)
(* That the slots suffice for a hunk depends on what the hunk before it    *)
(* left: between two hunks at most the two files of splitDiffInput are in  *)
(* use, however often tempFile failed.                                     *)
(***************************************************************************)
EXTENDS DiffInput, TLAPS

TempFile == [text : Seq(Nat), closed : BOOLEAN]

IInv ==
    /\ next \in Nat
    /\ files \in Seq(TempFile)
    /\ Len(files) <= 2
    /\ outcome \in {"exit", "exit 2"} => files = << >>

(* tempFile uses the slots that follow those in use. *)
LEMMA TempFileType ==
    ASSUME NEW slots \in Seq(TempFile), NEW n \in Nat
    PROVE  /\ tempFile(slots, n) \in Seq(TempFile)
           /\ Len(tempFile(slots, n)) = Len(slots) + n
<1>1. EmptyFile \in TempFile
  BY DEF EmptyFile, TempFile
<1> DEFINE made == [k \in 1..n |-> EmptyFile]
<1>2. made \in Seq(TempFile) /\ Len(made) = n
  BY <1>1
<1> QED
  BY <1>2 DEF tempFile

(* Closing a file, and resetting all of them *)
LEMMA CloseType ==
    ASSUME NEW slots \in Seq(TempFile), NEW f
    PROVE  /\ closeTempFile(slots, f) \in Seq(TempFile)
           /\ Len(closeTempFile(slots, f)) = Len(slots)
<1>1. DOMAIN slots = 1..Len(slots) /\ Len(slots) \in Nat
  OBVIOUS
<1> DEFINE closed == closeTempFile(slots, f)
<1>2. DOMAIN closed = 1..Len(slots)
  BY <1>1 DEF closeTempFile
<1>3. ASSUME NEW k \in 1..Len(slots) PROVE closed[k] \in TempFile
  <2>1. slots[k] \in TempFile
    BY <1>1
  <2>2. closed[k] = IF k = f THEN [slots[f] EXCEPT !.closed = TRUE] ELSE slots[k]
    BY <1>1 DEF closeTempFile
  <2> QED
    BY <2>1, <2>2 DEF TempFile
<1>4. closed = [k \in 1..Len(slots) |-> closed[k]]
  BY <1>1 DEF closeTempFile
<1> HIDE DEF closed
<1>5. closed \in [1..Len(slots) -> TempFile]
  BY <1>3, <1>4
<1>6. closed \in Seq(TempFile) /\ Len(closed) = Len(slots)
  BY <1>1, <1>5
<1> QED
  BY <1>6 DEF closed

(* The two files of the next hunk come into empty slots. *)
LEMMA MadeType ==
    ASSUME NEW slots, NEW old, NEW new, MakeFiles(<< >>, slots, old, new)
    PROVE  slots \in Seq(TempFile) /\ Len(slots) <= 2
<1>1. PICK oldMade \in 0..1, newMade \in 0..1 : slots = tempFile(<< >>, oldMade + newMade)
  BY DEF MakeFiles
<1>2. << >> \in Seq(TempFile) /\ oldMade + newMade \in Nat /\ oldMade + newMade <= 2
  OBVIOUS
<1>3. slots \in Seq(TempFile) /\ Len(slots) = Len(<< >>) + (oldMade + newMade)
  BY <1>1, <1>2, TempFileType
<1> QED
  BY <1>2, <1>3

(* Writing to some of the files *)
LEMMA WriteType ==
    ASSUME files \in Seq(TempFile), next' \in Nat, NEW targets, Write(targets)
    PROVE  files' \in Seq(TempFile) /\ Len(files') = Len(files)
<1>1. ASSUME NEW f \in DOMAIN files
      PROVE  [files[f] EXCEPT !.text = Append(@, next')] \in TempFile
  <2>1. files[f] \in TempFile
    OBVIOUS
  <2>2. Append(files[f].text, next') \in Seq(Nat)
    BY <2>1 DEF TempFile
  <2> QED
    BY <2>1, <2>2 DEF TempFile
<1>2. \A f \in DOMAIN files : files[f] \in TempFile
  OBVIOUS
<1>3. DOMAIN files = 1..Len(files) /\ Len(files) \in Nat
  OBVIOUS
<1>4. files' \in [1..Len(files) -> TempFile]
  BY <1>1, <1>2, <1>3 DEF Write
<1> QED
  BY <1>3, <1>4

(* The invariant holds at the start, with or without the two files. *)
LEMMA InitIInv == SplitInit => IInv
<1> SUFFICES ASSUME SplitInit PROVE IInv
  OBVIOUS
<1>1. files \in Seq(TempFile) /\ Len(files) <= 2
  BY MadeType DEF SplitInit
<1> QED
  BY <1>1 DEF SplitInit, IInv

(* Every step keeps it: only the end of a hunk takes and gives back slots. *)
LEMMA NextIInv == IInv /\ [SplitNext]_splitVars => IInv'
<1> SUFFICES ASSUME IInv, [SplitNext]_splitVars PROVE IInv'
  OBVIOUS
<1>1. CASE Copy
  BY <1>1 DEF Copy, getNextCharSC, IInv
<1>2. CASE FirstOfLine
  <2>1. PICK c \in DOMAIN LineMode : getNextCharSC(c) /\ Write(Targets(LineMode[c]))
    BY <1>2 DEF FirstOfLine
  <2>2. next' \in Nat /\ outcome = "RUNNING" /\ outcome' = outcome
    BY <1>2, <2>1 DEF FirstOfLine, getNextCharSC, IInv
  <2>3. files' \in Seq(TempFile) /\ Len(files') = Len(files)
    BY <2>1, <2>2, WriteType DEF IInv
  <2> QED
    BY <2>2, <2>3 DEF IInv
<1>3. CASE RestOfLine
  <2>1. next' \in Nat /\ outcome = "RUNNING" /\ outcome' = outcome
    BY <1>3 DEF RestOfLine, getNextCharSC, IInv
  <2>2. files' \in Seq(TempFile) /\ Len(files') = Len(files)
    BY <1>3, <2>1, WriteType DEF RestOfLine, IInv
  <2> QED
    BY <2>1, <2>2 DEF IInv
<1>4. CASE EndHunk
  <2>1. next' \in Nat /\ outcome = "RUNNING" /\ outcome' = outcome
    BY <1>4 DEF EndHunk, getNextCharSC, IInv
  <2>2. MakeFiles(<< >>, files', oldFile', newFile')
    BY <1>4 DEF EndHunk, resetTempFiles
  <2>3. files' \in Seq(TempFile) /\ Len(files') <= 2
    BY <2>2, MadeType
  <2> QED
    BY <2>1, <2>3 DEF IInv
<1>e. << >> \in Seq(TempFile) /\ Len(<< >>) <= 2
  OBVIOUS
<1>5. CASE LastHunk
  <2>1. files' = << >> /\ next' = next
    BY <1>5 DEF LastHunk, resetTempFiles
  <2> QED
    BY <1>e, <2>1 DEF IInv
<1>6. CASE Fatal
  <2>1. files' = << >> /\ next' = next
    BY <1>6 DEF Fatal, Ends, resetTempFiles
  <2> QED
    BY <1>e, <2>1 DEF IInv
<1>7. CASE Crash
  BY <1>7 DEF Crash, Ends, IInv
<1>8. CASE UNCHANGED splitVars
  BY <1>8 DEF splitVars, IInv
<1> QED
  BY <1>1, <1>2, <1>3, <1>4, <1>5, <1>6, <1>7, <1>8 DEF SplitNext, SplitEnded

(* tempfile.c:37 ASSERT(openIndex < sizeof(files) / sizeof(files[0])): the *)
(* six slots are enough for every hunk of every unified diff, and no file  *)
(* is left behind when dwdiff exits.                                       *)
THEOREM SlotsSuffice == SplitSpec => []TempFilesInHand
<1>1. IInv => TempFilesInHand
  <2> SUFFICES ASSUME IInv PROVE TempFilesInHand
    OBVIOUS
  <2>1. /\ closeTempFile(files, oldFile) \in Seq(TempFile)
        /\ Len(closeTempFile(files, oldFile)) = Len(files)
    BY CloseType DEF IInv
  <2> DEFINE closed == closeTempFile(closeTempFile(files, oldFile), newFile)
  <2>2. closed \in Seq(TempFile) /\ Len(closed) = Len(files)
    BY <2>1, CloseType
  <2>3. Len(tempFile(closed, 4)) = Len(closed) + 4
    <3> HIDE DEF closed
    <3> QED
      BY <2>2, TempFileType
  <2>4. Len(InUse) <= Slots
    <3>1. InUse = tempFile(closed, 4)
      BY DEF InUse
    <3>2. files \in Seq(TempFile) /\ Len(files) <= 2
      BY DEF IInv
    <3>3. Len(files) \in Nat
      BY <3>2
    <3> HIDE DEF closed
    <3> QED
      BY <2>2, <2>3, <3>1, <3>2, <3>3 DEF Slots
  <2>5. Len(resetTempFiles(InUse)) + 2 <= Slots
    BY DEF resetTempFiles, Slots
  <2> QED
    BY <2>4, <2>5 DEF TempFilesInHand, SlotsLeft, IInv
<1> QED
  BY InitIInv, NextIInv, <1>1, PTL DEF SplitSpec

-----------------------------------------------------------------------------
(* Every character in its place                                            *)
(*                                                                         *)
(* InputInOrder is not inductive: it says nothing of the line that is      *)
(* being read.  The invariant says of each mode of splitDiffInput what the *)
(* characters before it were, and that the texts of the hunk are the lines *)
(* since the line counts.  It is stated for a given input s and does not   *)
(* mention the state.                                                      *)

Item == [old : Seq(Nat), new : Seq(Nat), compared : BOOLEAN]

(* The marker of the line of character p of s *)
Marker(s, p) == s[Max({1} \cup {q \in 2..p : s[q - 1] = "newline"})]

Ordered(text) == \A a, b \in DOMAIN text : a < b => text[a] < text[b]

(* An item of the output with the characters after the first m up to n *)
Covers(item, m, n) ==
    /\ Ordered(item.old) /\ Ordered(item.new)
    /\ Range(item.old) \cup Range(item.new) = (m + 1)..n

(* The two texts have the lines with the right markers, and follow a line  *)
(* of line counts.                                                         *)
MarkedFrom(s, m, n, old, new) ==
    /\ \A p \in (m + 1)..n : /\ p \in Range(old) <=> Marker(s, p) \in {"-", "space"}
                             /\ p \in Range(new) <=> Marker(s, p) \in {"+", "space"}
    /\ m < n => m > 0 /\ Marker(s, m) = "@"

Marked(s, item) ==
    LET all == Range(item.old \o item.new)
    IN  item.compared /\ all # {} =>
           /\ Range(item.old) = {p \in all : Marker(s, p) \in {"-", "space"}}
           /\ Range(item.new) = {p \in all : Marker(s, p) \in {"+", "space"}}
           /\ Min(all) > 1 /\ Marker(s, Min(all) - 1) = "@"

(* Output with the first n characters *)
Good(s, items, n) ==
    /\ items \in Seq(Item)
    /\ InOrder([k \in DOMAIN items |-> items[k].old])
    /\ InOrder([k \in DOMAIN items |-> items[k].new])
    /\ UNION {Range(items[k].old \o items[k].new) : k \in DOMAIN items} = 1..n
    /\ \A k \in DOMAIN items : Marked(s, items[k])

(* The line that is being read, when n characters have been read *)
InLine(s, md, n) ==
    /\ md = "FIRST_HEADER" => n = 0 \/ s[n] = "newline"
    /\ md = "FIRST" => n > 0 /\ s[n] = "newline"
    /\ md \in {"LINE_COUNTS", "OLD", "NEW", "COMMON"} => n > 0 /\ s[n] # "newline"
    /\ md = "LINE_COUNTS" => Marker(s, n) = "@"
    /\ md = "OLD" => Marker(s, n) = "-"
    /\ md = "NEW" => Marker(s, n) = "+"
    /\ md = "COMMON" => Marker(s, n) = "space"

(* The hunk that is being collected, which begins after character m *)
Collected(s, md, m, n, old, new) ==
    /\ old \in Seq(Nat) /\ new \in Seq(Nat)
    /\ Ordered(old) /\ Ordered(new)
    /\ Range(old) \cup Range(new) = (m + 1)..n
    /\ MarkedFrom(s, m, n, old, new)
    /\ IF md \in {"FIRST_HEADER", "HEADER", "LINE_COUNTS"} THEN m = n
       ELSE m > 0 /\ Marker(s, m) = "@"

Modes == {"FIRST_HEADER", "HEADER", "LINE_COUNTS", "FIRST", "OLD", "NEW", "COMMON"}

PlaceInv ==
    /\ diff \in Seq(DiffChar) /\ next \in 0..Len(diff) /\ mode \in Modes
    /\ outcome = "RUNNING" /\ NULL \notin {oldFile, newFile} =>
          /\ oldFile = 1 /\ newFile = 2 /\ DOMAIN files = 1..2
          /\ InLine(diff, mode, next)
          /\ \E m \in 0..next : /\ Good(diff, out, m)
                                /\ Collected(diff, mode, m, next, OldText, NewText)
    /\ outcome = "exit" => Good(diff, out, next)

(* The first character of a line is its marker. *)
LEMMA MarkerFirst ==
    ASSUME NEW s, NEW n \in Nat, n = 0 \/ s[n] = "newline"
    PROVE  Marker(s, n + 1) = s[n + 1]
<1> DEFINE S == {1} \cup {q \in 2..(n + 1) : s[q - 1] = "newline"}
<1>1. n + 1 \in S /\ S \subseteq Nat /\ \A q \in S : n + 1 >= q
  OBVIOUS
<1> HIDE DEF S
<1>2. Max(S) = n + 1
  <2>1. Max(S) \in S /\ \A q \in S : Max(S) >= q
    BY <1>1 DEF Max
  <2>2. Max(S) \in Nat /\ Max(S) >= n + 1 /\ n + 1 >= Max(S)
    BY <1>1, <2>1
  <2> HIDE DEF Max
  <2> QED
    BY <2>2
<1> QED
  BY <1>2 DEF Marker, S

(* The other characters have the marker of the one before them. *)
LEMMA MarkerSame ==
    ASSUME NEW s, NEW n \in Nat, n > 0, s[n] # "newline"
    PROVE  Marker(s, n + 1) = Marker(s, n)
<1>1. {q \in 2..(n + 1) : s[q - 1] = "newline"} = {q \in 2..n : s[q - 1] = "newline"}
  OBVIOUS
<1> QED
  BY <1>1 DEF Marker

(* A character is added to a text. *)
LEMMA AppendText ==
    ASSUME NEW text \in Seq(Nat), Ordered(text), NEW n \in Nat,
           \A p \in Range(text) : p <= n
    PROVE  /\ Append(text, n + 1) \in Seq(Nat)
           /\ Ordered(Append(text, n + 1))
           /\ Range(Append(text, n + 1)) = Range(text) \cup {n + 1}
<1> DEFINE u == Append(text, n + 1)
           l == Len(text)
<1>1. l \in Nat /\ DOMAIN text = 1..l /\ \A a \in 1..l : text[a] \in Nat /\ text[a] <= n
  BY DEF Range
<1>2. /\ u \in Seq(Nat) /\ DOMAIN u = 1..(l + 1) /\ u[l + 1] = n + 1
      /\ \A a \in 1..l : u[a] = text[a]
  OBVIOUS
<1> HIDE DEF u, l
<1>3. ASSUME NEW a \in 1..(l + 1), NEW b \in 1..(l + 1), a < b PROVE u[a] < u[b]
  <2>1. a \in 1..l
    BY <1>1, <1>3
  <2>2. CASE b \in 1..l
    BY <1>1, <1>2, <1>3, <2>1, <2>2 DEF Ordered
  <2>3. CASE b = l + 1
    BY <1>1, <1>2, <2>1, <2>3
  <2> QED
    BY <1>1, <2>2, <2>3
<1>4. Ordered(u)
  BY <1>2, <1>3 DEF Ordered
<1>5. Range(u) = Range(text) \cup {n + 1}
  <2>1. Range(u) = {u[a] : a \in 1..(l + 1)} /\ Range(text) = {text[a] : a \in 1..l}
    BY <1>1, <1>2 DEF Range
  <2>2. \A a : a \in 1..(l + 1) <=> a \in 1..l \/ a = l + 1
    BY <1>1
  <2>3. ASSUME NEW x \in Range(u) PROVE x \in Range(text) \cup {n + 1}
    BY <1>2, <2>1, <2>2, <2>3
  <2>4. ASSUME NEW x \in Range(text) PROVE x \in Range(u)
    BY <1>2, <2>1, <2>2, <2>4
  <2>5. n + 1 \in Range(u)
    BY <1>2, <2>1, <2>2
  <2> QED
    BY <2>3, <2>4, <2>5
<1> QED
  BY <1>2, <1>4, <1>5 DEF u

(* The characters of two texts *)
LEMMA BothTexts ==
    ASSUME NEW old \in Seq(Nat), NEW new \in Seq(Nat)
    PROVE  Range(old \o new) = Range(old) \cup Range(new)
<1> DEFINE u == old \o new
           k == Len(old)
           l == Len(new)
<1>1. /\ k \in Nat /\ l \in Nat /\ DOMAIN old = 1..k /\ DOMAIN new = 1..l
      /\ DOMAIN u = 1..(k + l)
      /\ \A a \in 1..k : u[a] = old[a]
      /\ \A a \in 1..l : u[k + a] = new[a]
  OBVIOUS
<1> HIDE DEF u, k, l
<1>2. ASSUME NEW x \in Range(u) PROVE x \in Range(old) \cup Range(new)
  <2>1. PICK a \in 1..(k + l) : x = u[a]
    BY <1>1, <1>2 DEF Range
  <2>2. CASE a \in 1..k
    BY <1>1, <2>1, <2>2 DEF Range
  <2>3. CASE a \notin 1..k
    <3>1. a - k \in 1..l /\ a = k + (a - k)
      BY <1>1, <2>3
    <3>2. u[a] = new[a - k]
      BY <1>1, <3>1
    <3> QED
      BY <1>1, <2>1, <3>1, <3>2 DEF Range
  <2> QED
    BY <2>2, <2>3
<1>3. ASSUME NEW x \in Range(old) PROVE x \in Range(u)
  <2>1. PICK a \in 1..k : x = old[a]
    BY <1>1, <1>3 DEF Range
  <2>2. a \in 1..(k + l)
    BY <1>1
  <2> QED
    BY <1>1, <2>1, <2>2 DEF Range
<1>4. ASSUME NEW x \in Range(new) PROVE x \in Range(u)
  <2>1. PICK a \in 1..l : x = new[a]
    BY <1>1, <1>4 DEF Range
  <2>2. k + a \in 1..(k + l)
    BY <1>1
  <2> QED
    BY <1>1, <2>1, <2>2 DEF Range
<1> QED
  BY <1>2, <1>3, <1>4 DEF u

(* A text after the ones that are there *)
LEMMA TextAfter ==
    ASSUME NEW texts \in Seq(Seq(Nat)), InOrder(texts), NEW text \in Seq(Nat), Ordered(text),
           \A k \in DOMAIN texts : \A p \in Range(texts[k]), q \in Range(text) : p < q
    PROVE  InOrder(Append(texts, text))
<1> DEFINE u == Append(texts, text)
           l == Len(texts)
<1>1. l \in Nat /\ DOMAIN texts = 1..l
  OBVIOUS
<1>2. DOMAIN u = 1..(l + 1) /\ u[l + 1] = text /\ \A k \in 1..l : u[k] = texts[k]
  OBVIOUS
<1> HIDE DEF u, l
<1>3. SUFFICES ASSUME NEW j \in 1..(l + 1), NEW k \in 1..(l + 1),
                      NEW a \in DOMAIN u[j], NEW b \in DOMAIN u[k], j < k \/ (j = k /\ a < b)
               PROVE  u[j][a] < u[k][b]
  BY <1>2 DEF InOrder, u
<1>4. CASE k \in 1..l
  <2>1. j \in 1..l
    BY <1>1, <1>3, <1>4
  <2> QED
    BY <1>1, <1>2, <1>3, <1>4, <2>1 DEF InOrder
<1>5. CASE k = l + 1 /\ j = l + 1
  BY <1>1, <1>2, <1>3, <1>5 DEF Ordered
<1>6. CASE k = l + 1 /\ j # l + 1
  <2>1. j \in 1..l
    BY <1>1, <1>6
  <2>2. u[j] = texts[j] /\ u[k] = text
    BY <1>2, <1>6, <2>1
  <2>3. texts[j][a] \in Range(texts[j]) /\ text[b] \in Range(text)
    BY <2>2 DEF Range
  <2> QED
    BY <1>1, <2>1, <2>2, <2>3
<1> QED
  BY <1>1, <1>4, <1>5, <1>6

(* The output goes on. *)
LEMMA GoodAppend ==
    ASSUME NEW s, NEW items, NEW m \in Nat, NEW n \in Nat, m <= n, Good(s, items, m),
           NEW item \in Item, Covers(item, m, n), Marked(s, item)
    PROVE  Good(s, Append(items, item), n)
<1> DEFINE u == Append(items, item)
           l == Len(items)
           All(it) == Range(it.old \o it.new)
<1>1. items \in Seq(Item) /\ l \in Nat /\ DOMAIN items = 1..l
  BY DEF Good
<1>2. /\ u \in Seq(Item) /\ DOMAIN u = 1..(l + 1) /\ u[l + 1] = item
      /\ \A k \in 1..l : u[k] = items[k]
  BY <1>1
<1>3. \A it \in Item : /\ it.old \in Seq(Nat) /\ it.new \in Seq(Nat)
                       /\ All(it) = Range(it.old) \cup Range(it.new)
  BY BothTexts DEF Item
<1>4. All(item) = (m + 1)..n
  BY <1>3 DEF Covers
<1>5. \A k \in 1..l : items[k] \in Item /\ All(items[k]) \subseteq 1..m
  <2>1. UNION {All(items[k]) : k \in 1..l} = 1..m
    BY <1>1 DEF Good
  <2> QED
    BY <1>1, <2>1
<1> HIDE DEF u, l, All
<1>6. \A k \in 1..l : \A p \in All(items[k]), q \in All(item) : p < q
  BY <1>4, <1>5
<1>7. InOrder([k \in DOMAIN u |-> u[k].old])
  <2> DEFINE olds == [k \in 1..l |-> items[k].old]
  <2>1. olds \in Seq(Seq(Nat)) /\ DOMAIN olds = 1..l
    BY <1>1, <1>3, <1>5
  <2>2. InOrder(olds)
    BY <1>1 DEF Good
  <2>3. item.old \in Seq(Nat) /\ Ordered(item.old)
    BY <1>3 DEF Covers
  <2>4. \A k \in 1..l : \A p \in Range(olds[k]), q \in Range(item.old) : p < q
    BY <1>3, <1>5, <1>6
  <2>5. [k \in DOMAIN u |-> u[k].old] = Append(olds, item.old)
    <3>1. Append(olds, item.old) = [k \in 1..(l + 1) |-> IF k \in 1..l THEN olds[k] ELSE item.old]
      BY <1>1, <2>1, <2>3
    <3> QED
      BY <1>1, <1>2, <3>1
  <2> HIDE DEF olds
  <2>6. InOrder(Append(olds, item.old))
    BY <2>1, <2>2, <2>3, <2>4, TextAfter
  <2> QED
    BY <2>5, <2>6
<1>8. InOrder([k \in DOMAIN u |-> u[k].new])
  <2> DEFINE news == [k \in 1..l |-> items[k].new]
  <2>1. news \in Seq(Seq(Nat)) /\ DOMAIN news = 1..l
    BY <1>1, <1>3, <1>5
  <2>2. InOrder(news)
    BY <1>1 DEF Good
  <2>3. item.new \in Seq(Nat) /\ Ordered(item.new)
    BY <1>3 DEF Covers
  <2>4. \A k \in 1..l : \A p \in Range(news[k]), q \in Range(item.new) : p < q
    BY <1>3, <1>5, <1>6
  <2>5. [k \in DOMAIN u |-> u[k].new] = Append(news, item.new)
    <3>1. Append(news, item.new) = [k \in 1..(l + 1) |-> IF k \in 1..l THEN news[k] ELSE item.new]
      BY <1>1, <2>1, <2>3
    <3> QED
      BY <1>1, <1>2, <3>1
  <2> HIDE DEF news
  <2>6. InOrder(Append(news, item.new))
    BY <2>1, <2>2, <2>3, <2>4, TextAfter
  <2> QED
    BY <2>5, <2>6
<1>9. UNION {All(u[k]) : k \in DOMAIN u} = 1..n
  <2>1. UNION {All(items[k]) : k \in 1..l} = 1..m
    BY <1>1 DEF Good, All
  <2>2. {All(u[k]) : k \in DOMAIN u} = {All(items[k]) : k \in 1..l} \cup {All(item)}
    BY <1>1, <1>2
  <2>3. 1..m \cup (m + 1)..n = 1..n
    OBVIOUS
  <2> QED
    BY <1>4, <2>1, <2>2, <2>3
<1>10. \A k \in DOMAIN u : Marked(s, u[k])
  BY <1>1, <1>2 DEF Good
<1> QED
  BY <1>2, <1>7, <1>8, <1>9, <1>10 DEF Good, u, All

(* The texts that have been collected are a hunk of the output. *)
LEMMA HunkItem ==
    ASSUME NEW s, NEW md, NEW m \in Nat, NEW n \in Nat, m <= n, NEW old, NEW new,
           Collected(s, md, m, n, old, new)
    PROVE  /\ Hunk(old, new) \in Item
           /\ Covers(Hunk(old, new), m, n)
           /\ Marked(s, Hunk(old, new))
<1> DEFINE h == Hunk(old, new)
           all == Range(h.old \o h.new)
<1>1. old \in Seq(Nat) /\ new \in Seq(Nat) /\ h.old = old /\ h.new = new
  BY DEF Collected, Hunk
<1>2. h \in Item
  BY <1>1 DEF Hunk, Item
<1>3. Covers(h, m, n)
  BY <1>1 DEF Covers, Collected
<1>4. all = (m + 1)..n /\ Range(old) \subseteq all /\ Range(new) \subseteq all
  <2>1. all = Range(old) \cup Range(new)
    BY <1>1, BothTexts
  <2> QED
    BY <2>1 DEF Collected
<1> HIDE DEF all
<1>5. CASE all # {}
  <2>1. m < n /\ m + 1 \in all /\ \A p \in all : p \in Nat /\ m + 1 <= p
    BY <1>4, <1>5
  <2>2. Min(all) = m + 1
    <3>1. Min(all) \in all /\ \A p \in all : Min(all) <= p
      BY <2>1 DEF Min
    <3>2. Min(all) \in Nat /\ Min(all) <= m + 1 /\ m + 1 <= Min(all)
      BY <2>1, <3>1
    <3> HIDE DEF Min
    <3> QED
      BY <3>2
  <2>3. Min(all) > 1 /\ Min(all) - 1 = m
    <3>1. m > 0
      BY <2>1 DEF Collected, MarkedFrom
    <3> QED
      BY ONLY m \in Nat, <2>2, <3>1
  <2>4. Range(old) = {p \in all : Marker(s, p) \in {"-", "space"}}
    BY <1>4 DEF Collected, MarkedFrom
  <2>5. Range(new) = {p \in all : Marker(s, p) \in {"+", "space"}}
    BY <1>4 DEF Collected, MarkedFrom
  <2>6. Marker(s, Min(all) - 1) = "@"
    BY <2>1, <2>3 DEF Collected, MarkedFrom
  <2> QED
    BY <1>1, <1>2, <1>3, <2>3, <2>4, <2>5, <2>6 DEF Marked, all
<1>6. CASE all = {}
  BY <1>2, <1>3, <1>6 DEF Marked, all
<1> QED
  BY <1>5, <1>6

(* A character that is copied is on both sides of the output. *)
LEMMA CopiedItem ==
    ASSUME NEW s, NEW n \in Nat
    PROVE  /\ Character(n + 1) \in Item
           /\ Covers(Character(n + 1), n, n + 1)
           /\ Marked(s, Character(n + 1))
<1>1. <<n + 1>> \in Seq(Nat) /\ Ordered(<<n + 1>>)
  BY DEF Ordered
<1>2. Range(<<n + 1>>) = {n + 1}
  BY DEF Range
<1>3. {n + 1} = ((n + 1)..(n + 1))
  OBVIOUS
<1> QED
  BY <1>1, <1>2, <1>3 DEF Character, Item, Covers, Marked

(* No hunk has begun. *)
LEMMA NothingCollected ==
    ASSUME NEW s, NEW md, NEW n \in Nat, NEW old \in Seq(Nat), NEW new \in Seq(Nat),
           Range(old) = {}, Range(new) = {},
           md \in {"FIRST_HEADER", "HEADER", "LINE_COUNTS"} \/ (n > 0 /\ Marker(s, n) = "@")
    PROVE  Collected(s, md, n, n, old, new)
<1>1. DOMAIN old = {} /\ DOMAIN new = {}
  BY DEF Range
<1>2. (n + 1)..n = {}
  OBVIOUS
<1>3. Ordered(old) /\ Ordered(new)
  BY <1>1 DEF Ordered
<1>4. ~(n < n)
  OBVIOUS
<1>5. MarkedFrom(s, n, n, old, new)
  BY ONLY <1>2, <1>4 DEF MarkedFrom
<1> QED
  BY <1>2, <1>3, <1>5 DEF Collected

(* Character p is on a line of the given kind. *)
OfKind(s, p, line) ==
    /\ line = "OLD" => Marker(s, p) = "-"
    /\ line = "NEW" => Marker(s, p) = "+"
    /\ line = "COMMON" => Marker(s, p) = "space"

(* It is added to the texts such a line is part of. *)
Added(p, line, old, new, old2, new2) ==
    /\ old2 = IF line \in {"OLD", "COMMON"} THEN Append(old, p) ELSE old
    /\ new2 = IF line \in {"NEW", "COMMON"} THEN Append(new, p) ELSE new

(* A character of a line of the hunk goes to the right texts. *)
LEMMA CollectOne ==
    ASSUME NEW s, NEW md \in {"FIRST", "OLD", "NEW", "COMMON"}, NEW m \in Nat, NEW n \in Nat,
           m <= n, NEW old, NEW new, Collected(s, md, m, n, old, new),
           NEW line \in {"OLD", "NEW", "COMMON"}, OfKind(s, n + 1, line),
           NEW old2, NEW new2, Added(n + 1, line, old, new, old2, new2),
           NEW md2 \in {"FIRST", "OLD", "NEW", "COMMON"}
    PROVE  Collected(s, md2, m, n + 1, old2, new2)
<1>1. /\ old \in Seq(Nat) /\ new \in Seq(Nat) /\ Ordered(old) /\ Ordered(new)
      /\ Range(old) \cup Range(new) = (m + 1)..n
      /\ m > 0 /\ Marker(s, m) = "@"
  BY DEF Collected
<1>2. (\A p \in Range(old) : p <= n) /\ (\A p \in Range(new) : p <= n)
  BY ONLY m \in Nat, n \in Nat, <1>1
<1>3. /\ old2 \in Seq(Nat) /\ Ordered(old2)
      /\ Range(old2) = IF line \in {"OLD", "COMMON"} THEN Range(old) \cup {n + 1} ELSE Range(old)
  BY <1>1, <1>2, AppendText DEF Added
<1>4. /\ new2 \in Seq(Nat) /\ Ordered(new2)
      /\ Range(new2) = IF line \in {"NEW", "COMMON"} THEN Range(new) \cup {n + 1} ELSE Range(new)
  BY <1>1, <1>2, AppendText DEF Added
<1>5. \A p : p \in (m + 1)..(n + 1) <=> p \in (m + 1)..n \/ p = n + 1
  BY ONLY m \in Nat, n \in Nat, m <= n
<1>6. Range(old2) \cup Range(new2) = (m + 1)..(n + 1)
  <2>1. Range(old2) \cup Range(new2) = Range(old) \cup Range(new) \cup {n + 1}
    BY <1>3, <1>4
  <2> QED
    BY <1>1, <1>5, <2>1
<1>7. n + 1 \notin Range(old) /\ n + 1 \notin Range(new)
  BY ONLY n \in Nat, <1>2
<1>8. MarkedFrom(s, m, n + 1, old2, new2)
  <2>1. ASSUME NEW p \in (m + 1)..(n + 1)
        PROVE  /\ p \in Range(old2) <=> Marker(s, p) \in {"-", "space"}
               /\ p \in Range(new2) <=> Marker(s, p) \in {"+", "space"}
    <3>1. CASE p = n + 1
      BY <1>3, <1>4, <1>7, <3>1 DEF OfKind
    <3>2. CASE p # n + 1
      <4>1. /\ p \in Range(old) <=> Marker(s, p) \in {"-", "space"}
            /\ p \in Range(new) <=> Marker(s, p) \in {"+", "space"}
        BY <1>5, <3>2 DEF Collected, MarkedFrom
      <4> QED
        BY <1>3, <1>4, <3>2, <4>1
    <3> QED
      BY <3>1, <3>2
  <2> QED
    BY <1>1, <2>1 DEF MarkedFrom
<1> QED
  BY <1>1, <1>3, <1>4, <1>6, <1>8 DEF Collected

(* Both files could be made: they are the first two, and empty. *)
LEMMA BothMade ==
    ASSUME NEW slots, NEW old, NEW new, MakeFiles(<< >>, slots, old, new),
           NULL \notin {old, new}
    PROVE  /\ old = 1 /\ new = 2 /\ DOMAIN slots = 1..2
           /\ slots[1].text = << >> /\ slots[2].text = << >>
<1>1. PICK oldMade \in 0..1, newMade \in 0..1 :
         /\ slots = tempFile(<< >>, oldMade + newMade)
         /\ old = IF oldMade = 1 THEN Len(<< >>) + 1 ELSE NULL
         /\ new = IF newMade = 1 THEN Len(<< >>) + oldMade + 1 ELSE NULL
  BY DEF MakeFiles
<1>2. oldMade = 1 /\ newMade = 1 /\ old = 1 /\ new = 2
  BY <1>1 DEF NULL
<1>3. slots = << >> \o [k \in 1..2 |-> EmptyFile]
  BY <1>1, <1>2 DEF tempFile
<1>4. [k \in 1..2 |-> EmptyFile] \in Seq({EmptyFile})
  OBVIOUS
<1>5. slots = [k \in 1..2 |-> EmptyFile]
  BY <1>3, <1>4
<1> QED
  BY <1>2, <1>5 DEF EmptyFile

(* sputc appends the character that has been read to the texts. *)
LEMMA WrittenText ==
    ASSUME files \in Seq(TempFile), NEW targets, Write(targets), NEW f \in DOMAIN files
    PROVE  files'[f].text = IF f \in targets THEN Append(files[f].text, next')
                            ELSE files[f].text
<1>1. files[f] \in TempFile
  OBVIOUS
<1> QED
  BY <1>1 DEF Write, TempFile

(* Nothing has been read. *)
LEMMA InitPlace == SplitInit => PlaceInv
<1> SUFFICES ASSUME SplitInit PROVE PlaceInv
  OBVIOUS
<1>1. diff \in Seq(DiffChar) /\ next = 0 /\ 0 \in 0..Len(diff) /\ mode = "FIRST_HEADER"
  BY InputsAssumption DEF SplitInit
<1>2. Good(diff, << >>, 0)
  <2>1. << >> \in Seq(Item) /\ DOMAIN << >> = {} /\ 1..0 = {}
    OBVIOUS
  <2> QED
    BY <2>1 DEF Good, InOrder
<1>3. ASSUME NULL \notin {oldFile, newFile}
      PROVE  /\ oldFile = 1 /\ newFile = 2 /\ DOMAIN files = 1..2
             /\ Collected(diff, mode, 0, 0, OldText, NewText)
  <2>1. /\ oldFile = 1 /\ newFile = 2 /\ DOMAIN files = 1..2
        /\ files[1].text = << >> /\ files[2].text = << >>
    BY <1>3, BothMade DEF SplitInit
  <2>2. << >> \in Seq(Nat) /\ Range(<< >>) = {}
    BY DEF Range
  <2>3. Collected(diff, mode, 0, 0, << >>, << >>)
    BY <1>1, <2>2, NothingCollected
  <2> QED
    BY <2>1, <2>3 DEF OldText, NewText
<1>4. InLine(diff, mode, next)
  BY <1>1 DEF InLine
<1> QED
  BY <1>1, <1>2, <1>3, <1>4 DEF PlaceInv, Modes, SplitInit

(* Facts about a step that reads a character *)
LEMMA ReadsNext ==
    ASSUME PlaceInv, NEW c, getNextCharSC(c), diff' = diff
    PROVE  /\ next \in Nat /\ next' = next + 1 /\ next' \in 0..Len(diff)
           /\ c = diff[next + 1] /\ outcome = "RUNNING" /\ diff' \in Seq(DiffChar)
  BY DEF PlaceInv, getNextCharSC

(* A character is copied: the output has one more, and no hunk has begun. *)
LEMMA CopyPlace == PlaceInv /\ Copy => PlaceInv'
<1> SUFFICES ASSUME PlaceInv, Copy PROVE PlaceInv'
  OBVIOUS
<1> DEFINE s == diff
           n == next
<1>1. PICK c \in DiffChar :
         /\ getNextCharSC(c)
         /\ mode' = CASE mode = "FIRST_HEADER" -> IF c # "@" THEN "HEADER" ELSE "LINE_COUNTS"
                      [] mode = "HEADER" /\ c = "newline" -> "FIRST_HEADER"
                      [] mode = "LINE_COUNTS" /\ c = "newline" -> "FIRST"
                      [] OTHER -> mode
  <2>1. mode \in {"FIRST_HEADER", "HEADER", "LINE_COUNTS"}
    BY DEF Copy
  <2>2. PICK c \in DiffChar :
           /\ getNextCharSC(c)
           /\ mode' = IF mode # "FIRST_HEADER" THEN Copied(c)
                      ELSE IF c # "@" THEN "HEADER" ELSE "LINE_COUNTS"
    BY DEF Copy
  <2> QED
    BY <2>1, <2>2 DEF Copied
<1>2. /\ n \in Nat /\ next' = n + 1 /\ next' \in 0..Len(diff) /\ c = s[n + 1]
      /\ outcome = "RUNNING" /\ diff' \in Seq(DiffChar)
  BY <1>1, ReadsNext DEF Copy
<1>3. /\ mode \in {"FIRST_HEADER", "HEADER", "LINE_COUNTS"}
      /\ out' = Append(out, Character(n + 1)) /\ diff' = diff /\ outcome' = outcome
      /\ oldFile' = oldFile /\ newFile' = newFile /\ files' = files
  BY <1>2 DEF Copy
<1>4. mode' \in {"FIRST_HEADER", "HEADER", "LINE_COUNTS", "FIRST"}
  BY <1>1, <1>3
<1>5. ASSUME NULL \notin {oldFile, newFile}
      PROVE  /\ oldFile = 1 /\ newFile = 2 /\ DOMAIN files = 1..2
             /\ InLine(s, mode', n + 1)
             /\ Good(s, out', n + 1)
             /\ Collected(s, mode', n + 1, n + 1, OldText, NewText)
  <2>1. /\ oldFile = 1 /\ newFile = 2 /\ DOMAIN files = 1..2 /\ InLine(s, mode, n)
        /\ \E m \in 0..n : Good(s, out, m) /\ Collected(s, mode, m, n, OldText, NewText)
    BY <1>2, <1>5 DEF PlaceInv
  <2>2. Good(s, out, n) /\ Collected(s, mode, n, n, OldText, NewText)
    BY <1>3, <2>1 DEF Collected
  <2>3. Good(s, out', n + 1)
    <3>1. n + 1 \in Nat /\ n <= n + 1
      BY <1>2
    <3> HIDE DEF s, n
    <3> QED
      BY <1>2, <1>3, <2>2, <3>1, CopiedItem, GoodAppend
  <2>4. mode = "FIRST_HEADER" => Marker(s, n + 1) = c
    BY <1>2, <2>1, MarkerFirst DEF InLine
  <2>5. mode = "LINE_COUNTS" => Marker(s, n + 1) = "@"
    BY <1>2, <2>1, MarkerSame DEF InLine
  <2>6. n + 1 > 0
    BY <1>2
  <2>7. mode' = "FIRST" => mode = "LINE_COUNTS" /\ s[n + 1] = "newline"
    BY <1>1, <1>2, <1>3
  <2>8. mode' = "FIRST_HEADER" => s[n + 1] = "newline"
    BY <1>1, <1>2, <1>3
  <2>9. mode' = "LINE_COUNTS" => s[n + 1] # "newline" /\ Marker(s, n + 1) = "@"
    BY <1>1, <1>2, <1>3, <2>4, <2>5
  <2>10. InLine(s, mode', n + 1)
    BY <1>4, <2>6, <2>7, <2>8, <2>9 DEF InLine
  <2>11. Collected(s, mode', n + 1, n + 1, OldText, NewText)
    <3>1. OldText \in Seq(Nat) /\ NewText \in Seq(Nat) /\ Range(OldText) \cup Range(NewText) = (n + 1)..n
      BY <2>2 DEF Collected
    <3>2. Range(OldText) = {} /\ Range(NewText) = {}
      <4>1. (n + 1)..n = {}
        BY <1>2
      <4> QED
        BY <3>1, <4>1
    <3>3. mode' \in {"FIRST_HEADER", "HEADER", "LINE_COUNTS"} \/ Marker(s, n + 1) = "@"
      BY <1>4, <2>5, <2>7
    <3>4. n + 1 \in Nat
      BY <1>2
    <3> HIDE DEF s, n
    <3> QED
      BY <2>6, <3>1, <3>2, <3>3, <3>4, NothingCollected
  <2> QED
    BY <2>1, <2>3, <2>10, <2>11
<1>6. OldText' = OldText /\ NewText' = NewText
  BY <1>3 DEF OldText, NewText
<1>7. n + 1 \in 0..(n + 1)
  BY <1>2
<1> QED
  BY <1>2, <1>3, <1>4, <1>5, <1>6, <1>7 DEF PlaceInv, Modes

(* A character of a line of the hunk is written: what is common to the     *)
(* marker and the rest of the line.                                        *)
LEMMA WritePlace ==
    ASSUME IInv, PlaceInv, mode \in {"FIRST", "OLD", "NEW", "COMMON"},
           NEW c \in DiffChar, getNextCharSC(c), NEW line \in {"OLD", "NEW", "COMMON"},
           Write(Targets(line)),
           NULL \notin {oldFile, newFile} => OfKind(diff, next + 1, line),
           mode' = (IF c = "newline" THEN "FIRST" ELSE line),
           UNCHANGED <<diff, oldFile, newFile, out, outcome>>
    PROVE  PlaceInv'
<1> DEFINE s == diff
           n == next
<1>1. /\ n \in Nat /\ next' = n + 1 /\ next' \in 0..Len(diff) /\ c = s[n + 1]
      /\ outcome = "RUNNING" /\ diff' \in Seq(DiffChar)
  BY ReadsNext
<1>2. mode' \in {"FIRST", "OLD", "NEW", "COMMON"}
  OBVIOUS
<1>3. ASSUME NULL \notin {oldFile, newFile}
      PROVE  /\ oldFile = 1 /\ newFile = 2 /\ DOMAIN files' = 1..2
             /\ InLine(s, mode', n + 1)
             /\ \E m \in 0..(n + 1) :
                   Good(s, out, m) /\ Collected(s, mode', m, n + 1, OldText', NewText')
  <2>1. /\ oldFile = 1 /\ newFile = 2 /\ DOMAIN files = 1..2
        /\ \E m \in 0..n : Good(s, out, m) /\ Collected(s, mode, m, n, OldText, NewText)
    BY <1>1, <1>3 DEF PlaceInv
  <2>2. PICK m \in 0..n : Good(s, out, m) /\ Collected(s, mode, m, n, OldText, NewText)
    BY <2>1
  <2>3. DOMAIN files' = 1..2
    BY <2>1 DEF Write
  <2>4. /\ 1 \in Targets(line) <=> line \in {"OLD", "COMMON"}
        /\ 2 \in Targets(line) <=> line \in {"NEW", "COMMON"}
    <3>1. Targets(line) = CASE line = "OLD" -> {1} [] line = "NEW" -> {2}
                            [] line = "COMMON" -> {1, 2}
      BY <2>1 DEF Targets
    <3> QED
      BY ONLY line \in {"OLD", "NEW", "COMMON"}, <3>1
  <2>5. /\ files'[1].text = IF 1 \in Targets(line) THEN Append(files[1].text, next')
                            ELSE files[1].text
        /\ files'[2].text = IF 2 \in Targets(line) THEN Append(files[2].text, next')
                            ELSE files[2].text
    <3>1. files \in Seq(TempFile) /\ 1 \in DOMAIN files /\ 2 \in DOMAIN files
      <4>1. files \in Seq(TempFile)
        BY ONLY IInv DEF IInv
      <4>2. DOMAIN files = 1..2
        BY <2>1
      <4> QED
        BY ONLY <4>1, <4>2
    <3> QED
      BY ONLY <3>1, Write(Targets(line)), WrittenText
  <2>6. OldText = files[1].text /\ NewText = files[2].text
    BY <2>1 DEF OldText, NewText
  <2>7. OldText' = files'[1].text /\ NewText' = files'[2].text
    BY <2>1 DEF OldText, NewText
  <2>8. Added(n + 1, line, OldText, NewText, OldText', NewText')
    BY <1>1, <2>4, <2>5, <2>6, <2>7 DEF Added
  <2>9. OfKind(s, n + 1, line)
    BY <1>3
  <2>10. m \in Nat /\ m <= n /\ m \in 0..(n + 1)
    <3>1. n \in Nat
      BY <1>1
    <3> HIDE DEF n
    <3> QED
      BY ONLY <3>1, m \in 0..n
  <2>11. Collected(s, mode', m, n + 1, OldText', NewText')
    <3> HIDE DEF s, n
    <3> DEFINE md2 == mode'
               old == OldText
               new == NewText
               old2 == OldText'
               new2 == NewText'
    <3>1. /\ md2 \in {"FIRST", "OLD", "NEW", "COMMON"} /\ Collected(s, mode, m, n, old, new)
          /\ n \in Nat
      BY <1>1, <1>2, <2>2
    <3>2. Added(n + 1, line, old, new, old2, new2)
      BY <2>8
    <3> HIDE DEF md2, old, new, old2, new2
    <3>3. Collected(s, md2, m, n + 1, old2, new2)
      BY ONLY <2>9, <2>10, <3>1, <3>2, line \in {"OLD", "NEW", "COMMON"},
              mode \in {"FIRST", "OLD", "NEW", "COMMON"}, CollectOne
    <3> QED
      BY <3>3 DEF md2, old2, new2
  <2>12. n + 1 > 0
    BY ONLY <1>1
  <2>13. InLine(s, mode', n + 1)
    BY <1>1, <2>9, <2>12 DEF InLine, OfKind
  <2> QED
    BY <2>1, <2>2, <2>3, <2>10, <2>11, <2>13
<1> QED
  BY <1>1, <1>2, <1>3 DEF PlaceInv, Modes

(* The marker of a line *)
LEMMA FirstPlace == IInv /\ PlaceInv /\ FirstOfLine => PlaceInv'
<1> SUFFICES ASSUME IInv, PlaceInv, FirstOfLine PROVE PlaceInv'
  OBVIOUS
<1>1. PICK c \in DOMAIN LineMode : /\ getNextCharSC(c) /\ mode' = LineMode[c]
                                   /\ Write(Targets(LineMode[c]))
  BY DEF FirstOfLine
<1> DEFINE line == LineMode[c]
<1>2. /\ c \in {"+", "-", "space"} /\ c \in DiffChar /\ c # "newline"
      /\ line \in {"OLD", "NEW", "COMMON"}
      /\ (line = "OLD" => c = "-") /\ (line = "NEW" => c = "+") /\ (line = "COMMON" => c = "space")
  BY DEF LineMode, DiffChar
<1>3. mode = "FIRST" /\ UNCHANGED <<diff, oldFile, newFile, out, outcome>>
  BY DEF FirstOfLine
<1>4. next \in Nat /\ c = diff[next + 1] /\ outcome = "RUNNING"
  BY <1>1, <1>3, ReadsNext
<1>5. NULL \notin {oldFile, newFile} => Marker(diff, next + 1) = c
  <2> SUFFICES ASSUME NULL \notin {oldFile, newFile} PROVE Marker(diff, next + 1) = c
    OBVIOUS
  <2>1. diff[next] = "newline"
    BY <1>3, <1>4 DEF PlaceInv, InLine
  <2> QED
    BY <1>4, <2>1, MarkerFirst
<1>6. mode' = (IF c = "newline" THEN "FIRST" ELSE line) /\ Write(Targets(line))
  BY <1>1, <1>2
<1> HIDE DEF line
<1>7. NULL \notin {oldFile, newFile} => OfKind(diff, next + 1, line)
  BY <1>2, <1>5 DEF OfKind
<1> QED
  BY <1>1, <1>2, <1>3, <1>6, <1>7, WritePlace

(* The rest of a line *)
LEMMA RestPlace == IInv /\ PlaceInv /\ RestOfLine => PlaceInv'
<1> SUFFICES ASSUME IInv, PlaceInv, RestOfLine PROVE PlaceInv'
  OBVIOUS
<1>1. PICK c \in DiffChar : getNextCharSC(c) /\ mode' = (IF c = "newline" THEN "FIRST" ELSE mode)
  BY DEF RestOfLine
<1>2. /\ mode \in {"OLD", "NEW", "COMMON"} /\ Write(Targets(mode))
      /\ UNCHANGED <<diff, oldFile, newFile, out, outcome>>
  BY DEF RestOfLine
<1>3. next \in Nat /\ outcome = "RUNNING"
  BY <1>1, <1>2, ReadsNext
<1>4. NULL \notin {oldFile, newFile} => OfKind(diff, next + 1, mode)
  <2> SUFFICES ASSUME NULL \notin {oldFile, newFile} PROVE OfKind(diff, next + 1, mode)
    OBVIOUS
  <2>1. InLine(diff, mode, next)
    BY <1>3 DEF PlaceInv
  <2>2. Marker(diff, next + 1) = Marker(diff, next)
    BY <1>2, <1>3, <2>1, MarkerSame DEF InLine
  <2> QED
    BY <2>1, <2>2 DEF InLine, OfKind
<1> QED
  BY <1>1, <1>2, <1>4, WritePlace

(* The hunk is printed: the output has all that has been read. *)
LEMMA HunkPrinted ==
    ASSUME PlaceInv, outcome = "RUNNING", NULL \notin {oldFile, newFile}
    PROVE  Good(diff, Append(out, Hunk(OldText, NewText)), next)
<1> DEFINE s == diff
           n == next
           h == Hunk(OldText, NewText)
<1>1. n \in Nat /\ \E m \in 0..n : /\ Good(s, out, m)
                                   /\ Collected(s, mode, m, n, OldText, NewText)
  BY DEF PlaceInv
<1>2. PICK m \in 0..n : Good(s, out, m) /\ Collected(s, mode, m, n, OldText, NewText)
  BY <1>1
<1>3. m \in Nat /\ m <= n
  BY <1>1
<1> HIDE DEF s, n
<1>4. h \in Item /\ Covers(h, m, n) /\ Marked(s, h)
  BY ONLY <1>1, <1>2, <1>3, HunkItem
<1> HIDE DEF h
<1>5. Good(s, Append(out, h), n)
  BY ONLY <1>1, <1>2, <1>3, <1>4, GoodAppend
<1> QED
  BY <1>5 DEF s, n, h

(* The end of a hunk *)
LEMMA EndPlace == PlaceInv /\ EndHunk => PlaceInv'
<1> SUFFICES ASSUME PlaceInv, EndHunk PROVE PlaceInv'
  OBVIOUS
<1> DEFINE s == diff
           n == next
           h == Hunk(OldText, NewText)
<1>1. PICK c \in DiffChar : /\ getNextCharSC(c)
                        /\ mode' = IF c = "@" THEN "LINE_COUNTS" ELSE "HEADER"
  BY DEF EndHunk
<1>2. /\ n \in Nat /\ next' = n + 1 /\ next' \in 0..Len(diff) /\ c = s[n + 1]
      /\ outcome = "RUNNING" /\ diff' \in Seq(DiffChar)
  BY <1>1, ReadsNext DEF EndHunk
<1>3. /\ NULL \notin {oldFile, newFile} /\ diff' = diff /\ outcome' = outcome
      /\ out' = Append(out, h) \o <<Character(n + 1)>>
      /\ MakeFiles(<< >>, files', oldFile', newFile')
  BY <1>2 DEF EndHunk, prepareAndExecuteDiff, savedChar, resetTempFiles
<1>4. mode = "FIRST"
  BY <1>1 DEF EndHunk, HunkComplete, EndOfInput, getNextCharSC, PlaceInv
<1>5. Good(s, Append(out, h), n)
  BY <1>2, <1>3, HunkPrinted
<1>6. out' = Append(Append(out, h), Character(n + 1))
  <2>1. Append(out, h) \in Seq(Item) /\ Character(n + 1) \in Item
    BY <1>2, <1>5, CopiedItem DEF Good
  <2> DEFINE o == Append(out, h)
             ch == Character(n + 1)
  <2> HIDE DEF o, ch
  <2>2. o \o <<ch>> = Append(o, ch)
    BY <2>1 DEF o, ch
  <2> QED
    BY <1>3, <2>2 DEF o, ch
<1>7. Good(s, out', n + 1)
  <2> DEFINE o == Append(out, h)
  <2>1. n + 1 \in Nat /\ n <= n + 1 /\ n \in Nat
    BY <1>2
  <2>2. Good(s, o, n) /\ out' = Append(o, Character(n + 1))
    BY <1>5, <1>6
  <2> HIDE DEF s, n, o
  <2>3. /\ Character(n + 1) \in Item /\ Covers(Character(n + 1), n, n + 1)
        /\ Marked(s, Character(n + 1))
    BY <2>1, CopiedItem
  <2> QED
    BY <2>1, <2>2, <2>3, GoodAppend
<1>8. InLine(s, mode', n + 1)
  <2>1. Marker(s, n + 1) = s[n + 1]
    BY <1>2, <1>3, <1>4, MarkerFirst DEF PlaceInv, InLine
  <2>2. mode' \in {"LINE_COUNTS", "HEADER"} /\ (mode' = "LINE_COUNTS" => s[n + 1] = "@")
    BY <1>1, <1>2
  <2>3. n + 1 > 0
    BY <1>2
  <2> QED
    BY <2>1, <2>2, <2>3 DEF InLine
<1>9. ASSUME NULL \notin {oldFile', newFile'}
      PROVE  /\ oldFile' = 1 /\ newFile' = 2 /\ DOMAIN files' = 1..2
             /\ Collected(s, mode', n + 1, n + 1, OldText', NewText')
  <2>1. /\ oldFile' = 1 /\ newFile' = 2 /\ DOMAIN files' = 1..2
        /\ files'[1].text = << >> /\ files'[2].text = << >>
    BY <1>3, <1>9, BothMade
  <2>2. OldText' = << >> /\ NewText' = << >>
    BY <2>1 DEF OldText, NewText
  <2>3. << >> \in Seq(Nat) /\ Range(<< >>) = {}
    BY DEF Range
  <2>4. Collected(s, mode', n + 1, n + 1, << >>, << >>)
    <3>1. n + 1 \in Nat /\ mode' \in {"LINE_COUNTS", "HEADER"}
      BY <1>1, <1>2
    <3> QED
      BY <2>3, <3>1, NothingCollected
  <2> QED
    BY <2>1, <2>2, <2>4
<1>10. n + 1 \in 0..(n + 1)
  BY <1>2
<1> QED
  BY <1>1, <1>2, <1>3, <1>7, <1>8, <1>9, <1>10 DEF PlaceInv, Modes

(* Every step keeps the invariant. *)
LEMMA NextPlace == IInv /\ PlaceInv /\ [SplitNext]_splitVars => PlaceInv'
<1> SUFFICES ASSUME IInv, PlaceInv, [SplitNext]_splitVars PROVE PlaceInv'
  OBVIOUS
<1>1. CASE Copy
  BY <1>1, CopyPlace
<1>2. CASE FirstOfLine
  BY <1>2, FirstPlace
<1>3. CASE RestOfLine
  BY <1>3, RestPlace
<1>4. CASE EndHunk
  BY <1>4, EndPlace
<1>5. CASE LastHunk
  <2> DEFINE h == Hunk(OldText, NewText)
  <2>1. /\ outcome = "RUNNING" /\ NULL \notin {oldFile, newFile} /\ outcome' = "exit"
        /\ diff' = diff /\ next' = next /\ mode' = mode
        /\ out' = Append(out, h) \o << >>
    BY <1>5 DEF LastHunk, EndOfInput, prepareAndExecuteDiff
  <2>2. Good(diff, Append(out, h), next)
    BY <2>1, HunkPrinted
  <2>3. Append(out, h) \in Seq(Item)
    BY <2>2 DEF Good
  <2>4. out' = Append(out, h)
    <3> DEFINE o == Append(out, h)
    <3> HIDE DEF o
    <3>1. o \o << >> = o
      BY <2>3 DEF o
    <3> QED
      BY <2>1, <3>1 DEF o
  <2> QED
    BY <2>1, <2>2, <2>4 DEF PlaceInv
<1>6. CASE Fatal
  BY <1>6 DEF Fatal, Ends, PlaceInv
<1>7. CASE Crash
  BY <1>7 DEF Crash, Ends, PlaceInv
<1>8. CASE UNCHANGED splitVars
  BY <1>8 DEF splitVars, PlaceInv, OldText, NewText
<1> QED
  BY <1>1, <1>2, <1>3, <1>4, <1>5, <1>6, <1>7, <1>8 DEF SplitNext, SplitEnded

(* dwdiff.c:436: every character of every unified diff is in the output,   *)
(* in its place, and each hunk that is compared consists of the lines with *)
(* the right markers after a line of line counts.                          *)
THEOREM EveryCharacterInPlace == SplitSpec => []InputInOrder
<1>1. IInv /\ PlaceInv => InputInOrder
  <2> SUFFICES ASSUME PlaceInv, outcome \in {"RUNNING", "exit"}, NULL \notin {oldFile, newFile}
               PROVE  InputInOrder
    BY DEF InputInOrder
  <2>1. Good(diff, Pending, next)
    <3>1. CASE outcome = "RUNNING"
      BY <3>1, HunkPrinted DEF Pending
    <3>2. CASE outcome = "exit"
      BY <3>2 DEF Pending, PlaceInv
    <3> QED
      BY <3>1, <3>2
  <2>2. \A p : MarkerOf(p) = Marker(diff, p)
    BY DEF MarkerOf, Marker
  <2> QED
    BY <2>1, <2>2 DEF InputInOrder, Good, Marked
<1> QED
  BY InitIInv, NextIInv, InitPlace, NextPlace, <1>1, PTL DEF SplitSpec

=============================================================================

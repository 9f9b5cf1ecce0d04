-------------------------- MODULE CompareSeqProofs --------------------------
(***************************************************************************)
(* compareseq implements the abstract comparison for all vectors and all   *)
(* settings of its heuristics: whatever ends a search of diag, the point   *)
(* it returns is inside the rectangle, so that the result is correct       *)
(* (AlignmentProofs).  DiagProofs has the facts about the passes of diag.  *)
(***************************************************************************)
EXTENDS DiagProofs

-----------------------------------------------------------------------------
(* The stack of calls *)

CallRecord == [xoff: Nat, xlim: Nat, yoff: Nat, ylim: Nat, find_minimal: BOOLEAN]

Precedes(r, s) == r.xlim <= s.xoff /\ r.ylim <= s.yoff

Within(r, t) == /\ t.xoff <= r.xoff /\ r.xoff <= r.xlim /\ r.xlim <= t.xlim
                /\ t.yoff <= r.yoff /\ r.yoff <= r.ylim /\ r.ylim <= t.ylim

(* The calls are for parts of the vectors, and in the order of the parts. *)
CallsOK(s) ==
    /\ s \in Seq(CallRecord)
    /\ \A i \in 1..Len(s) : IsBox(s[i])
    /\ \A i, j \in 1..Len(s) : i < j => Precedes(s[i], s[j])

Box(r) == [xoff |-> r.xoff, xlim |-> r.xlim, yoff |-> r.yoff, ylim |-> r.ylim]
NonEmptyBox(r) == r.xoff < r.xlim \/ r.yoff < r.ylim
Pending(s) == {Box(s[i]) : i \in {j \in 1..Len(s) : NonEmptyBox(s[j])}}

Rect(xoff, xlim, yoff, ylim) ==
    [xoff |-> xoff, xlim |-> xlim, yoff |-> yoff, ylim |-> ylim]

(* The elements of a sequence whose head is replaced by those of R *)
LEMMA ReplaceHead ==
    ASSUME NEW S, NEW s \in Seq(S), s # <<>>, NEW R \in Seq(S)
    PROVE  /\ R \o Tail(s) \in Seq(S)
           /\ Len(R \o Tail(s)) = Len(R) + Len(s) - 1
           /\ Len(s) \in Nat /\ Len(s) >= 1 /\ Len(R) \in Nat
           /\ \A i \in 1..Len(R) : (R \o Tail(s))[i] = R[i]
           /\ \A i \in 2..Len(s) : (R \o Tail(s))[Len(R) + i - 1] = s[i]
           /\ Head(s) = s[1]
<1>1. /\ Tail(s) \in Seq(S) /\ Len(Tail(s)) = Len(s) - 1
      /\ \A i \in 1..(Len(s) - 1) : Tail(s)[i] = s[i + 1]
      /\ Len(s) \in Nat /\ Len(s) >= 1 /\ Len(R) \in Nat
      /\ Head(s) = s[1]
  OBVIOUS
<1> DEFINE t == Tail(s)
<1> HIDE DEF t
<1>2. /\ R \o t \in Seq(S) /\ Len(R \o t) = Len(R) + Len(t)
      /\ \A i \in 1..(Len(R) + Len(t)) :
            (R \o t)[i] = IF i <= Len(R) THEN R[i] ELSE t[i - Len(R)]
  <2>1. t \in Seq(S)
    BY <1>1 DEF t
  <2> QED
    BY <2>1
<1>3. Len(t) = Len(s) - 1 /\ \A i \in 1..(Len(s) - 1) : t[i] = s[i + 1]
  BY <1>1 DEF t
<1>4. ASSUME NEW i \in 2..Len(s) PROVE (R \o t)[Len(R) + i - 1] = s[i]
  <2> DEFINE n == Len(R) + i - 1
  <2>1. n \in 1..(Len(R) + Len(t)) /\ ~(n <= Len(R)) /\ n - Len(R) = i - 1
    BY <1>1, <1>3
  <2>2. i - 1 \in 1..(Len(s) - 1) /\ (i - 1) + 1 = i
    BY <1>1
  <2> HIDE DEF n
  <2>3. (R \o t)[n] = t[i - 1] /\ t[i - 1] = s[i]
    BY <1>2, <1>3, <2>1, <2>2
  <2> QED
    BY <2>3 DEF n
<1>5. ASSUME NEW i \in 1..Len(R) PROVE (R \o t)[i] = R[i]
  BY <1>1, <1>2, <1>3
<1>6. R \o t \in Seq(S) /\ Len(R \o t) = Len(R) + Len(s) - 1
  BY <1>1, <1>2, <1>3
<1> QED
  BY <1>1, <1>4, <1>5, <1>6 DEF t

(* A part of a part of the vectors is one. *)
LEMMA WithinBox ==
    ASSUME NEW r \in CallRecord, NEW t \in CallRecord, Within(r, t), IsBox(t),
           Len(xvec) \in Nat, Len(yvec) \in Nat
    PROVE  IsBox(r)
BY DEF CallRecord, Within, IsBox

(* A part of what comes first comes first. *)
LEMMA WithinPrecedes ==
    ASSUME NEW r \in CallRecord, NEW t \in CallRecord, NEW q \in CallRecord,
           Within(r, t), Precedes(t, q)
    PROVE  Precedes(r, q)
BY DEF CallRecord, Within, Precedes

(* The head is replaced by calls for parts of it, in order. *)
LEMMA CallsReplaced ==
    ASSUME NEW s, CallsOK(s), s # <<>>, NEW R \in Seq(CallRecord),
           \A i \in 1..Len(R) : Within(R[i], Head(s)),
           \A i, j \in 1..Len(R) : i < j => Precedes(R[i], R[j]),
           Len(xvec) \in Nat, Len(yvec) \in Nat
    PROVE  CallsOK(R \o Tail(s))
<1> DEFINE u == R \o Tail(s)
           n == Len(R)
           m == Len(s)
<1>0. s \in Seq(CallRecord)
  BY DEF CallsOK
<1>1. /\ u \in Seq(CallRecord) /\ Len(u) = n + m - 1
      /\ m \in Nat /\ m >= 1 /\ n \in Nat
      /\ \A i \in 1..n : u[i] = R[i]
      /\ \A i \in 2..m : u[n + i - 1] = s[i]
      /\ Head(s) = s[1]
  BY <1>0, ReplaceHead
<1>2. /\ \A i \in 1..m : s[i] \in CallRecord /\ IsBox(s[i])
      /\ \A i, j \in 1..m : i < j => Precedes(s[i], s[j])
      /\ \A i \in 1..n : R[i] \in CallRecord /\ Within(R[i], s[1])
  BY <1>1 DEF CallsOK
<1> HIDE DEF u, n, m
<1>3. \A i \in 1..Len(u) : i \in 1..n \/ (i - n + 1 \in 2..m /\ u[i] = s[i - n + 1])
  <2> SUFFICES ASSUME NEW i \in 1..Len(u), i \notin 1..n
               PROVE  i - n + 1 \in 2..m /\ u[i] = s[i - n + 1]
    OBVIOUS
  <2>1. i - n + 1 \in 2..m /\ n + (i - n + 1) - 1 = i
    BY <1>1
  <2> QED
    BY <1>1, <2>1
<1>4. s[1] \in CallRecord /\ IsBox(s[1])
  BY <1>1, <1>2
<1>5. ASSUME NEW i \in 1..Len(u) PROVE IsBox(u[i])
  <2>1. CASE i \in 1..n
    <3>1. u[i] = R[i] /\ R[i] \in CallRecord /\ Within(R[i], s[1])
      BY <1>1, <1>2, <2>1
    <3> QED
      BY <1>4, <3>1, WithinBox
  <2>2. CASE i - n + 1 \in 2..m /\ u[i] = s[i - n + 1]
    BY <1>1, <1>2, <2>2
  <2> QED
    BY <1>3, <2>1, <2>2
<1>6. ASSUME NEW i \in 1..Len(u), NEW j \in 1..Len(u), i < j
      PROVE  Precedes(u[i], u[j])
  <2>1. CASE i \in 1..n /\ j \in 1..n
    <3>1. u[i] = R[i] /\ u[j] = R[j]
      BY <1>1, <2>1
    <3>2. i \in 1..Len(R) /\ j \in 1..Len(R)
      BY <2>1 DEF n
    <3> QED
      BY <1>6, <3>1, <3>2
  <2>2. CASE i \in 1..n /\ j \notin 1..n
    <3> DEFINE k == j - n + 1
    <3>1. k \in 2..m /\ u[j] = s[k]
      BY <1>3, <2>2
    <3> HIDE DEF k
    <3>2. u[i] = R[i] /\ R[i] \in CallRecord /\ Within(R[i], s[1])
      BY <1>1, <1>2, <2>2
    <3>3. k \in 1..m /\ 1 \in 1..m /\ 1 < k
      BY <1>1, <3>1
    <3>4. s[k] \in CallRecord /\ Precedes(s[1], s[k])
      BY <1>2, <3>3
    <3> QED
      BY <1>4, <3>1, <3>2, <3>4, WithinPrecedes
  <2>3. CASE i \notin 1..n
    <3>1. j \notin 1..n
      BY <1>1, <1>6, <2>3
    <3>2. i - n + 1 \in 2..m /\ u[i] = s[i - n + 1]
          /\ j - n + 1 \in 2..m /\ u[j] = s[j - n + 1] /\ i - n + 1 < j - n + 1
      BY <1>1, <1>3, <1>6, <2>3, <3>1
    <3> DEFINE k == i - n + 1
               l == j - n + 1
    <3>3. k \in 2..m /\ l \in 2..m /\ k < l /\ u[i] = s[k] /\ u[j] = s[l]
      BY <3>2
    <3> HIDE DEF k, l
    <3>4. k \in 1..m /\ l \in 1..m
      BY <1>1, <3>3
    <3> QED
      BY <1>2, <3>3, <3>4
  <2> QED
    BY <2>1, <2>2, <2>3
<1> QED
  BY <1>1, <1>5, <1>6 DEF CallsOK, u

(* What is pending then.  No other call is for the same nonempty part. *)
LEMMA PendingReplaced ==
    ASSUME NEW s, CallsOK(s), s # <<>>, NEW R \in Seq(CallRecord)
    PROVE  Pending(R \o Tail(s)) = (Pending(s) \ {Box(Head(s))}) \cup Pending(R)
<1> DEFINE u == R \o Tail(s)
           n == Len(R)
           m == Len(s)
<1>0. s \in Seq(CallRecord)
  BY DEF CallsOK
<1>1. /\ u \in Seq(CallRecord) /\ Len(u) = n + m - 1
      /\ m \in Nat /\ m >= 1 /\ n \in Nat
      /\ \A i \in 1..n : u[i] = R[i]
      /\ \A i \in 2..m : u[n + i - 1] = s[i]
      /\ Head(s) = s[1]
  BY <1>0, ReplaceHead
<1>2. /\ \A i \in 1..m : s[i] \in CallRecord
      /\ \A i \in 2..m : Precedes(s[1], s[i])
      /\ \A i \in 1..m : s[i].xoff <= s[i].xlim /\ s[i].yoff <= s[i].ylim
  BY <1>1 DEF CallsOK, IsBox
<1>3. Pending(u) = {Box(u[i]) : i \in {j \in 1..Len(u) : NonEmptyBox(u[j])}}
      /\ Pending(s) = {Box(s[i]) : i \in {j \in 1..m : NonEmptyBox(s[j])}}
      /\ Pending(R) = {Box(R[i]) : i \in {j \in 1..n : NonEmptyBox(R[j])}}
  BY DEF Pending
<1> HIDE DEF u, n, m
<1>4. \A i \in 2..m : NonEmptyBox(s[i]) => Box(s[i]) # Box(s[1])
  <2> SUFFICES ASSUME NEW i \in 2..m, NonEmptyBox(s[i]), Box(s[i]) = Box(s[1])
               PROVE  FALSE
    OBVIOUS
  <2>1. Precedes(s[1], s[i]) /\ s[i] \in CallRecord /\ s[1] \in CallRecord
    BY <1>1, <1>2
  <2>2. s[i].xoff = s[1].xoff /\ s[i].xlim = s[1].xlim /\ s[i].yoff = s[1].yoff
        /\ s[i].ylim = s[1].ylim
    BY DEF Box
  <2> QED
    BY <2>1, <2>2 DEF Precedes, NonEmptyBox, CallRecord
<1>5. ASSUME NEW r \in Pending(u)
      PROVE  r \in (Pending(s) \ {Box(s[1])}) \cup Pending(R)
  <2>1. PICK i \in 1..Len(u) : NonEmptyBox(u[i]) /\ r = Box(u[i])
    BY <1>3
  <2>2. CASE i \in 1..n
    BY <1>1, <1>3, <2>1, <2>2
  <2>3. CASE i \notin 1..n
    <3> DEFINE k == i - n + 1
    <3>1. k \in 2..m /\ n + k - 1 = i
      BY <1>1, <2>3
    <3> HIDE DEF k
    <3>2. u[i] = s[k] /\ k \in 1..m
      BY <1>1, <3>1
    <3> QED
      BY <1>3, <1>4, <2>1, <3>1, <3>2
  <2> QED
    BY <2>2, <2>3
<1>6. ASSUME NEW r \in Pending(R) PROVE r \in Pending(u)
  <2>1. PICK i \in 1..n : NonEmptyBox(R[i]) /\ r = Box(R[i])
    BY <1>3
  <2>2. i \in 1..Len(u) /\ u[i] = R[i]
    BY <1>1, <2>1
  <2> QED
    BY <1>3, <2>1, <2>2
<1>7. ASSUME NEW r \in Pending(s), r # Box(s[1]) PROVE r \in Pending(u)
  <2>1. PICK i \in 1..m : NonEmptyBox(s[i]) /\ r = Box(s[i])
    BY <1>3
  <2>2. i \in 2..m
    BY <1>1, <1>7, <2>1
  <2> DEFINE k == n + i - 1
  <2>3. k \in 1..Len(u) /\ u[k] = s[i]
    BY <1>1, <2>2
  <2> HIDE DEF k
  <2> QED
    BY <1>3, <2>1, <2>3
<1> QED
  BY <1>1, <1>5, <1>6, <1>7 DEF u

-----------------------------------------------------------------------------
(* The inductive invariant *)

Searching == phase \in {"forward", "backward", "heuristic"}

SearchFields == {"c", "fmin", "fmax", "bmin", "bmax", "fd", "bd", "big_snake"}

(* The invariant of a search, by the pass that is next *)
SearchOK ==
    /\ SearchFields \subseteq DOMAIN search
    /\ top.xoff < top.xlim /\ top.yoff < top.ylim
    /\ phase # "backward" => BeforeForward(search.fd, search.fmin, search.fmax,
                                           search.bd, search.bmin, search.bmax)
    /\ phase = "backward" => BeforeBackward(search.fd, search.fmin, search.fmax,
                                            search.bd, search.bmin, search.bmax)

IInv ==
    /\ xvec \in Vector /\ yvec \in Vector
    /\ option \subseteq {"minimal", "speed_large_files"}
    /\ phase \in {"call", "note", "forward", "backward", "heuristic"}
    /\ CallsOK(stack)
    /\ phase # "call" => stack # <<>>
    /\ phase = "note" => top.xoff = top.xlim \/ top.yoff = top.ylim
    /\ "c" \in DOMAIN search /\ search.c \in Nat
    /\ Searching => SearchOK

(* An index into a vector is less than OFFSET_MAX. *)
LEMMA VectorFacts ==
    ASSUME NEW v \in Vector
    PROVE  v \in Seq(Element) /\ Len(v) \in Nat /\ Len(v) < OFFSET_MAX
BY CompareAssumption

(* The call being made, when there is one *)
LEMMA TopFacts ==
    ASSUME IInv, stack # <<>>
    PROVE  /\ top \in CallRecord /\ IsBox(top)
           /\ stack \in Seq(CallRecord)
           /\ Len(xvec) \in Nat /\ Len(yvec) \in Nat
           /\ OFFSET_MAX \in Nat /\ top.xlim < OFFSET_MAX
           /\ top.xoff \in Nat /\ top.xlim \in Nat /\ top.yoff \in Nat /\ top.ylim \in Nat
           /\ top.find_minimal \in BOOLEAN
           /\ top.xoff <= top.xlim /\ top.yoff <= top.ylim
           /\ top.xlim <= Len(xvec) /\ top.ylim <= Len(yvec)
<1>1. /\ stack \in Seq(CallRecord) /\ \A i \in 1..Len(stack) : IsBox(stack[i])
  BY DEF IInv, CallsOK
<1>2. Len(stack) \in Nat /\ Len(stack) >= 1 /\ top = stack[1] /\ top \in CallRecord
  BY <1>1 DEF top
<1>3. IsBox(top)
  BY <1>1, <1>2
<1>4. /\ Len(xvec) \in Nat /\ Len(yvec) \in Nat /\ Len(xvec) < OFFSET_MAX /\ OFFSET_MAX \in Nat
  BY VectorFacts, CompareAssumption DEF IInv
<1>5. /\ top.xoff \in Nat /\ top.xlim \in Nat /\ top.yoff \in Nat /\ top.ylim \in Nat
      /\ top.find_minimal \in BOOLEAN
  BY <1>2 DEF CallRecord
<1>6. /\ top.xoff <= top.xlim /\ top.yoff <= top.ylim
      /\ top.xlim <= Len(xvec) /\ top.ylim <= Len(yvec)
  BY <1>3 DEF IsBox
<1> QED
  BY <1>1, <1>2, <1>3, <1>4, <1>5, <1>6

(* A step that replaces the head of the stack by calls for parts of it     *)
LEMMA StackStep ==
    ASSUME IInv, stack # <<>>, NEW R \in Seq(CallRecord),
           \A i \in 1..Len(R) : Within(R[i], top),
           \A i, j \in 1..Len(R) : i < j => Precedes(R[i], R[j]),
           stack' = R \o Tail(stack), UNCHANGED vectors
    PROVE  /\ xvec' \in Vector /\ yvec' \in Vector
           /\ option' \subseteq {"minimal", "speed_large_files"}
           /\ CallsOK(stack)'
           /\ Pending(stack)' = (Pending(stack) \ {Box(top)}) \cup Pending(R)
<1>1. CallsOK(stack) /\ stack \in Seq(CallRecord) /\ Len(xvec) \in Nat /\ Len(yvec) \in Nat
  BY TopFacts DEF IInv
<1>2. CallsOK(R \o Tail(stack))
  BY <1>1, CallsReplaced DEF top
<1>3. CallsOK(stack)'
  BY <1>2 DEF CallsOK, vectors, IsBox
<1>4. Pending(R \o Tail(stack)) = (Pending(stack) \ {Box(top)}) \cup Pending(R)
  BY <1>1, PendingReplaced DEF top
<1>5. Pending(stack)' = Pending(stack')
  BY DEF Pending
<1> QED
  BY <1>3, <1>4, <1>5 DEF IInv, vectors

(* A stack with a call on top *)
LEMMA HeadReplaced ==
    ASSUME NEW s \in Seq(CallRecord), s # <<>>, NEW r \in CallRecord, NEW R, R = <<r>>
    PROVE  /\ R \in Seq(CallRecord) /\ Len(R) = 1 /\ R[1] = r
           /\ R \o Tail(s) # <<>> /\ Head(R \o Tail(s)) = r
           /\ Pending(R) = {q \in {Box(r)} : NonEmptyBox(q)}
<1>1. R \in Seq(CallRecord) /\ Len(R) = 1 /\ R[1] = r
  OBVIOUS
<1> DEFINE u == R \o Tail(s)
<1>2. /\ u \in Seq(CallRecord) /\ Len(u) = Len(R) + Len(s) - 1
      /\ Len(s) \in Nat /\ Len(s) >= 1
      /\ \A i \in 1..Len(R) : u[i] = R[i]
  BY <1>1, ReplaceHead
<1> HIDE DEF u
<1>3. Len(u) \in Nat /\ Len(u) >= 1 /\ u[1] = r
  BY <1>1, <1>2
<1>4. u # <<>> /\ Head(u) = r
  BY <1>2, <1>3
<1>5. Pending(R) = {Box(R[i]) : i \in {j \in 1..1 : NonEmptyBox(R[j])}}
  BY <1>1 DEF Pending
<1>6. NonEmptyBox(r) <=> NonEmptyBox(Box(r))
  BY DEF NonEmptyBox, Box
<1>7. Pending(R) = {q \in {Box(r)} : NonEmptyBox(q)}
  BY <1>1, <1>5, <1>6
<1> QED
  BY <1>1, <1>4, <1>7 DEF u

-----------------------------------------------------------------------------
(* What a step does to the parts that are pending: what a step of the      *)
(* abstract comparison may do, or nothing.                                 *)

Replaced(B) ==
    Pending(stack)' = (Pending(stack) \ {Box(top)}) \cup {q \in B : NonEmptyBox(q)}

Slides(k, l) ==
    /\ k + l <= top.xlim - top.xoff
    /\ k + l <= top.ylim - top.yoff
    /\ \A i \in 0..(k - 1) : Equal(top.xoff + i, top.yoff + i)
    /\ \A i \in 1..l : Equal(top.xlim - i, top.ylim - i)
    /\ Replaced({Rect(top.xoff + k, top.xlim - l, top.yoff + k, top.ylim - l)})
    /\ matched' = matched \cup {<<top.xoff + i, top.yoff + i>> : i \in 0..(k - 1)}
                          \cup {<<top.xlim - i, top.ylim - i>> : i \in 1..l}
    /\ UNCHANGED <<vectors, deleted, inserted>>

Notes ==
    /\ top.xoff = top.xlim \/ top.yoff = top.ylim
    /\ deleted' = deleted \cup top.xoff..(top.xlim - 1)
    /\ inserted' = inserted \cup top.yoff..(top.ylim - 1)
    /\ Replaced({})
    /\ UNCHANGED <<vectors, matched>>

Splits(xmid, ymid) ==
    /\ Replaced({Rect(top.xoff, xmid, top.yoff, ymid), Rect(xmid, top.xlim, ymid, top.ylim)})
    /\ UNCHANGED <<vectors, deleted, inserted, matched>>

AbstractStep ==
    \/ /\ Box(top) \in Pending(stack)
       /\ \/ \E k, l \in 0..(top.xlim - top.xoff) : Slides(k, l)
          \/ Notes
          \/ \E xmid \in top.xoff..top.xlim, ymid \in top.yoff..top.ylim : Splits(xmid, ymid)
    \/ UNCHANGED <<vectors, Pending(stack), deleted, inserted, matched>>

(* The call being made is pending, unless it is for nothing. *)
LEMMA TopPending ==
    ASSUME stack \in Seq(CallRecord), stack # <<>>
    PROVE  Box(top) \in Pending(stack) <=> NonEmptyBox(top)
<1>1. Len(stack) \in Nat /\ 1 \in 1..Len(stack) /\ top = stack[1]
  BY DEF top
<1>2. NonEmptyBox(top) => Box(top) \in Pending(stack)
  BY <1>1 DEF Pending
<1>3. Box(top) \in Pending(stack) => NonEmptyBox(top)
  BY DEF Pending, Box, NonEmptyBox
<1> QED
  BY <1>2, <1>3

(* The point that diag returns is inside the rectangle: both halves are    *)
(* parts of it, and the abstract comparison splits it there.               *)
LEMMA PartitionStep ==
    ASSUME IInv, Searching,
           NEW xmid \in top.xoff..top.xlim, NEW ymid \in top.yoff..top.ylim,
           NEW lom \in BOOLEAN, NEW him \in BOOLEAN,
           Partition(xmid, ymid, lom, him),
           UNCHANGED <<vectors, deleted, inserted, matched>>
    PROVE  IInv' /\ AbstractStep
<1> DEFINE lo == Call(top.xoff, xmid, top.yoff, ymid, lom)
           hi == Call(xmid, top.xlim, ymid, top.ylim, him)
           R == <<lo, hi>>
<1>1. /\ stack # <<>> /\ top.xoff < top.xlim /\ top.yoff < top.ylim
      /\ stack \in Seq(CallRecord)
  BY DEF IInv, Searching, SearchOK, CallsOK
<1>2. /\ top.xoff \in Nat /\ top.xlim \in Nat /\ top.yoff \in Nat /\ top.ylim \in Nat
      /\ xmid \in Nat /\ ymid \in Nat
      /\ top.xoff <= xmid /\ xmid <= top.xlim /\ top.yoff <= ymid /\ ymid <= top.ylim
  BY <1>1, TopFacts
<1>3. lo \in CallRecord /\ hi \in CallRecord
  BY <1>2 DEF Call, CallRecord
<1>4. Within(lo, top) /\ Within(hi, top) /\ Precedes(lo, hi)
  BY <1>2 DEF Call, Within, Precedes
<1>5. Box(lo) = Rect(top.xoff, xmid, top.yoff, ymid)
      /\ Box(hi) = Rect(xmid, top.xlim, ymid, top.ylim)
  BY DEF Box, Call, Rect
<1>6. stack' = R \o Tail(stack) /\ phase' = "call" /\ search' = NoSearch
  BY DEF Partition
<1> HIDE DEF lo, hi
<1>7. R \in Seq(CallRecord) /\ Len(R) = 2 /\ R[1] = lo /\ R[2] = hi
  BY <1>3
<1> HIDE DEF R
<1>8. /\ \A i \in 1..Len(R) : Within(R[i], top)
      /\ \A i, j \in 1..Len(R) : i < j => Precedes(R[i], R[j])
  BY <1>4, <1>7
<1>9. /\ xvec' \in Vector /\ yvec' \in Vector /\ CallsOK(stack)'
      /\ option' \subseteq {"minimal", "speed_large_files"}
      /\ Pending(stack)' = (Pending(stack) \ {Box(top)}) \cup Pending(R)
  BY <1>1, <1>6, <1>7, <1>8, StackStep
<1>10. IInv'
  BY <1>6, <1>9 DEF IInv, Searching, NoSearch
<1>11. Pending(R) = {r \in {Box(lo), Box(hi)} : NonEmptyBox(r)}
  <2>1. Pending(R) = {Box(R[i]) : i \in {j \in 1..2 : NonEmptyBox(R[j])}}
    BY <1>7 DEF Pending
  <2>2. \A r \in {lo, hi} : NonEmptyBox(r) <=> NonEmptyBox(Box(r))
    BY DEF NonEmptyBox, Box
  <2> QED
    BY <1>7, <2>1, <2>2
<1>12. Box(top) \in Pending(stack)
  BY <1>1, TopPending DEF NonEmptyBox
<1>13. Splits(xmid, ymid)
  BY <1>5, <1>9, <1>11 DEF Splits, Replaced
<1> QED
  BY <1>10, <1>12, <1>13 DEF AbstractStep

(* One side is empty: compareseq notes the other one and returns. *)
LEMMA NoteStep ==
    ASSUME IInv, Note
    PROVE  IInv' /\ AbstractStep
<1> DEFINE R == <<>>
<1>1. /\ stack # <<>> /\ stack \in Seq(CallRecord) /\ phase' = "call" /\ search' = search
      /\ UNCHANGED vectors /\ matched' = matched
      /\ top.xoff = top.xlim \/ top.yoff = top.ylim
      /\ deleted' = deleted \cup top.xoff..(top.xlim - 1)
      /\ inserted' = inserted \cup top.yoff..(top.ylim - 1)
  BY DEF IInv, Note, CallsOK
<1>2. Tail(stack) \in Seq(CallRecord) /\ stack' = Tail(stack)
  BY <1>1 DEF Note
<1>3. stack' = R \o Tail(stack)
  BY <1>2
<1>4. R \in Seq(CallRecord) /\ Len(R) = 0
  OBVIOUS
<1> HIDE DEF R
<1>5. /\ xvec' \in Vector /\ yvec' \in Vector /\ CallsOK(stack)'
      /\ option' \subseteq {"minimal", "speed_large_files"}
      /\ Pending(stack)' = (Pending(stack) \ {Box(top)}) \cup Pending(R)
  <2>1. /\ \A i \in 1..Len(R) : Within(R[i], top)
        /\ \A i, j \in 1..Len(R) : i < j => Precedes(R[i], R[j])
    BY <1>4
  <2> QED
    BY <1>1, <1>3, <1>4, <2>1, StackStep
<1>6. IInv'
  BY <1>1, <1>5 DEF IInv, Searching
<1>7. Pending(R) = {}
  BY <1>4 DEF Pending
<1>8. CASE NonEmptyBox(top)
  <2>1. Notes
    BY <1>1, <1>5, <1>7 DEF Notes, Replaced
  <2>2. Box(top) \in Pending(stack)
    BY <1>1, <1>8, TopPending
  <2> QED
    BY <1>6, <2>1, <2>2 DEF AbstractStep
<1>9. CASE ~NonEmptyBox(top)
  <2>1. Pending(stack)' = Pending(stack)
    BY <1>1, <1>5, <1>7, <1>9, TopPending
  <2>2. /\ top.xoff \in Nat /\ top.xlim \in Nat /\ top.yoff \in Nat /\ top.ylim \in Nat
    BY <1>1, TopFacts
  <2>3. deleted' = deleted /\ inserted' = inserted
    BY <1>1, <1>9, <2>2 DEF NonEmptyBox
  <2> QED
    BY <1>1, <1>6, <2>1, <2>3 DEF AbstractStep
<1> QED
  BY <1>8, <1>9

(* A search starts from the two corners of the rectangle. *)
LEMMA SearchStarts ==
    ASSUME NEW r \in CallRecord, r.xoff < r.xlim, r.yoff < r.ylim,
           r.xlim <= Len(xvec), r.ylim <= Len(yvec),
           Len(xvec) \in Nat, Len(yvec) \in Nat, UNCHANGED vectors,
           top' = r, search' = StartSearch(r), phase' = "forward"
    PROVE  SearchOK'
<1> DEFINE xo == r.xoff
           xl == r.xlim
           yo == r.yoff
           yl == r.ylim
           fm == xo - yo
           bm == xl - yl
<1>1. /\ xo \in Nat /\ xl \in Nat /\ yo \in Nat /\ yl \in Nat
      /\ xo < xl /\ yo < yl /\ xl <= Len(xvec) /\ yl <= Len(yvec)
  BY DEF CallRecord
<1>2. /\ dmin' = xo - yl /\ dmax' = xl - yo /\ fmid' = fm /\ bmid' = bm
      /\ top'.xoff = xo /\ top'.xlim = xl /\ top'.yoff = yo /\ top'.ylim = yl
  BY DEF dmin, dmax, fmid, bmid
<1>3. /\ search'.fmin = fm /\ search'.fmax = fm /\ search'.bmin = bm /\ search'.bmax = bm
      /\ search'.fd = Entry(fm, xo) /\ search'.bd = Entry(bm, xl)
      /\ SearchFields \subseteq DOMAIN search'
  BY DEF StartSearch, SearchFields
<1> HIDE DEF xo, xl, yo, yl
<1>4. /\ DOMAIN search'.fd = {fm} /\ search'.fd[fm] = xo
      /\ DOMAIN search'.bd = {bm} /\ search'.bd[bm] = xl
  BY <1>3 DEF Entry
<1>5. fm \in Int /\ bm \in Int /\ xo - fm = yo /\ xl - bm = yl
  BY <1>1
<1>6. /\ xo - yl <= fm /\ fm <= xl - yo /\ xo - yl <= bm /\ bm <= xl - yo
  BY <1>1
<1>7. (fm - fm) % 2 = 0 /\ (bm - bm) % 2 = 0
  BY <1>5
<1>8. fm \in Allocated' /\ bm \in Allocated'
  <2>1. /\ -Len(yvec) - 1 <= fm /\ fm <= Len(xvec) + 1
        /\ -Len(yvec) - 1 <= bm /\ bm <= Len(xvec) + 1
    BY <1>1
  <2>2. Allocated' = (-Len(yvec) - 1)..(Len(xvec) + 1)
    BY DEF Allocated, vectors
  <2> QED
    BY <1>5, <2>1, <2>2
<1> HIDE DEF fm, bm
<1>9. Diagonals(fm, fm) = {fm} /\ Diagonals(bm, bm) = {bm}
  BY <1>5, <1>7 DEF Diagonals
<1>10. /\ Limits(search.fmin, search.fmax, fmid)' /\ Limits(search.bmin, search.bmax, bmid)'
  <2>1. dmin' <= fm /\ fm <= dmax' /\ dmin' <= bm /\ bm <= dmax'
    BY <1>2, <1>6
  <2>2. fm <= fm /\ bm <= bm
    BY <1>5
  <2> QED
    BY <1>2, <1>3, <1>5, <1>7, <2>1, <2>2 DEF Limits
<1>11. Reached(search.fd, search.fmin, search.fmax)'
  BY <1>1, <1>2, <1>3, <1>4, <1>5, <1>9 DEF Reached
<1>12. ReachedBack(search.bd, search.bmin, search.bmax)'
  BY <1>1, <1>2, <1>3, <1>4, <1>5, <1>9 DEF ReachedBack
<1>13. /\ Near(search.fd, search.fmin, search.fmax, search.bmin, search.bmax)'
       /\ InsideBack(search.bd, search.bmin, search.bmax, search.fmin, search.fmax)'
  BY <1>1, <1>2, <1>3, <1>4, <1>5, <1>9 DEF Near, InsideBack
<1>14. (DOMAIN search.fd)' \subseteq Allocated' /\ (DOMAIN search.bd)' \subseteq Allocated'
  BY <1>4, <1>8
<1>15. BeforeForward(search.fd, search.fmin, search.fmax,
                     search.bd, search.bmin, search.bmax)'
  BY <1>2, <1>3, <1>10, <1>11, <1>12, <1>13, <1>14 DEF BeforeForward
<1> QED
  BY <1>1, <1>2, <1>3, <1>15 DEF SearchOK

(* compareseq passes over equal elements at both ends. *)
LEMMA SlideStep ==
    ASSUME IInv, Slide
    PROVE  IInv' /\ AbstractStep
<1> DEFINE k == SnakeDown(top.xoff, top.yoff, top.xlim, top.ylim)
           l == SnakeUp(top.xlim, top.ylim, top.xoff + k, top.yoff + k)
           r == Call(top.xoff + k, top.xlim - l, top.yoff + k, top.ylim - l,
                     top.find_minimal)
           simple == r.xoff = r.xlim \/ r.yoff = r.ylim
           R == <<r>>
<1>1. /\ phase = "call" /\ stack # <<>> /\ stack' = R \o Tail(stack)
      /\ matched' = matched \cup {<<top.xoff + i, top.yoff + i>> : i \in 0..(k - 1)}
                            \cup {<<top.xlim - i, top.ylim - i>> : i \in 1..l}
      /\ phase' = IF simple THEN "note" ELSE "forward"
      /\ search' = IF simple THEN NoSearch ELSE StartSearch(r)
      /\ UNCHANGED vectors /\ deleted' = deleted /\ inserted' = inserted
  BY DEF Slide
<1>2. /\ top.xoff \in Nat /\ top.xlim \in Nat /\ top.yoff \in Nat /\ top.ylim \in Nat
      /\ top.find_minimal \in BOOLEAN
      /\ top.xoff <= top.xlim /\ top.yoff <= top.ylim
      /\ top.xlim <= Len(xvec) /\ top.ylim <= Len(yvec)
      /\ Len(xvec) \in Nat /\ Len(yvec) \in Nat
      /\ stack \in Seq(CallRecord)
  BY <1>1, TopFacts
<1>3. /\ k \in 0..(top.xlim - top.xoff) /\ l \in 0..(top.xlim - top.xoff)
      /\ k + l <= top.xlim - top.xoff /\ k + l <= top.ylim - top.yoff
      /\ \A i \in 0..(k - 1) : Equal(top.xoff + i, top.yoff + i)
      /\ \A i \in 1..l : Equal(top.xlim - i, top.ylim - i)
  BY <1>2, SlideFacts
<1> HIDE DEF k, l
<1>4. /\ top.xoff + k \in Nat /\ top.xlim - l \in Nat
      /\ top.yoff + k \in Nat /\ top.ylim - l \in Nat
      /\ top.xoff + k <= top.xlim - l /\ top.yoff + k <= top.ylim - l
      /\ top.xoff <= top.xoff + k /\ top.yoff <= top.yoff + k
      /\ top.xlim - l <= top.xlim /\ top.ylim - l <= top.ylim
      /\ top.xlim - l <= Len(xvec) /\ top.ylim - l <= Len(yvec)
      /\ top.xoff = top.xlim => k = 0 /\ l = 0
  <2> DEFINE xo == top.xoff
             xl == top.xlim
             yo == top.yoff
             yl == top.ylim
             m == Len(xvec)
             n == Len(yvec)
  <2>1. /\ xo \in Nat /\ xl \in Nat /\ yo \in Nat /\ yl \in Nat
        /\ xo <= xl /\ yo <= yl /\ xl <= m /\ yl <= n /\ m \in Nat /\ n \in Nat
    BY <1>2
  <2>2. k \in 0..(xl - xo) /\ l \in 0..(xl - xo) /\ k + l <= xl - xo /\ k + l <= yl - yo
    BY <1>3
  <2> HIDE DEF xo, xl, yo, yl, m, n
  <2>3. /\ xo + k \in Nat /\ xl - l \in Nat /\ yo + k \in Nat /\ yl - l \in Nat
        /\ xo + k <= xl - l /\ yo + k <= yl - l
        /\ xo <= xo + k /\ yo <= yo + k /\ xl - l <= xl /\ yl - l <= yl
        /\ xl - l <= m /\ yl - l <= n
        /\ xo = xl => k = 0 /\ l = 0
    BY <2>1, <2>2
  <2> QED
    BY <2>3 DEF xo, xl, yo, yl, m, n
<1>5. /\ r.xoff = top.xoff + k /\ r.xlim = top.xlim - l
       /\ r.yoff = top.yoff + k /\ r.ylim = top.ylim - l
       /\ r \in CallRecord
       /\ Box(r) = Rect(top.xoff + k, top.xlim - l, top.yoff + k, top.ylim - l)
  BY <1>2, <1>4 DEF Call, CallRecord, Box, Rect
<1> HIDE DEF r
<1>6. /\ Within(r, top)
      /\ r.xlim <= Len(xvec) /\ r.ylim <= Len(yvec)
      /\ ~simple => r.xoff < r.xlim /\ r.yoff < r.ylim
  <2>1. Within(r, top) /\ r.xlim <= Len(xvec) /\ r.ylim <= Len(yvec)
    BY <1>4, <1>5 DEF Within
  <2>2. /\ r.xoff \in Nat /\ r.xlim \in Nat /\ r.yoff \in Nat /\ r.ylim \in Nat
        /\ r.xoff <= r.xlim /\ r.yoff <= r.ylim
    BY <1>4, <1>5
  <2> QED
    BY <2>1, <2>2
<1>7. /\ R \in Seq(CallRecord) /\ Len(R) = 1 /\ R[1] = r
      /\ R \o Tail(stack) # <<>> /\ Head(R \o Tail(stack)) = r
      /\ Pending(R) = {q \in {Box(r)} : NonEmptyBox(q)}
  BY <1>1, <1>2, <1>5, HeadReplaced
<1> HIDE DEF R
<1>8. /\ \A i \in 1..Len(R) : Within(R[i], top)
      /\ \A i, j \in 1..Len(R) : i < j => Precedes(R[i], R[j])
  BY <1>6, <1>7
<1>9. /\ xvec' \in Vector /\ yvec' \in Vector /\ CallsOK(stack)'
      /\ option' \subseteq {"minimal", "speed_large_files"}
      /\ Pending(stack)' = (Pending(stack) \ {Box(top)}) \cup Pending(R)
  BY <1>1, <1>7, <1>8, StackStep
<1>10. stack' # <<>> /\ top' = r
  BY <1>1, <1>7 DEF top
<1>11. IInv'
  <2>1. CASE simple
    BY <1>1, <1>9, <1>10, <2>1 DEF IInv, Searching, NoSearch
  <2>2. CASE ~simple
    <3>1. SearchOK'
      BY <1>1, <1>2, <1>6, <1>10, <1>5, <2>2, SearchStarts
    <3>2. "c" \in DOMAIN search' /\ search'.c \in Nat
      BY <1>1, <2>2 DEF StartSearch
    <3> QED
      BY <1>1, <1>9, <1>10, <2>2, <3>1, <3>2 DEF IInv
  <2> QED
    BY <2>1, <2>2
<1>12. CASE NonEmptyBox(top)
  <2>1. Box(top) \in Pending(stack)
    BY <1>1, <1>2, <1>12, TopPending
  <2>2. Replaced({Rect(top.xoff + k, top.xlim - l, top.yoff + k, top.ylim - l)})
    BY <1>7, <1>9, <1>5 DEF Replaced
  <2>3. Slides(k, l)
    BY <1>1, <1>3, <2>2 DEF Slides
  <2> QED
    BY <1>3, <1>11, <2>1, <2>3 DEF AbstractStep
<1>13. CASE ~NonEmptyBox(top)
  <2>1. k = 0 /\ l = 0
    BY <1>2, <1>4, <1>13 DEF NonEmptyBox
  <2>2. Pending(R) = {}
    BY <1>2, <1>7, <1>13, <1>5, <2>1 DEF NonEmptyBox, Rect
  <2>3. Pending(stack)' = Pending(stack)
    BY <1>1, <1>2, <1>9, <1>13, <2>2, TopPending
  <2>4. matched' = matched
    BY <1>1, <2>1
  <2> QED
    BY <1>1, <1>11, <2>3, <2>4 DEF AbstractStep
<1> QED
  BY <1>12, <1>13

(* The invariant while diag is searching *)
LEMMA SearchingFacts ==
    ASSUME IInv, Searching
    PROVE  stack # <<>> /\ SearchOK /\ Placed /\ TopOK
<1>1. stack # <<>> /\ SearchOK
  BY DEF IInv, Searching
<1>2. Placed
  BY <1>1, TopFacts DEF Placed, TopOK, SearchOK
<1> QED
  BY <1>1, <1>2 DEF Placed

(* A step of a search that goes on is no step of the abstract comparison. *)
LEMMA SearchStutters ==
    ASSUME UNCHANGED <<vectors, stack, deleted, inserted, matched>>
    PROVE  AbstractStep
<1>1. Pending(stack)' = Pending(stack)
  BY DEF Pending
<1> QED
  BY <1>1 DEF AbstractStep

(* A search that goes on: the invariant holds when the entries and limits  *)
(* are as the next pass needs them.                                        *)
LEMMA SearchGoesOn ==
    ASSUME IInv, Searching, UNCHANGED <<vectors, stack, deleted, inserted, matched>>,
           phase' \in {"forward", "backward", "heuristic"},
           DOMAIN search' = DOMAIN search, search'.c \in Nat,
           NEW f, NEW flo, NEW fhi, NEW b, NEW blo, NEW bhi,
           search'.fd = f, search'.fmin = flo, search'.fmax = fhi,
           search'.bd = b, search'.bmin = blo, search'.bmax = bhi,
           phase' # "backward" => BeforeForward(f, flo, fhi, b, blo, bhi),
           phase' = "backward" => BeforeBackward(f, flo, fhi, b, blo, bhi)
    PROVE  IInv' /\ AbstractStep
<1>1. /\ top' = top /\ dmin' = dmin /\ dmax' = dmax /\ fmid' = fmid /\ bmid' = bmid
      /\ odd' = odd /\ Allocated' = Allocated
  BY DEF top, dmin, dmax, fmid, bmid, odd, Allocated, vectors
<1>2. phase' # "backward" => BeforeForward(search.fd, search.fmin, search.fmax,
                                           search.bd, search.bmin, search.bmax)'
  BY <1>1 DEF BeforeForward, Limits, Reached, ReachedBack, Near, InsideBack
<1>3. phase' = "backward" => BeforeBackward(search.fd, search.fmin, search.fmax,
                                            search.bd, search.bmin, search.bmax)'
  BY <1>1 DEF BeforeBackward, Limits, Reached, ReachedBack, Inside, NearBack
<1>4. stack # <<>> /\ SearchOK
  BY SearchingFacts
<1>5. SearchOK'
  BY <1>1, <1>2, <1>3, <1>4 DEF SearchOK
<1>6. CallsOK(stack)'
  BY DEF IInv, CallsOK, IsBox, vectors
<1>7. IInv'
  BY <1>4, <1>5, <1>6 DEF IInv, vectors
<1> QED
  BY <1>7, SearchStutters

(* The forward pass: where it meets the backward search is inside the      *)
(* rectangle, and if it does not meet it the invariant goes on to hold.    *)
LEMMA ForwardStep ==
    ASSUME IInv, Forward
    PROVE  IInv' /\ AbstractStep
<1> DEFINE f == search.fd
           flo == search.fmin
           fhi == search.fmax
           b == search.bd
           blo == search.bmin
           bhi == search.bmax
           g == NewForward(f, flo, fhi)
           E == Diagonals(Lower(flo), Upper(fhi))
           met == {d \in E : odd /\ blo <= d /\ d <= bhi /\ b[d] <= g[d]}
           m == Max(met)
<1>1. /\ phase = "forward" /\ Searching /\ UNCHANGED <<vectors, deleted, inserted, matched>>
  BY DEF Forward, Searching
<1>2. SearchOK /\ Placed
  BY <1>1, SearchingFacts
<1>3. BeforeForward(f, flo, fhi, b, blo, bhi) /\ SearchFields \subseteq DOMAIN search
  BY <1>1, <1>2 DEF SearchOK
<1>4. blo \in Int /\ bhi \in Int
  BY <1>3 DEF BeforeForward, Limits
<1>5. /\ met # {} => Partition(g[m], g[m] - m, TRUE, TRUE)
      /\ met = {} => /\ \E z : search' = [search EXCEPT !.fmin = Lower(flo), !.fmax = Upper(fhi),
                                                        !.fd = g, !.big_snake = z]
                     /\ phase' = "backward" /\ stack' = stack
  BY ForwardIs
<1>6. met \subseteq Int /\ \A d \in met : d <= bhi
  BY DEF Diagonals
<1>7. \A d \in met : odd /\ d \in E /\ d \in blo..bhi
  BY <1>4, <1>6
<1>8. met = {} => \A d \in E : ~(odd /\ blo <= d /\ d <= bhi /\ b[d] <= g[d])
  OBVIOUS
<1>9. g = NewForward(f, flo, fhi)
  OBVIOUS
<1> HIDE DEF f, flo, fhi, b, blo, bhi, g, met, m
<1>10. CASE met # {}
  <2>1. m \in met
    BY <1>4, <1>6, <1>10, MaxProperty DEF m
  <2>2. g[m] \in top.xoff..top.xlim /\ g[m] - m \in top.yoff..top.ylim
    BY <1>2, <1>3, <1>7, <1>9, <2>1, ForwardMeets
  <2> QED
    BY <1>1, <1>5, <1>10, <2>2, PartitionStep
<1>11. CASE met = {}
  <2>1. BeforeBackward(g, Lower(flo), Upper(fhi), b, blo, bhi)
    BY <1>2, <1>3, <1>8, <1>9, <1>11, ForwardGoesOn
  <2>2. phase' = "backward" /\ stack' = stack
    BY <1>5, <1>11
  <2>3. PICK z : search' = [search EXCEPT !.fmin = Lower(flo), !.fmax = Upper(fhi),
                                          !.fd = g, !.big_snake = z]
    BY <1>5, <1>11
  <2>4. /\ search'.fmin = Lower(flo) /\ search'.fmax = Upper(fhi) /\ search'.fd = g
        /\ search'.bmin = blo /\ search'.bmax = bhi /\ search'.bd = b
        /\ DOMAIN search' = DOMAIN search /\ search'.c \in Nat
    BY <1>3, <2>3 DEF SearchFields, IInv, b, blo, bhi
  <2> QED
    BY <1>1, <2>1, <2>2, <2>4, SearchGoesOn
<1> QED
  BY <1>10, <1>11

(* The backward pass, likewise *)
LEMMA BackwardStep ==
    ASSUME IInv, Backward
    PROVE  IInv' /\ AbstractStep
<1> DEFINE f == search.fd
           flo == search.fmin
           fhi == search.fmax
           b == search.bd
           blo == search.bmin
           bhi == search.bmax
           g == NewBackward(b, blo, bhi)
           E == Diagonals(Lower(blo), Upper(bhi))
           met == {d \in E : ~odd /\ flo <= d /\ d <= fhi /\ g[d] <= f[d]}
           m == Max(met)
<1>1. /\ phase = "backward" /\ Searching /\ UNCHANGED <<vectors, deleted, inserted, matched>>
  BY DEF Backward, Searching
<1>2. SearchOK /\ Placed
  BY <1>1, SearchingFacts
<1>3. BeforeBackward(f, flo, fhi, b, blo, bhi) /\ SearchFields \subseteq DOMAIN search
  BY <1>1, <1>2 DEF SearchOK
<1>4. flo \in Int /\ fhi \in Int
  BY <1>3 DEF BeforeBackward, Limits
<1>5. /\ met # {} => Partition(g[m], g[m] - m, TRUE, TRUE)
      /\ met = {} => /\ \E z : search' = [search EXCEPT !.bmin = Lower(blo), !.bmax = Upper(bhi),
                                                        !.bd = g, !.big_snake = z,
                                         !.c = IF top.find_minimal THEN @ + 1 ELSE @]
                     /\ phase' \in {"forward", "heuristic"} /\ stack' = stack
  BY BackwardIs
<1>6. met \subseteq Int /\ \A d \in met : d <= fhi
  BY DEF Diagonals
<1>7. \A d \in met : ~odd /\ d \in E /\ d \in flo..fhi
  BY <1>4, <1>6
<1>8. met = {} => \A d \in E : ~(~odd /\ flo <= d /\ d <= fhi /\ g[d] <= f[d])
  OBVIOUS
<1>9. g = NewBackward(b, blo, bhi)
  OBVIOUS
<1> HIDE DEF f, flo, fhi, b, blo, bhi, g, met, m
<1>10. CASE met # {}
  <2>1. m \in met
    BY <1>4, <1>6, <1>10, MaxProperty DEF m
  <2>2. g[m] \in top.xoff..top.xlim /\ g[m] - m \in top.yoff..top.ylim
    BY <1>2, <1>3, <1>7, <1>9, <2>1, BackwardMeets
  <2> QED
    BY <1>1, <1>5, <1>10, <2>2, PartitionStep
<1>11. CASE met = {}
  <2>1. BeforeForward(f, flo, fhi, g, Lower(blo), Upper(bhi))
    BY <1>2, <1>3, <1>8, <1>9, <1>11, BackwardGoesOn
  <2>2. phase' \in {"forward", "heuristic"} /\ stack' = stack
    BY <1>5, <1>11
  <2>3. PICK z : search' = [search EXCEPT !.bmin = Lower(blo), !.bmax = Upper(bhi),
                                          !.bd = g, !.big_snake = z,
                                          !.c = IF top.find_minimal THEN @ + 1 ELSE @]
    BY <1>5, <1>11
  <2>4. /\ search'.bmin = Lower(blo) /\ search'.bmax = Upper(bhi) /\ search'.bd = g
        /\ search'.fmin = flo /\ search'.fmax = fhi /\ search'.fd = f
        /\ DOMAIN search' = DOMAIN search
        /\ search'.c = IF top.find_minimal THEN search.c + 1 ELSE search.c
    BY <1>3, <2>3 DEF SearchFields, f, flo, fhi
  <2>5. search'.c \in Nat
    BY <2>4 DEF IInv
  <2> QED
    BY <1>1, <2>1, <2>2, <2>4, <2>5, SearchGoesOn
<1> QED
  BY <1>10, <1>11

(* The heuristics find no reason to stop. *)
LEMMA ContinueStep ==
    ASSUME IInv, Continue
    PROVE  IInv' /\ AbstractStep
<1>1. /\ phase = "heuristic" /\ Searching /\ phase' = "forward"
      /\ UNCHANGED <<vectors, stack, deleted, inserted, matched>>
  BY DEF Continue, Searching
<1>2. SearchOK
  BY <1>1, SearchingFacts
<1>3. BeforeForward(search.fd, search.fmin, search.fmax, search.bd, search.bmin, search.bmax)
  BY <1>1, <1>2 DEF SearchOK
<1>4. /\ search'.fmin = search.fmin /\ search'.fmax = search.fmax /\ search'.fd = search.fd
      /\ search'.bmin = search.bmin /\ search'.bmax = search.bmax /\ search'.bd = search.bd
      /\ DOMAIN search' = DOMAIN search /\ search'.c = search.c + 1
  BY <1>2 DEF Continue, SearchOK, SearchFields
<1>5. search'.c \in Nat
  BY <1>4 DEF IInv
<1> QED
  BY <1>1, <1>3, <1>4, <1>5, SearchGoesOn

(* What the heuristics start from: where a diagonal ends, cut off at the   *)
(* edges, is inside the rectangle.                                         *)
LEMMA HeuristicFacts ==
    ASSUME IInv, phase = "heuristic"
    PROVE  /\ top.xoff \in Int /\ top.xlim \in Int /\ top.yoff \in Int /\ top.ylim \in Int
           /\ fmid \in Int /\ bmid \in Int
           /\ search.fmin \in Int /\ search.fmax \in Int
           /\ search.bmin \in Int /\ search.bmax \in Int
           /\ ForwardDiagonals \subseteq search.fmin..search.fmax
           /\ BackwardDiagonals \subseteq search.bmin..search.bmax
           /\ ForwardDiagonals # {} /\ BackwardDiagonals # {}
           /\ \A d \in ForwardDiagonals :
                 /\ d \in Int /\ search.fd[d] \in Int
                 /\ ForwardX(d) \in top.xoff..top.xlim
                 /\ ForwardX(d) - d \in top.yoff..top.ylim
           /\ \A d \in BackwardDiagonals :
                 /\ d \in Int /\ search.bd[d] \in Int
                 /\ BackwardX(d) \in top.xoff..top.xlim
                 /\ BackwardX(d) - d \in top.yoff..top.ylim
<1>1. SearchOK /\ TopOK
  BY SearchingFacts DEF Searching
<1>2. /\ Limits(search.fmin, search.fmax, fmid) /\ Limits(search.bmin, search.bmax, bmid)
      /\ Reached(search.fd, search.fmin, search.fmax)
      /\ ReachedBack(search.bd, search.bmin, search.bmax)
  BY <1>1 DEF SearchOK, BeforeForward
<1>3. /\ top.xoff \in Int /\ top.xlim \in Int /\ top.yoff \in Int /\ top.ylim \in Int
      /\ fmid \in Int /\ bmid \in Int
  BY <1>1 DEF TopOK, fmid, bmid
<1>4. /\ search.fmin \in Int /\ search.fmax \in Int
      /\ ForwardDiagonals \subseteq search.fmin..search.fmax /\ ForwardDiagonals # {}
      /\ \A d \in ForwardDiagonals :
            /\ d \in Int /\ search.fd[d] \in Int
            /\ ForwardX(d) \in top.xoff..top.xlim
            /\ ForwardX(d) - d \in top.yoff..top.ylim
  BY <1>1, <1>2, ForwardEnds DEF ForwardDiagonals, ForwardX
<1>5. /\ search.bmin \in Int /\ search.bmax \in Int
      /\ BackwardDiagonals \subseteq search.bmin..search.bmax /\ BackwardDiagonals # {}
      /\ \A d \in BackwardDiagonals :
            /\ d \in Int /\ search.bd[d] \in Int
            /\ BackwardX(d) \in top.xoff..top.xlim
            /\ BackwardX(d) - d \in top.yoff..top.ylim
  BY <1>1, <1>2, BackwardEnds DEF BackwardDiagonals, BackwardX
<1> QED
  BY <1>3, <1>4, <1>5

(* A good forward diagonal ends inside the rectangle. *)
LEMMA TakeForwardStep ==
    ASSUME IInv, TakeForward
    PROVE  IInv' /\ AbstractStep
<1> DEFINE score == [e \in GoodForward |-> ForwardProgress(e)]
           d == Best(score)
           x == search.fd[d]
           y == search.fd[d] - d
<1>1. /\ phase = "heuristic" /\ Searching
      /\ GoodForward # {} /\ Partition(x, y, TRUE, FALSE)
      /\ UNCHANGED <<vectors, deleted, inserted, matched>>
  BY DEF TakeForward, Searching
<1>2. GoodForward \subseteq ForwardDiagonals
  BY DEF GoodForward
<1>3. d \in GoodForward
  <2>1. /\ search.fmin \in Int /\ search.fmax \in Int
        /\ DOMAIN score \subseteq search.fmin..search.fmax /\ DOMAIN score # {}
    BY <1>1, <1>2, HeuristicFacts
  <2>2. \A e \in DOMAIN score : score[e] \in Int
    <3> SUFFICES ASSUME NEW e \in GoodForward PROVE ForwardProgress(e) \in Int
      OBVIOUS
    <3>1. e \in Int /\ search.fd[e] \in Int /\ top.xoff \in Int /\ fmid \in Int
      BY <1>1, <1>2, HeuristicFacts
    <3> QED
      BY <3>1 DEF ForwardProgress
  <2>3. DOMAIN score = GoodForward
    OBVIOUS
  <2> HIDE DEF score
  <2> QED
    BY <2>1, <2>2, <2>3, BestInDomain
<1> HIDE DEF d
<1>4. /\ top.xoff + SNAKE_LIMIT <= x /\ x < top.xlim
      /\ top.yoff + SNAKE_LIMIT <= y /\ y < top.ylim
  BY <1>3 DEF GoodForward
<1>5. /\ x \in Int /\ y \in Int /\ SNAKE_LIMIT \in Nat
      /\ top.xoff \in Int /\ top.xlim \in Int /\ top.yoff \in Int /\ top.ylim \in Int
  <2>1. d \in Int /\ search.fd[d] \in Int
    BY <1>1, <1>2, <1>3, HeuristicFacts
  <2>2. top.xoff \in Int /\ top.xlim \in Int /\ top.yoff \in Int /\ top.ylim \in Int
    BY <1>1, HeuristicFacts
  <2>3. SNAKE_LIMIT \in Nat
    BY CompareAssumption
  <2> QED
    BY <2>1, <2>2, <2>3
<1> HIDE DEF x, y
<1>6. x \in top.xoff..top.xlim /\ y \in top.yoff..top.ylim
  BY <1>4, <1>5
<1> QED
  BY <1>1, <1>6, PartitionStep

(* A good backward diagonal, likewise *)
LEMMA TakeBackwardStep ==
    ASSUME IInv, TakeBackward
    PROVE  IInv' /\ AbstractStep
<1> DEFINE score == [e \in GoodBackward |-> BackwardProgress(e)]
           d == Best(score)
           x == search.bd[d]
           y == search.bd[d] - d
<1>1. /\ phase = "heuristic" /\ Searching
      /\ GoodBackward # {} /\ Partition(x, y, FALSE, TRUE)
      /\ UNCHANGED <<vectors, deleted, inserted, matched>>
  BY DEF TakeBackward, Searching
<1>2. GoodBackward \subseteq BackwardDiagonals
  BY DEF GoodBackward
<1>3. d \in GoodBackward
  <2>1. /\ search.bmin \in Int /\ search.bmax \in Int
        /\ DOMAIN score \subseteq search.bmin..search.bmax /\ DOMAIN score # {}
    BY <1>1, <1>2, HeuristicFacts
  <2>2. \A e \in DOMAIN score : score[e] \in Int
    <3> SUFFICES ASSUME NEW e \in GoodBackward PROVE BackwardProgress(e) \in Int
      OBVIOUS
    <3>1. e \in Int /\ search.bd[e] \in Int /\ top.xlim \in Int /\ bmid \in Int
      BY <1>1, <1>2, HeuristicFacts
    <3> QED
      BY <3>1 DEF BackwardProgress
  <2>3. DOMAIN score = GoodBackward
    OBVIOUS
  <2> HIDE DEF score
  <2> QED
    BY <2>1, <2>2, <2>3, BestInDomain
<1> HIDE DEF d
<1>4. /\ top.xoff < x /\ x <= top.xlim - SNAKE_LIMIT
      /\ top.yoff < y /\ y <= top.ylim - SNAKE_LIMIT
  BY <1>3 DEF GoodBackward
<1>5. /\ x \in Int /\ y \in Int /\ SNAKE_LIMIT \in Nat
      /\ top.xoff \in Int /\ top.xlim \in Int /\ top.yoff \in Int /\ top.ylim \in Int
  <2>1. d \in Int /\ search.bd[d] \in Int
    BY <1>1, <1>2, <1>3, HeuristicFacts
  <2>2. top.xoff \in Int /\ top.xlim \in Int /\ top.yoff \in Int /\ top.ylim \in Int
    BY <1>1, HeuristicFacts
  <2>3. SNAKE_LIMIT \in Nat
    BY CompareAssumption
  <2> QED
    BY <2>1, <2>2, <2>3
<1> HIDE DEF x, y
<1>6. x \in top.xoff..top.xlim /\ y \in top.yoff..top.ylim
  BY <1>4, <1>5
<1> QED
  BY <1>1, <1>6, PartitionStep

(* diag gives up, and returns the end of a diagonal cut off at the edges. *)
LEMMA GiveUpStep ==
    ASSUME IInv, GiveUp
    PROVE  IInv' /\ AbstractStep
<1> DEFINE ForwardXY(d) == 2 * ForwardX(d) - d
           BackwardXY(d) == 2 * BackwardX(d) - d
           fscore == [d \in ForwardDiagonals |-> ForwardXY(d)]
           bscore == [d \in BackwardDiagonals |-> -BackwardXY(d)]
           f == Best(fscore)
           b == Best(bscore)
<1>1. /\ phase = "heuristic" /\ Searching
      /\ UNCHANGED <<vectors, deleted, inserted, matched>>
      /\ \/ Partition(ForwardX(f), ForwardX(f) - f, TRUE, FALSE)
         \/ Partition(BackwardX(b), BackwardX(b) - b, FALSE, TRUE)
  BY DEF GiveUp, Searching
<1>2. f \in ForwardDiagonals
  <2>1. /\ search.fmin \in Int /\ search.fmax \in Int
        /\ DOMAIN fscore \subseteq search.fmin..search.fmax /\ DOMAIN fscore # {}
    BY <1>1, HeuristicFacts
  <2>2. \A e \in DOMAIN fscore : fscore[e] \in Int
    <3> SUFFICES ASSUME NEW e \in ForwardDiagonals PROVE 2 * ForwardX(e) - e \in Int
      OBVIOUS
    <3>1. e \in Int /\ ForwardX(e) \in top.xoff..top.xlim
      BY <1>1, HeuristicFacts
    <3> QED
      BY <3>1
  <2>3. DOMAIN fscore = ForwardDiagonals
    OBVIOUS
  <2> HIDE DEF fscore
  <2> QED
    BY <2>1, <2>2, <2>3, BestInDomain
<1>3. b \in BackwardDiagonals
  <2>1. /\ search.bmin \in Int /\ search.bmax \in Int
        /\ DOMAIN bscore \subseteq search.bmin..search.bmax /\ DOMAIN bscore # {}
    BY <1>1, HeuristicFacts
  <2>2. \A e \in DOMAIN bscore : bscore[e] \in Int
    <3> SUFFICES ASSUME NEW e \in BackwardDiagonals PROVE -(2 * BackwardX(e) - e) \in Int
      OBVIOUS
    <3>1. e \in Int /\ BackwardX(e) \in top.xoff..top.xlim
      BY <1>1, HeuristicFacts
    <3> QED
      BY <3>1
  <2>3. DOMAIN bscore = BackwardDiagonals
    OBVIOUS
  <2> HIDE DEF bscore
  <2> QED
    BY <2>1, <2>2, <2>3, BestInDomain
<1> HIDE DEF f, b
<1>4. CASE Partition(ForwardX(f), ForwardX(f) - f, TRUE, FALSE)
  <2> DEFINE x == ForwardX(f)
             y == ForwardX(f) - f
  <2>1. x \in top.xoff..top.xlim /\ y \in top.yoff..top.ylim /\ Partition(x, y, TRUE, FALSE)
    BY <1>1, <1>2, <1>4, HeuristicFacts
  <2> HIDE DEF x, y
  <2> QED
    BY <1>1, <2>1, PartitionStep
<1>5. CASE Partition(BackwardX(b), BackwardX(b) - b, FALSE, TRUE)
  <2> DEFINE x == BackwardX(b)
             y == BackwardX(b) - b
  <2>1. x \in top.xoff..top.xlim /\ y \in top.yoff..top.ylim /\ Partition(x, y, FALSE, TRUE)
    BY <1>1, <1>3, <1>5, HeuristicFacts
  <2> HIDE DEF x, y
  <2> QED
    BY <1>1, <2>1, PartitionStep
<1> QED
  BY <1>1, <1>4, <1>5

-----------------------------------------------------------------------------

(* The first call is for all of both vectors. *)
LEMMA Initially ==
    ASSUME Init
    PROVE  /\ IInv
           /\ Pending(stack) = {q \in {Rect(0, Len(xvec), 0, Len(yvec))} : NonEmptyBox(q)}
<1> DEFINE r == Call(0, Len(xvec), 0, Len(yvec), "minimal" \in option)
<1>1. /\ xvec \in Vector /\ yvec \in Vector /\ phase = "call" /\ search = NoSearch
      /\ stack = <<r>> /\ option \subseteq {"minimal", "speed_large_files"}
  BY DEF Init
<1>2. /\ xvec \in Seq(Element) /\ yvec \in Seq(Element)
      /\ Len(xvec) \in Nat /\ Len(yvec) \in Nat
  BY <1>1, VectorFacts
<1>3. /\ r \in CallRecord
      /\ r.xoff = 0 /\ r.xlim = Len(xvec) /\ r.yoff = 0 /\ r.ylim = Len(yvec)
  BY <1>2 DEF Call, CallRecord
<1>4. Box(r) = Rect(0, Len(xvec), 0, Len(yvec))
  BY DEF Box, Call, Rect
<1> HIDE DEF r
<1>5. IsBox(r)
  BY <1>2, <1>3 DEF IsBox
<1>6. /\ stack \in Seq(CallRecord) /\ Len(stack) = 1 /\ stack[1] = r
      /\ Pending(stack) = {q \in {Box(r)} : NonEmptyBox(q)}
  <2>1. <<r>> \in Seq(CallRecord) /\ <<r>> # <<>>
    BY <1>3
  <2> QED
    BY <1>1, <1>3, <2>1, HeadReplaced
<1>7. CallsOK(stack)
  BY <1>5, <1>6 DEF CallsOK
<1>8. IInv
  BY <1>1, <1>7 DEF IInv, Searching, NoSearch
<1> QED
  BY <1>4, <1>6, <1>8

(* Every step keeps the invariant, and is a step of the abstract
   comparison or leaves its state alone. *)
LEMMA Step ==
    ASSUME IInv, [Next]_vars
    PROVE  IInv' /\ AbstractStep
<1>1. CASE UNCHANGED vars
  <2>1. AbstractStep
    BY <1>1, SearchStutters DEF vars, vectors
  <2>2. IInv'
    BY <1>1 DEF IInv, vars, CallsOK, IsBox, Searching, SearchOK, top, Limits, dmin, dmax,
                fmid, bmid, odd, Reached, ReachedBack, Allocated, BeforeForward,
                BeforeBackward, Near, Inside, NearBack, InsideBack
  <2> QED
    BY <2>1, <2>2
<1> QED
  BY <1>1, SlideStep, NoteStep, ForwardStep, BackwardStep, TakeForwardStep,
     TakeBackwardStep, GiveUpStep, ContinueStep DEF Next

(* The invariant *)
THEOREM Invariance == Spec => []IInv
<1>1. Init => IInv
  BY Initially
<1>2. IInv /\ [Next]_vars => IInv'
  BY Step
<1> QED
  BY <1>1, <1>2, PTL DEF Spec

(* What a pass reads in fdiag and bdiag has been written in this search,   *)
(* and is inside the allocation.                                           *)
THEOREM EntriesAreReady == Spec => []DiagonalsReady
<1>1. IInv => DiagonalsReady
  <2> SUFFICES ASSUME IInv PROVE DiagonalsReady
    OBVIOUS
  <2>1. ASSUME Searching PROVE DOMAIN search.fd \cup DOMAIN search.bd \subseteq Allocated
    BY <2>1 DEF IInv, SearchOK, BeforeForward, BeforeBackward
  <2>2. ASSUME phase = "forward", NEW d \in Diagonals(Lower(search.fmin), Upper(search.fmax))
        PROVE  LET fd == Bounded(search.fd, search.fmin, search.fmax, -1)
               IN  /\ {d - 1, d + 1} \subseteq DOMAIN fd
                   /\ ForwardStart(fd, d) >= top.xoff
                   /\ ForwardStart(fd, d) - d >= top.yoff
                   /\ odd /\ d \in search.bmin..search.bmax => d \in DOMAIN search.bd
    <3>1. SearchOK /\ TopOK
      BY <2>2, SearchingFacts DEF Searching
    <3>2. /\ Limits(search.fmin, search.fmax, fmid) /\ Limits(search.bmin, search.bmax, bmid)
          /\ Reached(search.fd, search.fmin, search.fmax)
          /\ ReachedBack(search.bd, search.bmin, search.bmax)
          /\ (search.fmax - search.bmax) % 2 = (fmid - bmid) % 2
      BY <2>2, <3>1 DEF SearchOK, BeforeForward
    <3>3. odd /\ d \in search.bmin..search.bmax => d \in Diagonals(search.bmin, search.bmax)
      BY <2>2, <3>1, <3>2, SharedByForward
    <3>4. odd /\ d \in search.bmin..search.bmax => d \in DOMAIN search.bd
      BY <3>2, <3>3 DEF ReachedBack
    <3> QED
      BY <2>2, <3>1, <3>2, <3>4, StartFacts DEF Start
  <2>3. ASSUME phase = "backward", NEW d \in Diagonals(Lower(search.bmin), Upper(search.bmax))
        PROVE  LET bd == Bounded(search.bd, search.bmin, search.bmax, OFFSET_MAX)
               IN  /\ {d - 1, d + 1} \subseteq DOMAIN bd
                   /\ BackwardStart(bd, d) <= top.xlim
                   /\ BackwardStart(bd, d) - d <= top.ylim
                   /\ ~odd /\ d \in search.fmin..search.fmax => d \in DOMAIN search.fd
    <3>1. SearchOK /\ TopOK
      BY <2>3, SearchingFacts DEF Searching
    <3>2. /\ Limits(search.fmin, search.fmax, fmid) /\ Limits(search.bmin, search.bmax, bmid)
          /\ Reached(search.fd, search.fmin, search.fmax)
          /\ ReachedBack(search.bd, search.bmin, search.bmax)
          /\ (search.fmax - search.bmax) % 2 # (fmid - bmid) % 2
      BY <2>3, <3>1 DEF SearchOK, BeforeBackward
    <3>3. ~odd /\ d \in search.fmin..search.fmax => d \in Diagonals(search.fmin, search.fmax)
      BY <2>3, <3>1, <3>2, SharedByBackward
    <3>4. ~odd /\ d \in search.fmin..search.fmax => d \in DOMAIN search.fd
      BY <3>2, <3>3 DEF Reached
    <3> QED
      BY <2>3, <3>1, <3>2, <3>4, StartBackFacts DEF StartBack
  <2> QED
    BY <2>1, <2>2, <2>3 DEF DiagonalsReady, Searching
<1> QED
  BY <1>1, Invariance, PTL

-----------------------------------------------------------------------------
(* The refinement *)

INSTANCE CompareAlignment

(* The abstract comparison has the nonempty calls pending. *)
LEMMA PendingIs ==
    ASSUME NEW s, s \in Seq(CallRecord)
    PROVE  {q \in {[xoff |-> r.xoff, xlim |-> r.xlim, yoff |-> r.yoff, ylim |-> r.ylim] :
                     r \in {s[i] : i \in DOMAIN s}} : q.xoff < q.xlim \/ q.yoff < q.ylim}
           = Pending(s)
<1>1. DOMAIN s = 1..Len(s)
  OBVIOUS
<1>2. \A r : /\ Box(r).xoff = r.xoff /\ Box(r).xlim = r.xlim
             /\ Box(r).yoff = r.yoff /\ Box(r).ylim = r.ylim
  BY DEF Box
<1>3. {q \in {Box(r) : r \in {s[i] : i \in 1..Len(s)}} : q.xoff < q.xlim \/ q.yoff < q.ylim}
      = Pending(s)
  BY <1>2 DEF Pending, NonEmptyBox
<1> QED
  BY <1>1, <1>3 DEF Box

(* compareseq is the abstract comparison: every partition that diag        *)
(* returns, by whichever way out, is one of the splits allowed there.      *)
THEOREM CompareseqImplementsAlignment == Spec => ImplementsAlignment
<1> DEFINE P == {r \in Rectangles : r.xoff < r.xlim \/ r.yoff < r.ylim}
           b == Box(top)
<1>1. IInv => P = Pending(stack)
  BY PendingIs DEF IInv, CallsOK, Rectangles
<1>2. IInv' => P' = Pending(stack)'
  BY PendingIs DEF IInv, CallsOK, Rectangles, Pending
<1>3. Init => A!Init
  <2> SUFFICES ASSUME Init PROVE A!Init
    OBVIOUS
  <2>1. /\ P = {q \in {Rect(0, Len(xvec), 0, Len(yvec))} : NonEmptyBox(q)}
        /\ xvec \in Vector /\ yvec \in Vector
    BY <1>1, Initially DEF IInv
  <2> QED
    BY <2>1, VectorFacts DEF Init, A!Init, A!Rectangle, A!NonEmpty, Rect, NonEmptyBox
<1>4. IInv /\ [Next]_vars => [A!Next]_A!vars
  <2> SUFFICES ASSUME IInv, [Next]_vars PROVE [A!Next]_A!vars
    OBVIOUS
  <2>1. P = Pending(stack) /\ P' = Pending(stack)' /\ AbstractStep
    BY <1>1, <1>2, Step
  <2>2. b.xoff = top.xoff /\ b.xlim = top.xlim /\ b.yoff = top.yoff /\ b.ylim = top.ylim
    BY DEF Box
  <2>3. ASSUME NEW B, Replaced(B) PROVE P' = A!Replace(b, B)
    BY <2>1, <2>3 DEF Replaced, A!Replace, A!NonEmpty, NonEmptyBox
  <2>4. ASSUME NEW w, NEW x, NEW y, NEW z PROVE Rect(w, x, y, z) = A!Rectangle(w, x, y, z)
    BY DEF Rect, A!Rectangle
  <2>5. ASSUME NEW k \in 0..(top.xlim - top.xoff), NEW l \in 0..(top.xlim - top.xoff),
               Slides(k, l), b \in P
        PROVE  A!Next
    <3>1. P' = A!Replace(b, {A!Rectangle(b.xoff + k, b.xlim - l, b.yoff + k, b.ylim - l)})
      BY <2>2, <2>3, <2>4, <2>5 DEF Slides
    <3> HIDE DEF b
    <3>2. /\ k + l <= b.xlim - b.xoff /\ k + l <= b.ylim - b.yoff
          /\ \A i \in 0..(k - 1) : A!Equal(b.xoff + i, b.yoff + i)
          /\ \A i \in 1..l : A!Equal(b.xlim - i, b.ylim - i)
      <4>1. \A i, j : Equal(i, j) => A!Equal(i, j)
        BY DEF A!Equal, Equal
      <4>2. /\ k + l <= top.xlim - top.xoff /\ k + l <= top.ylim - top.yoff
            /\ \A i \in 0..(k - 1) : Equal(top.xoff + i, top.yoff + i)
            /\ \A i \in 1..l : Equal(top.xlim - i, top.ylim - i)
        BY <2>5 DEF Slides
      <4> QED
        BY ONLY <2>2, <4>1, <4>2
    <3>3. matched' = matched \cup {<<b.xoff + i, b.yoff + i>> : i \in 0..(k - 1)}
                             \cup {<<b.xlim - i, b.ylim - i>> : i \in 1..l}
      BY <2>2, <2>5 DEF Slides
    <3>4. xvec' = xvec /\ yvec' = yvec /\ deleted' = deleted /\ inserted' = inserted
      BY <2>5 DEF Slides, vectors
    <3>5. A!Slide(b, k, l)
      BY ONLY <3>1, <3>2, <3>3, <3>4 DEF A!Slide, A!vectors
    <3> QED
      BY <2>2, <2>5, <3>5 DEF A!Next
  <2>6. ASSUME Notes, b \in P PROVE A!Next
    <3>1. P' = A!Replace(b, {})
      BY <2>3, <2>6 DEF Notes
    <3> HIDE DEF b
    <3>2. /\ b.xoff = b.xlim \/ b.yoff = b.ylim
          /\ deleted' = deleted \cup b.xoff..(b.xlim - 1)
          /\ inserted' = inserted \cup b.yoff..(b.ylim - 1)
          /\ xvec' = xvec /\ yvec' = yvec /\ matched' = matched
      BY <2>2, <2>6 DEF Notes, vectors
    <3> QED
      BY <2>6, <3>1, <3>2 DEF A!Next, A!Note, A!vectors
  <2>7. ASSUME NEW xmid \in top.xoff..top.xlim, NEW ymid \in top.yoff..top.ylim,
               Splits(xmid, ymid), b \in P
        PROVE  A!Next
    <3>1. P' = A!Replace(b, {A!Rectangle(b.xoff, xmid, b.yoff, ymid),
                             A!Rectangle(xmid, b.xlim, ymid, b.ylim)})
      BY <2>2, <2>3, <2>4, <2>7 DEF Splits
    <3> HIDE DEF b
    <3>2. A!Split(b, xmid, ymid)
      BY <2>7, <3>1 DEF Splits, A!Split, A!vectors, vectors
    <3> QED
      BY <2>2, <2>7, <3>2 DEF A!Next
  <2>8. CASE UNCHANGED <<vectors, Pending(stack), deleted, inserted, matched>>
    BY <2>1, <2>8 DEF A!vars, vectors
  <2> QED
    BY <2>1, <2>5, <2>6, <2>7, <2>8 DEF AbstractStep
<1> QED
  BY <1>3, <1>4, Invariance, PTL DEF Spec, ImplementsAlignment, A!Spec

-----------------------------------------------------------------------------
(* What follows from it *)

P == INSTANCE AlignmentProofs WITH
        pending <- {r \in Rectangles : r.xoff < r.xlim \/ r.yoff < r.ylim}

(* The two instances of the abstract comparison are the same. *)
LEMMA SameComparison ==
    /\ A!Init => P!Init
    /\ [A!Next]_A!vars => [P!Next]_P!vars
<1>1. A!Init => P!Init
  BY DEF P!Init, A!Init, P!Rectangle, A!Rectangle, P!NonEmpty, A!NonEmpty
<1>2. P!Next <=> A!Next
  BY DEF P!Next, A!Next, P!Slide, A!Slide, P!Note, A!Note, P!Split, A!Split, P!Replace,
         A!Replace, P!Rectangle, A!Rectangle, P!NonEmpty, A!NonEmpty, P!vars, A!vars,
         P!vectors, A!vectors, P!Equal, A!Equal
<1> QED
  BY <1>1, <1>2 DEF P!vars, A!vars

(* What is not deleted and not inserted is paired one to one, in order,    *)
(* with equal elements, for all vectors and all settings of the heuristics.*)
THEOREM CompareseqIsCorrect == Spec => []CorrectDiff
<1>1. P!Spec => []P!CorrectDiff
  BY P!PartitionsCannotCauseIncorrectDiff
<1>2. P!CorrectDiff => CorrectDiff
  BY DEF P!CorrectDiff, CorrectDiff, A!CorrectDiff, A!MatchedEqual, P!MatchedEqual,
         A!Equal, P!Equal
<1>3. (A!Init => P!Init) /\ ([A!Next]_A!vars => [P!Next]_P!vars)
  BY SameComparison
<1> QED
  BY <1>1, <1>2, <1>3, CompareseqImplementsAlignment, PTL
  DEF ImplementsAlignment, A!Spec, P!Spec

(* Type correctness: no call leaves the vectors, and no index outside them *)
(* is noted.                                                               *)
THEOREM CompareseqTypeCorrect == Spec => []TypeOK
<1>1. P!Spec => []P!TypeOK
  BY P!TypeCorrect
<1>2. (A!Init => P!Init) /\ ([A!Next]_A!vars => [P!Next]_P!vars)
  BY SameComparison
<1>3. IInv /\ P!TypeOK => TypeOK
  <2> SUFFICES ASSUME IInv, P!TypeOK PROVE TypeOK
    OBVIOUS
  <2>1. /\ deleted \subseteq 0..(Len(xvec) - 1)
        /\ inserted \subseteq 0..(Len(yvec) - 1)
        /\ matched \subseteq (0..(Len(xvec) - 1)) \X (0..(Len(yvec) - 1))
    BY DEF P!TypeOK
  <2>2. \A i \in DOMAIN stack : IsBox(stack[i]) /\ stack[i].find_minimal \in BOOLEAN
    <3>1. /\ stack \in Seq(CallRecord) /\ \A i \in 1..Len(stack) : IsBox(stack[i])
      BY DEF IInv, CallsOK
    <3>2. DOMAIN stack = 1..Len(stack) /\ \A i \in 1..Len(stack) : stack[i] \in CallRecord
      BY <3>1
    <3> QED
      BY <3>1, <3>2 DEF CallRecord
  <2>3. /\ option \subseteq {"minimal", "speed_large_files"}
        /\ phase \in {"call", "note", "forward", "backward", "heuristic"}
        /\ search.c \in Nat
    BY DEF IInv
  <2> QED
    BY <2>1, <2>2, <2>3 DEF TypeOK
<1> QED
  BY <1>1, <1>2, <1>3, Invariance, CompareseqImplementsAlignment, PTL
  DEF ImplementsAlignment, A!Spec, P!Spec

=============================================================================

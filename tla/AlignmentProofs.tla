--------------------------- MODULE AlignmentProofs ---------------------------
(***************************************************************************)
(* The comparison is correct for all vectors and all choices of midpoints. *)
(* CorrectDiff is not inductive; the invariant that is says that the calls *)
(* still to be made and the pairs already matched form one chain (Chain),  *)
(* and that every index is in exactly one of three places (Accounted,      *)
(* Exclusive).                                                             *)
(***************************************************************************)
EXTENDS Alignment, TLAPS

IInv == TypeOK /\ Chain /\ Accounted /\ Exclusive /\ MatchedEqual

(* The first call of compareseq satisfies the invariant. *)
LEMMA InitIInv == Init => IInv
<1> SUFFICES ASSUME Init PROVE IInv
  OBVIOUS
<1>1. xvec \in Seq(Element) /\ yvec \in Seq(Element)
  BY DEF Init
<1>2. Len(xvec) \in Nat /\ Len(yvec) \in Nat
  BY <1>1
<1>3. TypeOK
  BY <1>1, <1>2 DEF Init, TypeOK, Rectangle, NonEmpty
<1>4. Chain /\ Exclusive /\ MatchedEqual
  BY DEF Init, Chain, Exclusive, MatchedEqual
<1> DEFINE r == Rectangle(0, Len(xvec), 0, Len(yvec))
<1>5. Accounted
  <2>1. r.xoff = 0 /\ r.xlim = Len(xvec) /\ r.yoff = 0 /\ r.ylim = Len(yvec)
    BY DEF Rectangle
  <2>2. NonEmpty(r) => r \in pending
    BY DEF Init
  <2> HIDE DEF r
  <2>3. \A i \in 0..(Len(xvec) - 1) : NonEmpty(r) /\ InX(i, r)
    BY <1>2, <2>1 DEF NonEmpty, InX
  <2>4. \A j \in 0..(Len(yvec) - 1) : NonEmpty(r) /\ InY(j, r)
    BY <1>2, <2>1 DEF NonEmpty, InY
  <2> QED
    BY <2>2, <2>3, <2>4 DEF Accounted
<1> QED
  BY <1>3, <1>4, <1>5 DEF IInv

(* Splitting a call at any point of its rectangle. *)
LEMMA SplitIInv ==
  ASSUME IInv,
         NEW r \in pending,
         NEW xmid \in r.xoff..r.xlim, NEW ymid \in r.yoff..r.ylim,
         Split(r, xmid, ymid)
  PROVE  IInv'
<1> DEFINE lo == Rectangle(r.xoff, xmid, r.yoff, ymid)
           hi == Rectangle(xmid, r.xlim, ymid, r.ylim)
<1>1. /\ Len(xvec) \in Nat /\ Len(yvec) \in Nat
      /\ r.xoff \in 0..Len(xvec) /\ r.xlim \in 0..Len(xvec)
      /\ r.yoff \in 0..Len(yvec) /\ r.ylim \in 0..Len(yvec)
      /\ r.xoff <= xmid /\ xmid <= r.xlim /\ r.yoff <= ymid /\ ymid <= r.ylim
      /\ xmid \in Nat /\ ymid \in Nat
  BY DEF IInv, TypeOK
<1>2. /\ lo.xoff = r.xoff /\ lo.xlim = xmid /\ lo.yoff = r.yoff /\ lo.ylim = ymid
      /\ hi.xoff = xmid /\ hi.xlim = r.xlim /\ hi.yoff = ymid /\ hi.ylim = r.ylim
  BY DEF Rectangle
<1>r. /\ lo \in [xoff: 0..Len(xvec), xlim: 0..Len(xvec),
                 yoff: 0..Len(yvec), ylim: 0..Len(yvec)]
      /\ hi \in [xoff: 0..Len(xvec), xlim: 0..Len(xvec),
                 yoff: 0..Len(yvec), ylim: 0..Len(yvec)]
  BY <1>1 DEF Rectangle
<1>i. /\ r.xoff \in Int /\ r.xlim \in Int /\ r.yoff \in Int /\ r.ylim \in Int
      /\ xmid \in Int /\ ymid \in Int
      /\ r.xoff <= xmid /\ xmid <= r.xlim /\ r.yoff <= ymid /\ ymid <= r.ylim
  BY <1>1
<1>3. \A s : s \in pending' <=> \/ s \in pending /\ s # r
                                \/ s = lo /\ NonEmpty(lo)
                                \/ s = hi /\ NonEmpty(hi)
  BY DEF Split, Replace
<1>4. UNCHANGED <<xvec, yvec, deleted, inserted, matched>>
  BY DEF Split, vectors
<1> HIDE DEF lo, hi
<1>5. TypeOK'
  <2>1. pending' \subseteq [xoff: 0..Len(xvec), xlim: 0..Len(xvec),
                            yoff: 0..Len(yvec), ylim: 0..Len(yvec)]
    BY <1>r, <1>3 DEF IInv, TypeOK
  <2>2. \A s \in pending' : s.xoff <= s.xlim /\ s.yoff <= s.ylim /\ NonEmpty(s)
    <3>1. /\ lo.xoff <= lo.xlim /\ lo.yoff <= lo.ylim
          /\ hi.xoff <= hi.xlim /\ hi.yoff <= hi.ylim
      BY <1>i, <1>2
    <3>2. \A s \in pending : s.xoff <= s.xlim /\ s.yoff <= s.ylim /\ NonEmpty(s)
      BY DEF IInv, TypeOK
    <3> QED
      BY <1>3, <3>1, <3>2
  <2> QED
    BY <1>4, <2>1, <2>2 DEF IInv, TypeOK, NonEmpty
<1>6. Chain'
  <2>1. ASSUME NEW s \in pending', NEW t \in pending'
        PROVE  s = t \/ Precedes(s, t) \/ Precedes(t, s)
    <3>1. \A u \in pending : u # r =>
             \/ Precedes(u, lo) /\ Precedes(u, hi)
             \/ Precedes(lo, u) /\ Precedes(hi, u)
      <4> SUFFICES ASSUME NEW u \in pending, u # r
                   PROVE  \/ Precedes(u, lo) /\ Precedes(u, hi)
                          \/ Precedes(lo, u) /\ Precedes(hi, u)
        OBVIOUS
      <4>1. Precedes(u, r) \/ Precedes(r, u)
        BY DEF IInv, Chain
      <4>2. u.xoff \in Int /\ u.xlim \in Int /\ u.yoff \in Int /\ u.ylim \in Int
        BY DEF IInv, TypeOK
      <4> QED
        BY <1>i, <1>2, <4>1, <4>2 DEF Precedes
    <3>2. Precedes(lo, hi)
      BY <1>i, <1>2 DEF Precedes
    <3> QED
      BY <1>3, <3>1, <3>2 DEF IInv, Chain
  <2>2. ASSUME NEW p \in matched, NEW s \in pending' PROVE Outside(p, s)
    <3>1. p[1] \in Nat /\ p[2] \in Nat
      <4>1. p \in (0..(Len(xvec) - 1)) \X (0..(Len(yvec) - 1))
        BY DEF IInv, TypeOK
      <4> QED
        BY <4>1
    <3>2. \A s1 \in pending : Outside(p, s1)
      BY DEF IInv, Chain
    <3>3. Outside(p, lo) /\ Outside(p, hi)
      <4>1. Outside(p, r)
        BY <3>2
      <4>2. Outside(p, lo)
        BY <1>i, <1>2, <3>1, <4>1 DEF Outside
      <4>3. Outside(p, hi)
        BY <1>i, <1>2, <3>1, <4>1 DEF Outside
      <4> QED
        BY <4>2, <4>3
    <3> QED
      BY <1>3, <3>2, <3>3
  <2> QED
    BY <1>4, <2>1, <2>2 DEF IInv, Chain, Outside, Precedes
<1>7. Accounted'
  <2>1. \A i \in Nat : InX(i, r) => \/ NonEmpty(lo) /\ InX(i, lo)
                                    \/ NonEmpty(hi) /\ InX(i, hi)
    BY <1>i, <1>2 DEF InX, NonEmpty
  <2>2. \A i \in Nat : InY(i, r) => \/ NonEmpty(lo) /\ InY(i, lo)
                                    \/ NonEmpty(hi) /\ InY(i, hi)
    BY <1>i, <1>2 DEF InY, NonEmpty
  <2>3. ASSUME NEW i \in 0..(Len(xvec) - 1)
        PROVE  \/ i \in deleted
               \/ \E p \in matched : p[1] = i
               \/ \E s \in pending' : InX(i, s)
    <3>1. i \in Nat
      BY <1>1
    <3>2. i \in deleted \/ (\E p \in matched : p[1] = i) \/ (\E s \in pending : InX(i, s))
      BY DEF IInv, Accounted
    <3> QED
      BY <1>3, <2>1, <3>1, <3>2
  <2>4. ASSUME NEW j \in 0..(Len(yvec) - 1)
        PROVE  \/ j \in inserted
               \/ \E p \in matched : p[2] = j
               \/ \E s \in pending' : InY(j, s)
    <3>1. j \in Nat
      BY <1>1
    <3>2. j \in inserted \/ (\E p \in matched : p[2] = j) \/ (\E s \in pending : InY(j, s))
      BY DEF IInv, Accounted
    <3> QED
      BY <1>3, <2>2, <3>1, <3>2
  <2> QED
    BY <1>4, <2>3, <2>4 DEF Accounted, InX, InY
<1>8. Exclusive'
  <2>1. \A i \in deleted : ~InX(i, lo) /\ ~InX(i, hi)
    BY <1>1, <1>2 DEF IInv, TypeOK, Exclusive, InX
  <2>2. \A j \in inserted : ~InY(j, lo) /\ ~InY(j, hi)
    BY <1>1, <1>2 DEF IInv, TypeOK, Exclusive, InY
  <2> QED
    BY <1>3, <1>4, <2>1, <2>2 DEF IInv, Exclusive, InX, InY
<1>9. MatchedEqual'
  BY <1>4 DEF IInv, MatchedEqual, Equal
<1> QED
  BY <1>5, <1>6, <1>7, <1>8, <1>9 DEF IInv

(* Marking all of a call whose other side is empty. *)
LEMMA NoteIInv ==
  ASSUME IInv, NEW r \in pending, Note(r)
  PROVE  IInv'
<1>1. /\ Len(xvec) \in Nat /\ Len(yvec) \in Nat
      /\ r.xoff \in 0..Len(xvec) /\ r.xlim \in 0..Len(xvec)
      /\ r.yoff \in 0..Len(yvec) /\ r.ylim \in 0..Len(yvec)
      /\ r.xoff <= r.xlim /\ r.yoff <= r.ylim
  BY DEF IInv, TypeOK
<1>2. \A s : s \in pending' <=> s \in pending /\ s # r
  BY DEF Note, Replace
<1>3. UNCHANGED <<xvec, yvec, matched>>
  BY DEF Note, vectors
<1>4. \A i : i \in deleted' <=> i \in deleted \/ (i \in Nat /\ InX(i, r))
  BY <1>1 DEF Note, InX
<1>5. \A j : j \in inserted' <=> j \in inserted \/ (j \in Nat /\ InY(j, r))
  BY <1>1 DEF Note, InY
<1>6. TypeOK'
  <2>1. deleted' \subseteq 0..(Len(xvec) - 1)
    <3>1. \A i \in Nat : InX(i, r) => i \in 0..(Len(xvec) - 1)
      BY <1>1 DEF InX
    <3>2. deleted \subseteq 0..(Len(xvec) - 1)
      BY DEF IInv, TypeOK
    <3> QED
      BY <1>4, <3>1, <3>2
  <2>2. inserted' \subseteq 0..(Len(yvec) - 1)
    <3>1. \A i \in Nat : InY(i, r) => i \in 0..(Len(yvec) - 1)
      BY <1>1 DEF InY
    <3>2. inserted \subseteq 0..(Len(yvec) - 1)
      BY DEF IInv, TypeOK
    <3> QED
      BY <1>5, <3>1, <3>2
  <2> QED
    BY <1>2, <1>3, <2>1, <2>2 DEF IInv, TypeOK, NonEmpty
<1>7. Chain'
  BY <1>2, <1>3 DEF IInv, Chain, Precedes, Outside
<1>8. Accounted'
  <2>1. ASSUME NEW i \in 0..(Len(xvec) - 1)
        PROVE  \/ i \in deleted'
               \/ \E p \in matched : p[1] = i
               \/ \E s \in pending' : InX(i, s)
    BY <1>1, <1>2, <1>4 DEF IInv, Accounted
  <2>2. ASSUME NEW j \in 0..(Len(yvec) - 1)
        PROVE  \/ j \in inserted'
               \/ \E p \in matched : p[2] = j
               \/ \E s \in pending' : InY(j, s)
    BY <1>1, <1>2, <1>5 DEF IInv, Accounted
  <2> QED
    BY <1>3, <2>1, <2>2 DEF Accounted, InX, InY
<1>9. Exclusive'
  <2>1. ASSUME NEW i \in Nat, InX(i, r)
        PROVE  /\ \A p \in matched : p[1] # i
               /\ \A s \in pending' : ~InX(i, s)
    <3>1. \A p \in matched : p[1] \in Nat /\ Outside(p, r)
      BY <1>1 DEF IInv, TypeOK, Chain
    <3>2. \A s \in pending : /\ s.xoff \in Nat /\ s.xlim \in Nat
                             /\ s = r \/ Precedes(s, r) \/ Precedes(r, s)
      BY DEF IInv, TypeOK, Chain
    <3>3. \A p \in matched : p[1] # i
      BY <1>1, <2>1, <3>1 DEF Outside, InX
    <3>4. \A s \in pending' : ~InX(i, s)
      BY <1>1, <1>2, <2>1, <3>2 DEF Precedes, InX
    <3> QED
      BY <3>3, <3>4
  <2>2. ASSUME NEW j \in Nat, InY(j, r)
        PROVE  /\ \A p \in matched : p[2] # j
               /\ \A s \in pending' : ~InY(j, s)
    <3>1. \A p \in matched : p[2] \in Nat /\ Outside(p, r)
      BY <1>1 DEF IInv, TypeOK, Chain
    <3>2. \A s \in pending : /\ s.yoff \in Nat /\ s.ylim \in Nat
                             /\ s = r \/ Precedes(s, r) \/ Precedes(r, s)
      BY DEF IInv, TypeOK, Chain
    <3>3. \A p \in matched : p[2] # j
      BY <1>1, <2>2, <3>1 DEF Outside, InY
    <3>4. \A s \in pending' : ~InY(j, s)
      BY <1>1, <1>2, <2>2, <3>2 DEF Precedes, InY
    <3> QED
      BY <3>3, <3>4
  <2>3. \A i \in deleted' : /\ \A p \in matched : p[1] # i
                            /\ \A s \in pending' : ~InX(i, s)
    BY <1>2, <1>4, <2>1 DEF IInv, Exclusive
  <2>4. \A j \in inserted' : /\ \A p \in matched : p[2] # j
                             /\ \A s \in pending' : ~InY(j, s)
    BY <1>2, <1>5, <2>2 DEF IInv, Exclusive
  <2> QED
    BY <1>3, <2>3, <2>4 DEF Exclusive, InX, InY
<1>10. MatchedEqual'
  BY <1>3 DEF IInv, MatchedEqual, Equal
<1> QED
  BY <1>6, <1>7, <1>8, <1>9, <1>10 DEF IInv

(* What becomes of the side off..lim of a call, in a vector of n elements, *)
(* that slides by k at its start and by l at its end.                      *)
SlideFacts(n, off, lim, k, l) ==
    /\ off + k \in 0..n /\ lim - l \in 0..n /\ off + k <= lim - l
    /\ off <= off + k /\ lim - l <= lim
    /\ \A i \in 0..(k - 1) : off + i \in 0..(n - 1)
                            /\ off <= off + i /\ off + i < off + k
    /\ \A i \in 1..l : lim - i \in 0..(n - 1)
                      /\ lim - l <= lim - i /\ lim - i < lim
    /\ \A i \in Nat : off <= i /\ i < lim =>
          \/ off + k <= i /\ i < lim - l
          \/ \E h \in 0..(k - 1) : off + h = i
          \/ \E h \in 1..l : lim - h = i

(* The indices of a side are the ones slid over at its two ends and the    *)
(* ones between.                                                           *)
LEMMA SlideInterval ==
  ASSUME NEW n \in Nat, NEW off \in 0..n, NEW lim \in 0..n,
         NEW k \in Nat, NEW l \in Nat, k + l <= lim - off
  PROVE  SlideFacts(n, off, lim, k, l)
<1>1. /\ off + k \in 0..n /\ lim - l \in 0..n /\ off + k <= lim - l
      /\ off <= off + k /\ lim - l <= lim
  OBVIOUS
<1>2. \A i \in 0..(k - 1) : off + i \in 0..(n - 1)
                           /\ off <= off + i /\ off + i < off + k
  OBVIOUS
<1>3. \A i \in 1..l : lim - i \in 0..(n - 1)
                     /\ lim - l <= lim - i /\ lim - i < lim
  OBVIOUS
<1>4. ASSUME NEW i \in Nat, off <= i, i < lim
      PROVE  \/ off + k <= i /\ i < lim - l
             \/ \E h \in 0..(k - 1) : off + h = i
             \/ \E h \in 1..l : lim - h = i
  <2>1. \/ off + k <= i /\ i < lim - l
        \/ i - off \in 0..(k - 1) /\ off + (i - off) = i
        \/ lim - i \in 1..l /\ lim - (lim - i) = i
    BY <1>4
  <2> QED
    BY <2>1
<1> QED
  BY <1>1, <1>2, <1>3, <1>4 DEF SlideFacts

(* Pairs on one diagonal are in order. *)
LEMMA DiagonalUp ==
  ASSUME NEW a \in Int, NEW b \in Int, NEW i \in Int, NEW j \in Int
  PROVE  \/ i = j
         \/ a + i < a + j /\ b + i < b + j
         \/ a + j < a + i /\ b + j < b + i
OBVIOUS

(* The same, counted from the ends. *)
LEMMA DiagonalDown ==
  ASSUME NEW a \in Int, NEW b \in Int, NEW i \in Int, NEW j \in Int
  PROVE  \/ i = j
         \/ a - i < a - j /\ b - i < b - j
         \/ a - j < a - i /\ b - j < b - i
OBVIOUS

(* Passing over equal elements at both ends of a call. *)
LEMMA SlideIInv ==
  ASSUME IInv,
         NEW r \in pending,
         NEW k \in Nat, NEW l \in Nat,
         Slide(r, k, l)
  PROVE  IInv'
<1> DEFINE s == Rectangle(r.xoff + k, r.xlim - l, r.yoff + k, r.ylim - l)
           Front(p) == \E i \in 0..(k - 1) : p = <<r.xoff + i, r.yoff + i>>
           Back(p) == \E i \in 1..l : p = <<r.xlim - i, r.ylim - i>>
<1>1. /\ Len(xvec) \in Nat /\ Len(yvec) \in Nat
      /\ r.xoff \in 0..Len(xvec) /\ r.xlim \in 0..Len(xvec)
      /\ r.yoff \in 0..Len(yvec) /\ r.ylim \in 0..Len(yvec)
      /\ r.xoff <= r.xlim /\ r.yoff <= r.ylim
  BY DEF IInv, TypeOK
<1>r. r.xoff \in Int /\ r.xlim \in Int /\ r.yoff \in Int /\ r.ylim \in Int
  BY <1>1
<1>2. k + l <= r.xlim - r.xoff /\ k + l <= r.ylim - r.yoff
  BY DEF Slide
<1>x. SlideFacts(Len(xvec), r.xoff, r.xlim, k, l)
  BY <1>1, <1>2, SlideInterval
<1>y. SlideFacts(Len(yvec), r.yoff, r.ylim, k, l)
  BY <1>1, <1>2, SlideInterval
<1>3. \A t : t \in pending' <=> \/ t \in pending /\ t # r
                                \/ t = s /\ NonEmpty(s)
  BY DEF Slide, Replace
<1>4. UNCHANGED <<xvec, yvec, deleted, inserted>>
  BY DEF Slide, vectors
<1>5. \A p : p \in matched' <=> p \in matched \/ Front(p) \/ Back(p)
  BY DEF Slide
<1>6. /\ s.xoff = r.xoff + k /\ s.xlim = r.xlim - l
      /\ s.yoff = r.yoff + k /\ s.ylim = r.ylim - l
  BY DEF Rectangle
<1>7. /\ s.xoff \in 0..Len(xvec) /\ s.xlim \in 0..Len(xvec)
      /\ s.yoff \in 0..Len(yvec) /\ s.ylim \in 0..Len(yvec)
      /\ s.xoff <= s.xlim /\ s.yoff <= s.ylim
      /\ r.xoff <= s.xoff /\ s.xlim <= r.xlim
      /\ r.yoff <= s.yoff /\ s.ylim <= r.ylim
  <2> HIDE DEF s
  <2> QED
    BY <1>6, <1>x, <1>y DEF SlideFacts
<1>8. s \in [xoff: 0..Len(xvec), xlim: 0..Len(xvec),
             yoff: 0..Len(yvec), ylim: 0..Len(yvec)]
  BY <1>6, <1>7 DEF Rectangle
<1> HIDE DEF s, Front, Back
<1>9. \A p : Front(p) => /\ p \in (0..(Len(xvec) - 1)) \X (0..(Len(yvec) - 1))
                        /\ r.xoff <= p[1] /\ p[1] < s.xoff
                        /\ r.yoff <= p[2] /\ p[2] < s.yoff
                        /\ Equal(p[1], p[2])
  <2> SUFFICES ASSUME NEW i \in 0..(k - 1)
               PROVE  /\ r.xoff + i \in 0..(Len(xvec) - 1)
                      /\ r.yoff + i \in 0..(Len(yvec) - 1)
                      /\ r.xoff <= r.xoff + i /\ r.xoff + i < s.xoff
                      /\ r.yoff <= r.yoff + i /\ r.yoff + i < s.yoff
                      /\ Equal(r.xoff + i, r.yoff + i)
    BY DEF Front
  <2>1. Equal(r.xoff + i, r.yoff + i)
    BY DEF Slide
  <2>2. /\ r.xoff + i \in 0..(Len(xvec) - 1)
        /\ r.xoff <= r.xoff + i /\ r.xoff + i < s.xoff
    BY <1>6, <1>x DEF SlideFacts
  <2>3. /\ r.yoff + i \in 0..(Len(yvec) - 1)
        /\ r.yoff <= r.yoff + i /\ r.yoff + i < s.yoff
    BY <1>6, <1>y DEF SlideFacts
  <2> QED
    BY <2>1, <2>2, <2>3
<1>10. \A p : Back(p) => /\ p \in (0..(Len(xvec) - 1)) \X (0..(Len(yvec) - 1))
                        /\ s.xlim <= p[1] /\ p[1] < r.xlim
                        /\ s.ylim <= p[2] /\ p[2] < r.ylim
                        /\ Equal(p[1], p[2])
  <2> SUFFICES ASSUME NEW i \in 1..l
               PROVE  /\ r.xlim - i \in 0..(Len(xvec) - 1)
                      /\ r.ylim - i \in 0..(Len(yvec) - 1)
                      /\ s.xlim <= r.xlim - i /\ r.xlim - i < r.xlim
                      /\ s.ylim <= r.ylim - i /\ r.ylim - i < r.ylim
                      /\ Equal(r.xlim - i, r.ylim - i)
    BY DEF Back
  <2>1. Equal(r.xlim - i, r.ylim - i)
    BY DEF Slide
  <2>2. /\ r.xlim - i \in 0..(Len(xvec) - 1)
        /\ s.xlim <= r.xlim - i /\ r.xlim - i < r.xlim
    BY <1>6, <1>x DEF SlideFacts
  <2>3. /\ r.ylim - i \in 0..(Len(yvec) - 1)
        /\ s.ylim <= r.ylim - i /\ r.ylim - i < r.ylim
    BY <1>6, <1>y DEF SlideFacts
  <2> QED
    BY <2>1, <2>2, <2>3
<1>11. \A p, q : Front(p) /\ Front(q) => \/ p = q
                                         \/ p[1] < q[1] /\ p[2] < q[2]
                                         \/ q[1] < p[1] /\ q[2] < p[2]
  <2> SUFFICES ASSUME NEW i \in 0..(k - 1), NEW j \in 0..(k - 1)
               PROVE  \/ i = j
                      \/ r.xoff + i < r.xoff + j /\ r.yoff + i < r.yoff + j
                      \/ r.xoff + j < r.xoff + i /\ r.yoff + j < r.yoff + i
    BY DEF Front
  <2>1. i \in Int /\ j \in Int
    OBVIOUS
  <2> QED
    BY <1>r, <2>1, DiagonalUp
<1>12. \A p, q : Back(p) /\ Back(q) => \/ p = q
                                       \/ p[1] < q[1] /\ p[2] < q[2]
                                       \/ q[1] < p[1] /\ q[2] < p[2]
  <2> SUFFICES ASSUME NEW i \in 1..l, NEW j \in 1..l
               PROVE  \/ i = j
                      \/ r.xlim - i < r.xlim - j /\ r.ylim - i < r.ylim - j
                      \/ r.xlim - j < r.xlim - i /\ r.ylim - j < r.ylim - i
    BY DEF Back
  <2>1. i \in Int /\ j \in Int
    OBVIOUS
  <2> QED
    BY <1>r, <2>1, DiagonalDown
<1>13. \A p \in matched : /\ p[1] \in Nat /\ p[2] \in Nat
                          /\ \A t \in pending : Outside(p, t)
  <2> SUFFICES ASSUME NEW p \in matched
               PROVE  /\ p[1] \in Nat /\ p[2] \in Nat
                      /\ \A t \in pending : Outside(p, t)
    OBVIOUS
  <2>1. p \in (0..(Len(xvec) - 1)) \X (0..(Len(yvec) - 1))
    BY DEF IInv, TypeOK
  <2>2. p[1] \in Nat /\ p[2] \in Nat
    BY <2>1
  <2>3. \A t \in pending : Outside(p, t)
    BY DEF IInv, Chain
  <2> QED
    BY <2>2, <2>3
<1>14. \A t \in pending : /\ t.xoff \in Nat /\ t.xlim \in Nat
                          /\ t.yoff \in Nat /\ t.ylim \in Nat
                          /\ t = r \/ Precedes(t, r) \/ Precedes(r, t)
  BY DEF IInv, TypeOK, Chain
<1>i. /\ r.xoff \in Int /\ r.xlim \in Int /\ r.yoff \in Int /\ r.ylim \in Int
      /\ s.xoff \in Int /\ s.xlim \in Int /\ s.yoff \in Int /\ s.ylim \in Int
      /\ r.xoff <= s.xoff /\ s.xoff <= s.xlim /\ s.xlim <= r.xlim
      /\ r.yoff <= s.yoff /\ s.yoff <= s.ylim /\ s.ylim <= r.ylim
  <2>1. s.xoff \in Int /\ s.xlim \in Int /\ s.yoff \in Int /\ s.ylim \in Int
    BY <1>7
  <2> QED
    BY <1>r, <2>1, <1>7
<1>b. \A p : Front(p) \/ Back(p) => /\ p[1] \in Nat /\ p[2] \in Nat
                                   /\ r.xoff <= p[1] /\ p[1] < r.xlim
                                   /\ r.yoff <= p[2] /\ p[2] < r.ylim
                                   /\ Outside(p, s)
  <2>1. ASSUME NEW p, Front(p)
        PROVE  /\ p[1] \in Nat /\ p[2] \in Nat
               /\ r.xoff <= p[1] /\ p[1] < r.xlim
               /\ r.yoff <= p[2] /\ p[2] < r.ylim
               /\ Outside(p, s)
    <3>1. /\ p[1] \in Nat /\ p[2] \in Nat
          /\ r.xoff <= p[1] /\ p[1] < s.xoff
          /\ r.yoff <= p[2] /\ p[2] < s.yoff
      BY <1>1, <1>9, <2>1
    <3> QED
      BY <1>i, <3>1 DEF Outside
  <2>2. ASSUME NEW p, Back(p)
        PROVE  /\ p[1] \in Nat /\ p[2] \in Nat
               /\ r.xoff <= p[1] /\ p[1] < r.xlim
               /\ r.yoff <= p[2] /\ p[2] < r.ylim
               /\ Outside(p, s)
    <3>1. /\ p[1] \in Nat /\ p[2] \in Nat
          /\ s.xlim <= p[1] /\ p[1] < r.xlim
          /\ s.ylim <= p[2] /\ p[2] < r.ylim
      BY <1>1, <1>10, <2>2
    <3> QED
      BY <1>i, <3>1 DEF Outside
  <2> QED
    BY <2>1, <2>2
<1>15. TypeOK'
  <2>1. pending' \subseteq [xoff: 0..Len(xvec), xlim: 0..Len(xvec),
                            yoff: 0..Len(yvec), ylim: 0..Len(yvec)]
    BY <1>3, <1>8 DEF IInv, TypeOK
  <2>2. \A t \in pending' : t.xoff <= t.xlim /\ t.yoff <= t.ylim /\ NonEmpty(t)
    BY <1>3, <1>7 DEF IInv, TypeOK
  <2>3. matched' \subseteq (0..(Len(xvec) - 1)) \X (0..(Len(yvec) - 1))
    BY <1>5, <1>9, <1>10 DEF IInv, TypeOK
  <2> QED
    BY <1>4, <2>1, <2>2, <2>3 DEF IInv, TypeOK, NonEmpty
<1>16. Chain'
  <2>1. \A t \in pending : t # r => Precedes(t, s) \/ Precedes(s, t)
    BY <1>i, <1>14 DEF Precedes
  <2>2. \A t, u \in pending' : t = u \/ Precedes(t, u) \/ Precedes(u, t)
    BY <1>3, <2>1 DEF IInv, Chain
  <2>3. ASSUME NEW p, p[1] \in Nat, p[2] \in Nat,
               r.xoff <= p[1], p[1] < r.xlim, r.yoff <= p[2], p[2] < r.ylim,
               NEW t \in pending, t # r
        PROVE  Outside(p, t)
    <3>1. Precedes(t, r) \/ Precedes(r, t)
      BY <1>14, <2>3
    <3> QED
      BY <1>i, <1>14, <2>3, <3>1 DEF Precedes, Outside
  <2>5. \A p \in matched : Outside(p, s)
    <3> SUFFICES ASSUME NEW p \in matched PROVE Outside(p, s)
      OBVIOUS
    <3>1. p[1] \in Nat /\ p[2] \in Nat /\ Outside(p, r)
      BY <1>13
    <3> QED
      BY <1>i, <3>1 DEF Outside
  <2>6. \A p \in matched', t \in pending' : Outside(p, t)
    BY <1>3, <1>5, <1>13, <2>3, <1>b, <2>5
  <2>7. ASSUME NEW p, NEW q, Front(p) \/ Back(p), q \in matched
        PROVE  \/ p[1] < q[1] /\ p[2] < q[2]
               \/ q[1] < p[1] /\ q[2] < p[2]
    <3>1. /\ q[1] \in Nat /\ q[2] \in Nat /\ Outside(q, r)
      BY <1>13, <2>7
    <3>2. /\ p[1] \in Nat /\ p[2] \in Nat
          /\ r.xoff <= p[1] /\ p[1] < r.xlim
          /\ r.yoff <= p[2] /\ p[2] < r.ylim
      BY <1>b, <2>7
    <3> QED
      BY <1>i, <3>1, <3>2 DEF Outside
  <2>8. ASSUME NEW p, NEW q, Front(p), Back(q)
        PROVE  p[1] < q[1] /\ p[2] < q[2]
    <3>1. /\ p[1] \in Nat /\ p[2] \in Nat /\ p[1] < s.xoff /\ p[2] < s.yoff
      BY <1>9, <1>b, <2>8
    <3>2. /\ q[1] \in Nat /\ q[2] \in Nat /\ s.xlim <= q[1] /\ s.ylim <= q[2]
      BY <1>10, <1>b, <2>8
    <3> QED
      BY <1>i, <3>1, <3>2
  <2>9. \A p, q \in matched' : \/ p = q
                               \/ p[1] < q[1] /\ p[2] < q[2]
                               \/ q[1] < p[1] /\ q[2] < p[2]
    BY <1>5, <1>11, <1>12, <2>7, <2>8 DEF IInv, Chain
  <2> QED
    BY <2>2, <2>6, <2>9 DEF Chain, Precedes, Outside
<1>17. Accounted'
  <2>1. ASSUME NEW i \in Nat, InX(i, r)
        PROVE  \/ InX(i, s) /\ NonEmpty(s)
               \/ \E p \in matched' : p[1] = i
    <3>1. \/ r.xoff + k <= i /\ i < r.xlim - l
          \/ \E h \in 0..(k - 1) : r.xoff + h = i
          \/ \E h \in 1..l : r.xlim - h = i
      BY <1>x, <2>1 DEF SlideFacts, InX
    <3>2. CASE r.xoff + k <= i /\ i < r.xlim - l
      BY <1>i, <1>6, <3>2 DEF InX, NonEmpty
    <3>3. ASSUME NEW h \in 0..(k - 1), r.xoff + h = i
          PROVE  \E p \in matched' : p[1] = i
      <4>1. Front(<<r.xoff + h, r.yoff + h>>)
        BY DEF Front
      <4> QED
        BY <1>5, <3>3, <4>1
    <3>4. ASSUME NEW h \in 1..l, r.xlim - h = i
          PROVE  \E p \in matched' : p[1] = i
      <4>1. Back(<<r.xlim - h, r.ylim - h>>)
        BY DEF Back
      <4> QED
        BY <1>5, <3>4, <4>1
    <3> QED
      BY <3>1, <3>2, <3>3, <3>4
  <2>2. ASSUME NEW j \in Nat, InY(j, r)
        PROVE  \/ InY(j, s) /\ NonEmpty(s)
               \/ \E p \in matched' : p[2] = j
    <3>1. \/ r.yoff + k <= j /\ j < r.ylim - l
          \/ \E h \in 0..(k - 1) : r.yoff + h = j
          \/ \E h \in 1..l : r.ylim - h = j
      BY <1>y, <2>2 DEF SlideFacts, InY
    <3>2. CASE r.yoff + k <= j /\ j < r.ylim - l
      BY <1>i, <1>6, <3>2 DEF InY, NonEmpty
    <3>3. ASSUME NEW h \in 0..(k - 1), r.yoff + h = j
          PROVE  \E p \in matched' : p[2] = j
      <4>1. Front(<<r.xoff + h, r.yoff + h>>)
        BY DEF Front
      <4> QED
        BY <1>5, <3>3, <4>1
    <3>4. ASSUME NEW h \in 1..l, r.ylim - h = j
          PROVE  \E p \in matched' : p[2] = j
      <4>1. Back(<<r.xlim - h, r.ylim - h>>)
        BY DEF Back
      <4> QED
        BY <1>5, <3>4, <4>1
    <3> QED
      BY <3>1, <3>2, <3>3, <3>4
  <2>3. ASSUME NEW i \in 0..(Len(xvec) - 1)
        PROVE  \/ i \in deleted
               \/ \E p \in matched' : p[1] = i
               \/ \E t \in pending' : InX(i, t)
    <3>1. i \in Nat
      BY <1>1
    <3> QED
      BY <1>3, <1>5, <2>1, <3>1 DEF IInv, Accounted
  <2>4. ASSUME NEW j \in 0..(Len(yvec) - 1)
        PROVE  \/ j \in inserted
               \/ \E p \in matched' : p[2] = j
               \/ \E t \in pending' : InY(j, t)
    <3>1. j \in Nat
      BY <1>1
    <3> QED
      BY <1>3, <1>5, <2>2, <3>1 DEF IInv, Accounted
  <2> QED
    BY <1>4, <2>3, <2>4 DEF Accounted, InX, InY
<1>18. Exclusive'
  <2>1. ASSUME NEW i \in deleted
        PROVE  /\ \A p \in matched' : p[1] # i
               /\ \A t \in pending' : ~InX(i, t)
    <3>1. i \in Nat /\ ~InX(i, r)
      BY <1>1 DEF IInv, TypeOK, Exclusive
    <3>2. \A p : Front(p) \/ Back(p) => p[1] # i
      <4>1. \A p : Front(p) \/ Back(p) => /\ p[1] \in Int
                                         /\ r.xoff <= p[1] /\ p[1] < r.xlim
        BY <1>b
      <4> QED
        BY <1>i, <3>1, <4>1 DEF InX
    <3>3. ~InX(i, s)
      BY <1>i, <3>1 DEF InX
    <3> QED
      BY <1>3, <1>5, <3>2, <3>3 DEF IInv, Exclusive
  <2>2. ASSUME NEW j \in inserted
        PROVE  /\ \A p \in matched' : p[2] # j
               /\ \A t \in pending' : ~InY(j, t)
    <3>1. j \in Nat /\ ~InY(j, r)
      BY <1>1 DEF IInv, TypeOK, Exclusive
    <3>2. \A p : Front(p) \/ Back(p) => p[2] # j
      <4>1. \A p : Front(p) \/ Back(p) => /\ p[2] \in Int
                                         /\ r.yoff <= p[2] /\ p[2] < r.ylim
        BY <1>b
      <4> QED
        BY <1>i, <3>1, <4>1 DEF InY
    <3>3. ~InY(j, s)
      BY <1>i, <3>1 DEF InY
    <3> QED
      BY <1>3, <1>5, <3>2, <3>3 DEF IInv, Exclusive
  <2> QED
    BY <1>4, <2>1, <2>2 DEF Exclusive, InX, InY
<1>19. MatchedEqual'
  BY <1>4, <1>5, <1>9, <1>10 DEF IInv, MatchedEqual, Equal
<1> QED
  BY <1>15, <1>16, <1>17, <1>18, <1>19 DEF IInv

(* Every step of compareseq keeps the invariant. *)
LEMMA NextIInv == IInv /\ [Next]_vars => IInv'
<1> SUFFICES ASSUME IInv, [Next]_vars PROVE IInv'
  OBVIOUS
<1>1. CASE \E r \in pending : \E k, l \in 0..(r.xlim - r.xoff) : Slide(r, k, l)
  <2>0. PICK r \in pending : \E k, l \in 0..(r.xlim - r.xoff) : Slide(r, k, l)
    BY <1>1
  <2>1. PICK k, l \in 0..(r.xlim - r.xoff) : Slide(r, k, l)
    BY <2>0
  <2>2. r.xlim - r.xoff \in Int
    BY DEF IInv, TypeOK
  <2>3. k \in Nat /\ l \in Nat
    BY <2>1, <2>2
  <2> QED
    BY <2>1, <2>3, SlideIInv
<1>2. CASE \E r \in pending : Note(r)
  BY <1>2, NoteIInv
<1>3. CASE \E r \in pending : \E xmid \in r.xoff..r.xlim, ymid \in r.yoff..r.ylim :
                                 Split(r, xmid, ymid)
  BY <1>3, SplitIInv
<1>4. CASE UNCHANGED vars
  BY <1>4 DEF IInv, TypeOK, Chain, Accounted, Exclusive, MatchedEqual, vars,
              NonEmpty, Precedes, Outside, InX, InY, Equal
<1> QED
  BY <1>1, <1>2, <1>3, <1>4 DEF Next

(* The calls of compareseq stay inside the two vectors. *)
THEOREM TypeCorrect == Spec => []TypeOK
<1>1. IInv => TypeOK
  BY DEF IInv
<1> QED
  BY InitIInv, NextIInv, <1>1, PTL DEF Spec

(* The calls of compareseq and the pairs it matched never cross. *)
THEOREM NeverCrosses == Spec => []Chain
<1>1. IInv => Chain
  BY DEF IInv
<1> QED
  BY InitIInv, NextIInv, <1>1, PTL DEF Spec

(* "If we return the `wrong' partitions, the worst this can do is cause    *)
(* suboptimal diff output.  It cannot cause incorrect diff output." (diag) *)
THEOREM PartitionsCannotCauseIncorrectDiff == Spec => []CorrectDiff
<1>1. IInv => CorrectDiff
  <2> SUFFICES ASSUME IInv, pending = {}
               PROVE  /\ {p[1] : p \in matched} = (0..(Len(xvec) - 1)) \ deleted
                      /\ {p[2] : p \in matched} = (0..(Len(yvec) - 1)) \ inserted
                      /\ MatchedEqual
                      /\ \A p, q \in matched : p[1] < q[1] <=> p[2] < q[2]
    BY DEF CorrectDiff
  <2>1. \A p \in matched : /\ p[1] \in 0..(Len(xvec) - 1) /\ p[1] \in Int
                           /\ p[2] \in 0..(Len(yvec) - 1) /\ p[2] \in Int
    BY DEF IInv, TypeOK
  <2>2. {p[1] : p \in matched} = (0..(Len(xvec) - 1)) \ deleted
    BY <2>1 DEF IInv, Accounted, Exclusive
  <2>3. {p[2] : p \in matched} = (0..(Len(yvec) - 1)) \ inserted
    BY <2>1 DEF IInv, Accounted, Exclusive
  <2>4. \A p, q \in matched : p[1] < q[1] <=> p[2] < q[2]
    BY <2>1 DEF IInv, Chain
  <2> QED
    BY <2>2, <2>3, <2>4 DEF IInv
<1> QED
  BY InitIInv, NextIInv, <1>1, PTL DEF Spec

=============================================================================

----------------------------- MODULE DiagProofs -----------------------------
(***************************************************************************)
(* What the passes of diag make of the entries of fdiag and bdiag, and     *)
(* where the two searches can meet, for all vectors.                       *)
(*                                                                         *)
(* The difficulty is that the entries of fdiag and bdiag may lie outside   *)
(* the rectangle: a diagonal that has come to an edge goes on beyond it.   *)
(* diag still returns no such point when two diagonals meet, because an    *)
(* entry beyond an edge has a neighbour that is at most one step behind it *)
(* (Reached), so that the searches have met before they can get there      *)
(* (Near).                                                                 *)
(***************************************************************************)
EXTENDS CompareSeq, WellFoundedInduction, TLAPS

-----------------------------------------------------------------------------
(* Largest elements *)

(* The least-number principle, for a set of numbers *)
LEMMA LeastNat ==
    ASSUME NEW S, S \subseteq Nat, S # {}
    PROVE  \E m \in S : \A k \in S : m <= k
<1>1. PICK m \in S : \A k \in S : ~(<<k, m>> \in OpToRel(<, Nat))
  BY NatLessThanWellFounded, WFMin
<1>2. ASSUME NEW k \in S PROVE m <= k
  <2>1. <<k, m>> \in Nat \X Nat
    OBVIOUS
  <2>2. ~(k < m)
    BY <1>1, <2>1 DEF OpToRel
  <2> QED
    BY <2>2
<1> QED
  BY <1>2

(* Max is an element of the set, and the largest one. *)
LEMMA MaxProperty ==
    ASSUME NEW S, S \subseteq Int, S # {}, NEW n \in Int, \A s \in S : s <= n
    PROVE  Max(S) \in S /\ \A s \in S : s <= Max(S)
<1> DEFINE T == {n - s : s \in S}
<1>1. \A s \in S : s \in Int /\ n - s \in Nat
  OBVIOUS
<1>2. T \subseteq Nat /\ T # {}
  BY <1>1
<1>3. PICK m \in T : \A k \in T : m <= k
  <2> HIDE DEF T
  <2> QED
    BY <1>2, LeastNat
<1>4. PICK x \in S : m = n - x
  OBVIOUS
<1>5. \A y \in S : x >= y
  <2> SUFFICES ASSUME NEW y \in S PROVE x >= y
    OBVIOUS
  <2>1. n - y \in T
    OBVIOUS
  <2> QED
    BY <1>1, <1>3, <1>4, <2>1
<1>6. Max(S) \in S /\ \A y \in S : Max(S) >= y
  BY <1>5 DEF Max
<1> QED
  BY <1>1, <1>6

(* The larger one of two numbers, and the smallest of three *)
LEMMA MaxOfTwo ==
    ASSUME NEW a \in Int, NEW b \in Int
    PROVE  Max({a, b}) \in {a, b} /\ Max({a, b}) >= a /\ Max({a, b}) >= b
<1>1. \E n \in Int : a <= n /\ b <= n
  <2>1. CASE a <= b
    BY <2>1
  <2>2. CASE b <= a
    BY <2>2
  <2> QED
    BY <2>1, <2>2
<1>2. PICK n \in Int : a <= n /\ b <= n
  BY <1>1
<1>3. /\ {a, b} \subseteq Int /\ {a, b} # {}
      /\ \A s \in {a, b} : s <= n
  BY <1>2
<1>4. Max({a, b}) \in {a, b} /\ \A s \in {a, b} : s <= Max({a, b})
  BY <1>3, MaxProperty
<1> QED
  BY <1>4

(* A best diagonal exists, as there are finitely many of them. *)
LEMMA BestInDomain ==
    ASSUME NEW lo \in Int, NEW hi \in Int, NEW score, DOMAIN score \subseteq lo..hi,
           DOMAIN score # {}, \A d \in DOMAIN score : score[d] \in Int
    PROVE  Best(score) \in DOMAIN score
<1> DEFINE D == DOMAIN score
<1>7. D \subseteq lo..hi /\ D # {} /\ \A d \in D : score[d] \in Int
  OBVIOUS
<1>8. (\E d \in D : \A e \in D : score[e] < score[d] \/ (score[e] = score[d] /\ e <= d))
      => Best(score) \in D
  BY DEF Best
<1> HIDE DEF D
<1> USE <1>7
<1> DEFINE Part(n) == {d \in D : d <= lo + n}
           IsBest(d, S) == \A e \in S : score[e] < score[d] \/ (score[e] = score[d] /\ e <= d)
           Bad == {n \in Nat : Part(n) # {} /\ ~\E d \in Part(n) : IsBest(d, Part(n))}
<1>0. \A d \in D : d \in Int /\ lo <= d /\ d <= hi
  OBVIOUS
<1>1. Bad = {}
  <2> SUFFICES ASSUME Bad # {} PROVE FALSE
    OBVIOUS
  <2>1. PICK n \in Bad : \A k \in Bad : n <= k
    <3>1. Bad \subseteq Nat
      OBVIOUS
    <3> HIDE DEF Bad
    <3> QED
      BY <3>1, LeastNat
  <2>2. n \in Nat /\ Part(n) # {} /\ ~\E d \in Part(n) : IsBest(d, Part(n))
    OBVIOUS
  <2> HIDE DEF Bad
  <2>3. CASE n = 0
    <3>1. Part(n) = {lo}
      <4>1. \A d \in Part(n) : d = lo
        BY <1>0, <2>3
      <4> HIDE DEF Part
      <4> QED
        BY <2>2, <4>1
    <3>2. lo \in D /\ score[lo] \in Int
      <4>1. lo \in Part(n)
        BY <3>1
      <4> QED
        BY <4>1
    <3>3. IsBest(lo, Part(n))
      BY <3>1, <3>2
    <3> QED
      BY <2>2, <3>1, <3>3
  <2>4. CASE n # 0
    <3> DEFINE k == n - 1
    <3>1. k \in Nat /\ k < n /\ lo + n = (lo + k) + 1
      BY <2>2, <2>4
    <3>2. k \notin Bad
      BY <2>1, <2>2, <3>1
    <3> HIDE DEF k
    <3>3. Part(k) = {} \/ \E d \in Part(k) : IsBest(d, Part(k))
      BY <3>1, <3>2 DEF Bad
    <3>4. \A d \in Part(n) : d \in Part(k) \/ d = lo + n
      BY <1>0, <3>1
    <3>5. Part(k) \subseteq Part(n)
      <4> SUFFICES ASSUME NEW d \in Part(k) PROVE d \in Part(n)
        OBVIOUS
      <4>1. d \in D /\ d \in Int /\ d <= lo + k
        BY <1>0
      <4>2. d <= lo + n
        BY <2>2, <3>1, <4>1
      <4> QED
        BY <4>1, <4>2
    <3>6. CASE Part(k) = {}
      <4>1. Part(n) = {lo + n} /\ lo + n \in D
        <5>1. \A d \in Part(n) : d = lo + n /\ d \in D
          BY <3>4, <3>6
        <5> HIDE DEF Part
        <5> QED
          BY <2>2, <5>1
      <4>2. score[lo + n] \in Int
        BY <4>1
      <4>3. IsBest(lo + n, Part(n))
        BY <4>1, <4>2, <2>2
      <4> QED
        BY <2>2, <4>1, <4>3
    <3>7. ASSUME NEW d \in Part(k), IsBest(d, Part(k)) PROVE FALSE
      <4>1. d \in D /\ d \in Int /\ score[d] \in Int /\ d < lo + n
        BY <1>0, <2>2, <3>1
      <4>2. CASE lo + n \in D /\ score[lo + n] >= score[d]
        <5> DEFINE m == lo + n
        <5>1. m \in D /\ m \in Int /\ score[m] \in Int /\ score[m] >= score[d] /\ m \in Part(n)
          BY <2>2, <4>2
        <5>2. ASSUME NEW e \in Part(n)
              PROVE  score[e] < score[m] \/ (score[e] = score[m] /\ e <= m)
          <6>1. e \in D /\ e \in Int /\ score[e] \in Int /\ e <= m
            BY <1>0
          <6>2. CASE e \in Part(k)
            <7>1. score[e] < score[d] \/ (score[e] = score[d] /\ e <= d)
              BY <3>7, <6>2
            <7> HIDE DEF m
            <7> QED
              BY <4>1, <5>1, <6>1, <7>1
          <6>3. CASE e = m
            BY <5>1, <6>3
          <6> QED
            BY <3>4, <6>2, <6>3
        <5> QED
          BY <2>2, <5>1, <5>2
      <4>3. CASE ~(lo + n \in D /\ score[lo + n] >= score[d])
        <5>1. ASSUME NEW e \in Part(n)
              PROVE  score[e] < score[d] \/ (score[e] = score[d] /\ e <= d)
          <6>1. CASE e \in Part(k)
            BY <3>7, <6>1
          <6>2. CASE e = lo + n
            <7>1. e \in D /\ score[e] \in Int
              OBVIOUS
            <7> QED
              BY <4>1, <4>3, <6>2, <7>1
          <6> QED
            BY <3>4, <6>1, <6>2
        <5> QED
          BY <2>2, <3>5, <5>1
      <4> QED
        BY <4>2, <4>3
    <3> QED
      BY <3>3, <3>6, <3>7
  <2> QED
    BY <2>3, <2>4
<1>2. PICK x \in D : TRUE
  OBVIOUS
<1> DEFINE n == hi - lo
<1>3. n \in Nat /\ lo + n = hi
  BY <1>0, <1>2
<1>4. Part(n) = D
  BY <1>0, <1>3
<1>5. n \notin Bad
  BY <1>1
<1> HIDE DEF n
<1>6. \E d \in Part(n) : IsBest(d, Part(n))
  BY <1>3, <1>4, <1>5
<1>9. \E d \in D : IsBest(d, D)
  BY <1>4, <1>6
<1>10. Best(score) \in D
  BY <1>8, <1>9
<1> QED
  BY <1>10 DEF D

(* The better of three *)
LEMMA MinOfThree ==
    ASSUME NEW a \in Int, NEW b \in Int, NEW c \in Int
    PROVE  /\ Min({a, b, c}) \in {a, b, c}
           /\ Min({a, b, c}) <= a /\ Min({a, b, c}) <= b /\ Min({a, b, c}) <= c
<1> DEFINE S == {a, b, c}
<1>1. \E x \in S : \A y \in S : x <= y
  <2>1. CASE a <= b /\ a <= c
    BY <2>1
  <2>2. CASE b <= a /\ b <= c
    BY <2>2
  <2>3. CASE c <= a /\ c <= b
    BY <2>3
  <2> QED
    BY <2>1, <2>2, <2>3
<1>2. Min(S) \in S /\ \A y \in S : Min(S) <= y
  <2> HIDE DEF S
  <2> QED
    BY <1>1 DEF Min
<1> QED
  BY <1>2

(* The same for the largest *)
LEMMA MaxOfThree ==
    ASSUME NEW a \in Int, NEW b \in Int, NEW c \in Int
    PROVE  /\ Max({a, b, c}) \in {a, b, c}
           /\ Max({a, b, c}) >= a /\ Max({a, b, c}) >= b /\ Max({a, b, c}) >= c
<1> DEFINE S == {a, b, c}
<1>1. \E x \in S : \A y \in S : x >= y
  <2>1. CASE a >= b /\ a >= c
    BY <2>1
  <2>2. CASE b >= a /\ b >= c
    BY <2>2
  <2>3. CASE c >= a /\ c >= b
    BY <2>3
  <2> QED
    BY <2>1, <2>2, <2>3
<1>2. Max(S) \in S /\ \A y \in S : Max(S) >= y
  <2> HIDE DEF S
  <2> QED
    BY <1>1 DEF Max
<1> QED
  BY <1>2

-----------------------------------------------------------------------------
(* Snakes *)

(* A snake does not go beyond the limits, and passes equal elements. *)
LEMMA SnakeDownFacts ==
    ASSUME NEW x \in Int, NEW y \in Int, NEW xlim \in Int, NEW ylim \in Int
    PROVE  LET k == SnakeDown(x, y, xlim, ylim)
           IN  /\ k \in Nat
               /\ k > 0 => x + k <= xlim /\ y + k <= ylim
               /\ \A i \in 0..(k - 1) : Equal(x + i, y + i)
<1> DEFINE m == Max({0, xlim - x})
           S == {k \in 0..m : y + k <= ylim /\ \A i \in 0..(k - 1) : Equal(x + i, y + i)}
                \cup {0}
           k == Max(S)
<1>1. m \in Nat /\ (m > 0 => m = xlim - x)
  BY MaxOfTwo
<1> HIDE DEF m
<1>2. S \subseteq Int /\ S # {} /\ \A s \in S : s <= m
  BY <1>1
<1>3. k \in S
  <2>1. m \in Int
    BY <1>1
  <2> HIDE DEF S
  <2>2. Max(S) \in S
    BY <1>2, <2>1, MaxProperty
  <2> QED
    BY <2>2
<1>4. k = SnakeDown(x, y, xlim, ylim)
  BY DEF SnakeDown, m
<1>5. k \in Nat
  BY <1>1, <1>3
<1> HIDE DEF k
<1>6. k > 0 => k <= m /\ y + k <= ylim
  BY <1>1, <1>3
<1>7. \A i \in 0..(k - 1) : Equal(x + i, y + i)
  BY <1>1, <1>3
<1> QED
  BY <1>1, <1>4, <1>5, <1>6, <1>7

(* The same for a snake in the other direction. *)
LEMMA SnakeUpFacts ==
    ASSUME NEW x \in Int, NEW y \in Int, NEW xoff \in Int, NEW yoff \in Int
    PROVE  LET k == SnakeUp(x, y, xoff, yoff)
           IN  /\ k \in Nat
               /\ k > 0 => x - k >= xoff /\ y - k >= yoff
               /\ \A i \in 1..k : Equal(x - i, y - i)
<1> DEFINE m == Max({0, x - xoff})
           S == {k \in 0..m : yoff <= y - k /\ \A i \in 1..k : Equal(x - i, y - i)}
                \cup {0}
           k == Max(S)
<1>1. m \in Nat /\ (m > 0 => m = x - xoff)
  BY MaxOfTwo
<1> HIDE DEF m
<1>2. S \subseteq Int /\ S # {} /\ \A s \in S : s <= m
  BY <1>1
<1>3. k \in S
  <2>1. m \in Int
    BY <1>1
  <2> HIDE DEF S
  <2>2. Max(S) \in S
    BY <1>2, <2>1, MaxProperty
  <2> QED
    BY <2>2
<1>4. k = SnakeUp(x, y, xoff, yoff)
  BY DEF SnakeUp, m
<1>5. k \in Nat
  BY <1>1, <1>3
<1> HIDE DEF k
<1>6. k > 0 => k <= m /\ yoff <= y - k
  BY <1>1, <1>3
<1>7. \A i \in 1..k : Equal(x - i, y - i)
  BY <1>1, <1>3
<1> QED
  BY <1>1, <1>4, <1>5, <1>6, <1>7

-----------------------------------------------------------------------------
(* The passes of diag *)

(* The rectangle diag works on: neither side is empty. *)
TopOK ==
    /\ top.xoff \in Nat /\ top.xlim \in Nat /\ top.xoff < top.xlim
    /\ top.yoff \in Nat /\ top.ylim \in Nat /\ top.yoff < top.ylim
    /\ top.xlim < OFFSET_MAX /\ OFFSET_MAX \in Nat

(* The limits of a pass that started from diagonal mid *)
Limits(lo, hi, mid) ==
    /\ lo \in Int /\ hi \in Int
    /\ dmin <= lo /\ lo <= mid /\ mid <= hi /\ hi <= dmax
    /\ (hi - lo) % 2 = 0

(* The entries of the last forward pass.  They are not before the start of *)
(* the rectangle.  An entry beyond the right or the lower edge has a       *)
(* neighbour towards the corner that is at most one step behind it.        *)
Reached(f, lo, hi) ==
    \A d \in Diagonals(lo, hi) :
        /\ d \in DOMAIN f /\ f[d] \in Int
        /\ f[d] >= top.xoff /\ f[d] - d >= top.yoff
        /\ f[d] > top.xlim /\ d > dmin + 1 => d - 2 >= lo /\ f[d - 2] >= f[d] - 1
        /\ f[d] - d > top.ylim /\ d < dmax - 1 => d + 2 <= hi /\ f[d + 2] >= f[d] + 1

(* The same for the last backward pass *)
ReachedBack(b, lo, hi) ==
    \A d \in Diagonals(lo, hi) :
        /\ d \in DOMAIN b /\ b[d] \in Int
        /\ b[d] <= top.xlim /\ b[d] - d <= top.ylim
        /\ b[d] < top.xoff /\ d < dmax - 1 => d + 2 <= hi /\ b[d + 2] <= b[d] + 1
        /\ b[d] - d < top.yoff /\ d > dmin + 1 => d - 2 >= lo /\ b[d - 2] <= b[d] - 1

(* The limits move by one, and stay around the diagonal they started from. *)
LEMMA LimitsMove ==
    ASSUME TopOK, NEW lo, NEW hi, NEW mid \in {fmid, bmid}, Limits(lo, hi, mid)
    PROVE  /\ Limits(Lower(lo), Upper(hi), mid)
           /\ Lower(lo) \in {lo - 1, lo + 1} /\ Upper(hi) \in {hi - 1, hi + 1}
           /\ Lower(lo) = lo - 1 <=> lo > dmin
           /\ Upper(hi) = hi + 1 <=> hi < dmax
<1>1. mid \in Int /\ dmin \in Int /\ dmax \in Int /\ dmin < mid /\ mid < dmax
  BY DEF TopOK, dmin, dmax, fmid, bmid
<1>2. Lower(lo) \in Int /\ Upper(hi) \in Int
  BY <1>1 DEF Limits, Lower, Upper
<1>3. /\ Lower(lo) \in {lo - 1, lo + 1} /\ Upper(hi) \in {hi - 1, hi + 1}
      /\ Lower(lo) = lo - 1 <=> lo > dmin
      /\ Upper(hi) = hi + 1 <=> hi < dmax
  BY <1>1 DEF Limits, Lower, Upper
<1>4. dmin <= Lower(lo) /\ Lower(lo) <= mid /\ mid <= Upper(hi) /\ Upper(hi) <= dmax
  BY <1>1, <1>3 DEF Limits
<1>5. (Upper(hi) - Lower(lo)) % 2 = 0
  BY <1>2, <1>3 DEF Limits
<1> QED
  BY <1>2, <1>3, <1>4, <1>5 DEF Limits

(* The diagonals of a pass are the neighbours of those of the last one. *)
LEMMA Neighbours ==
    ASSUME TopOK, NEW lo, NEW hi, NEW mid \in {fmid, bmid}, Limits(lo, hi, mid),
           NEW d \in Diagonals(Lower(lo), Upper(hi))
    PROVE  /\ d \in Int /\ dmin <= d /\ d <= dmax
           /\ d - 1 \in Diagonals(lo, hi) \/ d + 1 \in Diagonals(lo, hi)
           /\ d - 1 \in Diagonals(lo, hi) \/ (d - 1 = lo - 2 /\ lo > dmin)
           /\ d + 1 \in Diagonals(lo, hi) \/ (d + 1 = hi + 2 /\ hi < dmax)
<1>1. /\ Limits(Lower(lo), Upper(hi), mid)
      /\ Lower(lo) \in {lo - 1, lo + 1} /\ Upper(hi) \in {hi - 1, hi + 1}
      /\ Lower(lo) = lo - 1 <=> lo > dmin
      /\ Upper(hi) = hi + 1 <=> hi < dmax
  BY LimitsMove
<1>2. /\ d \in Int /\ Lower(lo) <= d /\ d <= Upper(hi) /\ (Upper(hi) - d) % 2 = 0
      /\ Lower(lo) \in Int /\ Upper(hi) \in Int /\ lo \in Int /\ hi \in Int
      /\ (hi - lo) % 2 = 0 /\ lo <= hi
      /\ dmin \in Int /\ dmax \in Int /\ dmin <= Lower(lo) /\ Upper(hi) <= dmax
      /\ mid \in Int
  BY <1>1 DEF Limits, Diagonals, TopOK, dmin, dmax, fmid, bmid
<1>3. (hi - (d - 1)) % 2 = 0 /\ (hi - (d + 1)) % 2 = 0
  BY <1>1, <1>2
<1>4. d - 1 \in Diagonals(lo, hi) \/ (d - 1 = lo - 2 /\ lo > dmin)
  <2>1. d - 1 <= hi
    BY <1>1, <1>2
  <2>2. d - 1 >= lo \/ d - 1 = lo - 2
    BY <1>1, <1>2, <1>3
  <2>3. d - 1 = lo - 2 => lo > dmin
    BY <1>1, <1>2
  <2> QED
    BY <1>2, <1>3, <2>1, <2>2, <2>3 DEF Diagonals
<1>5. d + 1 \in Diagonals(lo, hi) \/ (d + 1 = hi + 2 /\ hi < dmax)
  <2>1. d + 1 >= lo
    BY <1>1, <1>2
  <2>2. d + 1 <= hi \/ d + 1 = hi + 2
    BY <1>1, <1>2, <1>3
  <2>3. d + 1 = hi + 2 => hi < dmax
    BY <1>1, <1>2
  <2> QED
    BY <1>2, <1>3, <2>1, <2>2, <2>3 DEF Diagonals
<1>6. d - 1 \in Diagonals(lo, hi) \/ d + 1 \in Diagonals(lo, hi)
  BY <1>2, <1>4, <1>5
<1> QED
  BY <1>1, <1>2, <1>4, <1>5, <1>6

(* Writing the entries just outside the limits leaves those inside alone. *)
LEMMA BoundedEntries ==
    ASSUME TopOK, NEW lo, NEW hi, NEW mid \in {fmid, bmid}, Limits(lo, hi, mid),
           NEW f, NEW outside \in Int, NEW old, old = Bounded(f, lo, hi, outside)
    PROVE  /\ \A d \in DOMAIN old : \/ d \in DOMAIN f
                                    \/ d = lo - 2 /\ lo > dmin
                                    \/ d = hi + 2 /\ hi < dmax
           /\ \A d \in DOMAIN f : d \in DOMAIN old /\ (d \in lo..hi => old[d] = f[d])
           /\ lo > dmin => lo - 2 \in DOMAIN old /\ old[lo - 2] = outside
           /\ hi < dmax => hi + 2 \in DOMAIN old /\ old[hi + 2] = outside
<1> DEFINE S == (IF lo > dmin THEN {lo - 2} ELSE {}) \cup (IF hi < dmax THEN {hi + 2} ELSE {})
           g == [d \in S |-> outside]
<1>1. old = [d \in DOMAIN f \cup S |-> IF d \in S THEN g[d] ELSE f[d]]
  BY DEF Bounded, Write
<1>2. lo \in Int /\ hi \in Int /\ lo <= hi
  BY DEF Limits, TopOK, fmid, bmid
<1>3. \A d \in lo..hi : d \notin S
  BY <1>2
<1>4. \A d \in S : old[d] = outside
  BY <1>1
<1>5. \A d \in DOMAIN f \cap lo..hi : old[d] = f[d]
  BY <1>1, <1>3
<1> QED
  BY <1>1, <1>4, <1>5

(* What a forward pass makes of the entries f of the last one *)
Start(f, lo, hi, d) == ForwardStart(Bounded(f, lo, hi, -1), d)
Extended(f, lo, hi) ==
    [d \in Diagonals(Lower(lo), Upper(hi)) |->
        Start(f, lo, hi, d)
        + SnakeDown(Start(f, lo, hi, d), Start(f, lo, hi, d) - d, top.xlim, top.ylim)]

(* Every diagonal starts from the further one of its neighbours. *)
LEMMA StartFacts ==
    ASSUME TopOK, NEW f, NEW lo, NEW hi, Limits(lo, hi, fmid), Reached(f, lo, hi),
           NEW d \in Diagonals(Lower(lo), Upper(hi))
    PROVE  /\ {d - 1, d + 1} \subseteq DOMAIN Bounded(f, lo, hi, -1)
           /\ Start(f, lo, hi, d) \in Int
           /\ Start(f, lo, hi, d) >= top.xoff /\ Start(f, lo, hi, d) - d >= top.yoff
           /\ d - 1 \in Diagonals(lo, hi) => Start(f, lo, hi, d) >= f[d - 1] + 1
           /\ d + 1 \in Diagonals(lo, hi) => Start(f, lo, hi, d) >= f[d + 1]
           /\ \/ d - 1 \in Diagonals(lo, hi) /\ Start(f, lo, hi, d) = f[d - 1] + 1
              \/ d + 1 \in Diagonals(lo, hi) /\ Start(f, lo, hi, d) = f[d + 1]
<1> DEFINE old == Bounded(f, lo, hi, -1)
           s == Start(f, lo, hi, d)
<1>1. /\ d \in Int
      /\ d - 1 \in Diagonals(lo, hi) \/ d + 1 \in Diagonals(lo, hi)
      /\ d - 1 \in Diagonals(lo, hi) \/ (d - 1 = lo - 2 /\ lo > dmin)
      /\ d + 1 \in Diagonals(lo, hi) \/ (d + 1 = hi + 2 /\ hi < dmax)
  BY Neighbours
<1>2. /\ \A e \in Diagonals(lo, hi) : e \in DOMAIN f /\ e \in DOMAIN old /\ old[e] = f[e]
      /\ lo > dmin => lo - 2 \in DOMAIN old /\ old[lo - 2] = -1
      /\ hi < dmax => hi + 2 \in DOMAIN old /\ old[hi + 2] = -1
  <2>1. /\ \A e \in DOMAIN f : e \in DOMAIN old /\ (e \in lo..hi => old[e] = f[e])
        /\ lo > dmin => lo - 2 \in DOMAIN old /\ old[lo - 2] = -1
        /\ hi < dmax => hi + 2 \in DOMAIN old /\ old[hi + 2] = -1
    <3> DEFINE none == -1
    <3>1. none \in Int /\ old = Bounded(f, lo, hi, none) /\ fmid \in {fmid, bmid}
      OBVIOUS
    <3> HIDE DEF none, old
    <3>2. /\ \A e \in DOMAIN f : e \in DOMAIN old /\ (e \in lo..hi => old[e] = f[e])
          /\ lo > dmin => lo - 2 \in DOMAIN old /\ old[lo - 2] = none
          /\ hi < dmax => hi + 2 \in DOMAIN old /\ old[hi + 2] = none
      BY <3>1, BoundedEntries
    <3> QED
      BY <3>2 DEF none
  <2>2. \A e \in Diagonals(lo, hi) : e \in DOMAIN f /\ e \in lo..hi
    BY DEF Reached, Diagonals
  <2> HIDE DEF old
  <2> QED
    BY <2>1, <2>2
<1>3. s = IF old[d - 1] < old[d + 1] THEN old[d + 1] ELSE old[d - 1] + 1
  BY DEF Start, ForwardStart
<1> HIDE DEF old, s
<1>4. {d - 1, d + 1} \subseteq DOMAIN old
  BY <1>1, <1>2
<1>5. /\ d - 1 \in Diagonals(lo, hi) =>
            old[d - 1] = f[d - 1] /\ f[d - 1] \in Int
            /\ f[d - 1] >= top.xoff /\ f[d - 1] - (d - 1) >= top.yoff
      /\ d + 1 \in Diagonals(lo, hi) =>
            old[d + 1] = f[d + 1] /\ f[d + 1] \in Int
            /\ f[d + 1] >= top.xoff /\ f[d + 1] - (d + 1) >= top.yoff
      /\ d - 1 \notin Diagonals(lo, hi) => old[d - 1] = -1
      /\ d + 1 \notin Diagonals(lo, hi) => old[d + 1] = -1
  BY <1>1, <1>2 DEF Reached
<1>6. /\ top.xoff \in Nat /\ top.yoff \in Nat
  BY DEF TopOK
<1>7. /\ s \in Int
      /\ s >= top.xoff /\ s - d >= top.yoff
      /\ d - 1 \in Diagonals(lo, hi) => s >= f[d - 1] + 1
      /\ d + 1 \in Diagonals(lo, hi) => s >= f[d + 1]
      /\ \/ d - 1 \in Diagonals(lo, hi) /\ s = f[d - 1] + 1
         \/ d + 1 \in Diagonals(lo, hi) /\ s = f[d + 1]
  BY <1>1, <1>3, <1>5, <1>6
<1> QED
  BY <1>4, <1>7 DEF old, s

(* Snakes stay inside the rectangle, so what was reached in it is kept. *)
LEMMA ExtendedFacts ==
    ASSUME TopOK, NEW f, NEW lo, NEW hi, Limits(lo, hi, fmid), Reached(f, lo, hi),
           NEW d \in Diagonals(Lower(lo), Upper(hi))
    PROVE  LET s == Start(f, lo, hi, d)
               x == Extended(f, lo, hi)[d]
           IN  /\ x \in Int /\ x >= s
               /\ x > s => x <= top.xlim /\ x - d <= top.ylim
<1> DEFINE s == Start(f, lo, hi, d)
           k == SnakeDown(s, s - d, top.xlim, top.ylim)
<1>1. s \in Int
  BY StartFacts
<1>2. d \in Int
  BY Neighbours
<1>3. top.xlim \in Int /\ top.ylim \in Int
  BY DEF TopOK
<1>4. Extended(f, lo, hi)[d] = s + k
  BY DEF Extended
<1> HIDE DEF s
<1>5. k \in Nat /\ (k > 0 => s + k <= top.xlim /\ (s - d) + k <= top.ylim)
  <2> DEFINE y == s - d
  <2>1. y \in Int
    BY <1>1, <1>2
  <2>2. k = SnakeDown(s, y, top.xlim, top.ylim)
    OBVIOUS
  <2> HIDE DEF y, k
  <2>3. k \in Nat /\ (k > 0 => s + k <= top.xlim /\ y + k <= top.ylim)
    BY <1>1, <1>3, <2>1, <2>2, SnakeDownFacts
  <2> QED
    BY <2>3 DEF y
<1> HIDE DEF k
<1> DEFINE x == Extended(f, lo, hi)[d]
<1>6. x = s + k
  BY <1>4
<1> HIDE DEF x
<1>7. x \in Int /\ x >= s /\ (x > s => x <= top.xlim /\ x - d <= top.ylim)
  BY <1>1, <1>2, <1>3, <1>5, <1>6
<1> QED
  BY <1>7 DEF s, x

(* A forward pass keeps what Reached says. *)
LEMMA ForwardPass ==
    ASSUME TopOK, NEW f, NEW lo, NEW hi, Limits(lo, hi, fmid), Reached(f, lo, hi),
           NEW g, DOMAIN Extended(f, lo, hi) \subseteq DOMAIN g,
           \A d \in Diagonals(Lower(lo), Upper(hi)) : g[d] = Extended(f, lo, hi)[d]
    PROVE  Reached(g, Lower(lo), Upper(hi))
<1> DEFINE D == Diagonals(lo, hi)
           E == Diagonals(Lower(lo), Upper(hi))
           S(d) == Start(f, lo, hi, d)
<1>0. /\ Limits(Lower(lo), Upper(hi), fmid)
      /\ Lower(lo) \in {lo - 1, lo + 1} /\ Upper(hi) \in {hi - 1, hi + 1}
      /\ Lower(lo) = lo - 1 <=> lo > dmin
      /\ Upper(hi) = hi + 1 <=> hi < dmax
  BY LimitsMove
<1>1. /\ top.xoff \in Int /\ top.xlim \in Int /\ top.yoff \in Int /\ top.ylim \in Int
      /\ dmin \in Int /\ dmax \in Int /\ lo \in Int /\ hi \in Int
      /\ Lower(lo) \in Int /\ Upper(hi) \in Int
      /\ dmin <= lo /\ hi <= dmax
  BY <1>0 DEF TopOK, dmin, dmax, Limits
<1>2. \A d \in E :
         /\ d \in Int /\ Lower(lo) <= d /\ d <= Upper(hi) /\ dmin <= d /\ d <= dmax
         /\ d \in DOMAIN g /\ g[d] \in Int
         /\ S(d) \in Int /\ S(d) >= top.xoff /\ S(d) - d >= top.yoff
         /\ d - 1 \in D => S(d) >= f[d - 1] + 1
         /\ d + 1 \in D => S(d) >= f[d + 1]
         /\ \/ d - 1 \in D /\ S(d) = f[d - 1] + 1
            \/ d + 1 \in D /\ S(d) = f[d + 1]
         /\ g[d] >= S(d)
         /\ g[d] > S(d) => g[d] <= top.xlim /\ g[d] - d <= top.ylim
  <2> SUFFICES ASSUME NEW d \in E
               PROVE  /\ d \in Int /\ Lower(lo) <= d /\ d <= Upper(hi)
                      /\ dmin <= d /\ d <= dmax
                      /\ d \in DOMAIN g /\ g[d] \in Int
                      /\ S(d) \in Int /\ S(d) >= top.xoff /\ S(d) - d >= top.yoff
                      /\ d - 1 \in D => S(d) >= f[d - 1] + 1
                      /\ d + 1 \in D => S(d) >= f[d + 1]
                      /\ \/ d - 1 \in D /\ S(d) = f[d - 1] + 1
                         \/ d + 1 \in D /\ S(d) = f[d + 1]
                      /\ g[d] >= S(d)
                      /\ g[d] > S(d) => g[d] <= top.xlim /\ g[d] - d <= top.ylim
    OBVIOUS
  <2>1. g[d] = Extended(f, lo, hi)[d] /\ d \in DOMAIN g
    BY DEF Extended
  <2>2. d \in Int /\ Lower(lo) <= d /\ d <= Upper(hi) /\ dmin <= d /\ d <= dmax
    BY Neighbours DEF Diagonals
  <2> QED
    BY <2>1, <2>2, StartFacts, ExtendedFacts
<1>3. \A d \in D :
         /\ d \in Int /\ lo <= d /\ d <= hi /\ f[d] \in Int
         /\ f[d] > top.xlim /\ d > dmin + 1 => d - 2 >= lo /\ f[d - 2] >= f[d] - 1
         /\ f[d] - d > top.ylim /\ d < dmax - 1 => d + 2 <= hi /\ f[d + 2] >= f[d] + 1
  BY DEF Reached, Diagonals
<1>4. \A d \in Int : d \in D /\ d - 2 >= lo => d - 2 \in D
  BY <1>1 DEF Diagonals
<1>5. \A d \in Int : d \in D /\ d + 2 <= hi => d + 2 \in D
  BY <1>1 DEF Diagonals
<1>6. \A d \in Int : d \in E /\ d - 2 >= Lower(lo) => d - 2 \in E
  BY <1>1 DEF Diagonals
<1>7. \A d \in Int : d \in E /\ d + 2 <= Upper(hi) => d + 2 \in E
  BY <1>1 DEF Diagonals
<1>8. \A d \in E : /\ g[d] \in Int /\ g[d] >= top.xoff /\ g[d] - d >= top.yoff
  BY <1>1, <1>2
<1> HIDE DEF D, E, S
<1>9. ASSUME NEW d \in E, g[d] > top.xlim, d > dmin + 1
      PROVE  d - 2 >= Lower(lo) /\ g[d - 2] >= g[d] - 1
  <2>1. g[d] = S(d)
    BY <1>1, <1>2, <1>9
  <2>2. d - 1 \in D /\ f[d - 1] >= g[d] - 1
    <3>1. CASE d - 1 \in D /\ S(d) = f[d - 1] + 1
      BY <1>1, <1>2, <1>3, <2>1, <3>1
    <3>2. CASE d + 1 \in D /\ S(d) = f[d + 1]
      <4>1. f[d + 1] > top.xlim /\ d + 1 > dmin + 1
        BY <1>1, <1>2, <1>9, <2>1, <3>2
      <4>2. (d + 1) - 2 >= lo /\ f[(d + 1) - 2] >= f[d + 1] - 1
        BY <1>1, <1>2, <1>3, <3>2, <4>1
      <4>3. (d + 1) - 2 = d - 1 /\ d + 1 \in Int
        BY <1>2
      <4> QED
        BY <1>4, <2>1, <3>2, <4>2, <4>3
    <3> QED
      BY <1>2, <3>1, <3>2
  <2>3. d - 2 >= Lower(lo)
    <3>1. (Upper(hi) - d) % 2 = 0 /\ (Upper(hi) - Lower(lo)) % 2 = 0
      BY <1>0 DEF E, Diagonals, Limits
    <3>2. d - 1 >= lo /\ d > dmin + 1 /\ d \in Int
      BY <1>2, <1>3, <1>9, <2>2
    <3> QED
      BY <1>0, <1>1, <3>1, <3>2
  <2>4. d - 2 \in E
    BY <1>2, <1>6, <2>3
  <2>5. S(d - 2) >= f[(d - 2) + 1]
    BY <1>2, <2>2, <2>4
  <2> QED
    BY <1>2, <1>3, <2>2, <2>3, <2>4, <2>5
<1>10. ASSUME NEW d \in E, g[d] - d > top.ylim, d < dmax - 1
       PROVE  d + 2 <= Upper(hi) /\ g[d + 2] >= g[d] + 1
  <2>1. g[d] = S(d)
    BY <1>1, <1>2, <1>10
  <2>2. d + 1 \in D /\ f[d + 1] >= g[d]
    <3>1. CASE d + 1 \in D /\ S(d) = f[d + 1]
      BY <1>1, <1>2, <1>3, <2>1, <3>1
    <3>2. CASE d - 1 \in D /\ S(d) = f[d - 1] + 1
      <4>1. f[d - 1] - (d - 1) > top.ylim /\ d - 1 < dmax - 1
        BY <1>1, <1>2, <1>3, <1>10, <2>1, <3>2
      <4>2. (d - 1) + 2 <= hi /\ f[(d - 1) + 2] >= f[d - 1] + 1
        BY <1>1, <1>2, <1>3, <3>2, <4>1
      <4>3. (d - 1) + 2 = d + 1 /\ d - 1 \in Int
        BY <1>2
      <4> QED
        BY <1>5, <2>1, <3>2, <4>2, <4>3
    <3> QED
      BY <1>2, <3>1, <3>2
  <2>3. d + 2 <= Upper(hi)
    <3>1. (Upper(hi) - d) % 2 = 0 /\ (Upper(hi) - Lower(lo)) % 2 = 0
      BY <1>0 DEF E, Diagonals, Limits
    <3>2. d + 1 <= hi /\ d < dmax - 1 /\ d \in Int
      BY <1>2, <1>3, <1>10, <2>2
    <3> QED
      BY <1>0, <1>1, <3>1, <3>2
  <2>4. d + 2 \in E
    BY <1>2, <1>7, <2>3
  <2>5. S(d + 2) >= f[(d + 2) - 1] + 1
    BY <1>2, <2>2, <2>4
  <2> QED
    BY <1>2, <1>3, <2>2, <2>3, <2>4, <2>5
<1>11. \A d \in E : d \in DOMAIN g
  BY <1>2
<1> QED
  BY <1>8, <1>9, <1>10, <1>11 DEF Reached, E

(* What a backward pass makes of the entries b of the last one *)
StartBack(b, lo, hi, d) == BackwardStart(Bounded(b, lo, hi, OFFSET_MAX), d)
Reduced(b, lo, hi) ==
    [d \in Diagonals(Lower(lo), Upper(hi)) |->
        StartBack(b, lo, hi, d)
        - SnakeUp(StartBack(b, lo, hi, d), StartBack(b, lo, hi, d) - d, top.xoff, top.yoff)]

(* Every diagonal starts from the further one of its neighbours. *)
LEMMA StartBackFacts ==
    ASSUME TopOK, NEW b, NEW lo, NEW hi, Limits(lo, hi, bmid), ReachedBack(b, lo, hi),
           NEW d \in Diagonals(Lower(lo), Upper(hi))
    PROVE  /\ {d - 1, d + 1} \subseteq DOMAIN Bounded(b, lo, hi, OFFSET_MAX)
           /\ StartBack(b, lo, hi, d) \in Int
           /\ StartBack(b, lo, hi, d) <= top.xlim /\ StartBack(b, lo, hi, d) - d <= top.ylim
           /\ d - 1 \in Diagonals(lo, hi) => StartBack(b, lo, hi, d) <= b[d - 1]
           /\ d + 1 \in Diagonals(lo, hi) => StartBack(b, lo, hi, d) <= b[d + 1] - 1
           /\ \/ d - 1 \in Diagonals(lo, hi) /\ StartBack(b, lo, hi, d) = b[d - 1]
              \/ d + 1 \in Diagonals(lo, hi) /\ StartBack(b, lo, hi, d) = b[d + 1] - 1
<1> DEFINE old == Bounded(b, lo, hi, OFFSET_MAX)
           s == StartBack(b, lo, hi, d)
<1>1. /\ d \in Int
      /\ d - 1 \in Diagonals(lo, hi) \/ d + 1 \in Diagonals(lo, hi)
      /\ d - 1 \in Diagonals(lo, hi) \/ (d - 1 = lo - 2 /\ lo > dmin)
      /\ d + 1 \in Diagonals(lo, hi) \/ (d + 1 = hi + 2 /\ hi < dmax)
  BY Neighbours
<1>2. /\ \A e \in Diagonals(lo, hi) : e \in DOMAIN b /\ e \in DOMAIN old /\ old[e] = b[e]
      /\ lo > dmin => lo - 2 \in DOMAIN old /\ old[lo - 2] = OFFSET_MAX
      /\ hi < dmax => hi + 2 \in DOMAIN old /\ old[hi + 2] = OFFSET_MAX
  <2>1. /\ \A e \in DOMAIN b : e \in DOMAIN old /\ (e \in lo..hi => old[e] = b[e])
        /\ lo > dmin => lo - 2 \in DOMAIN old /\ old[lo - 2] = OFFSET_MAX
        /\ hi < dmax => hi + 2 \in DOMAIN old /\ old[hi + 2] = OFFSET_MAX
    <3>1. OFFSET_MAX \in Int /\ old = Bounded(b, lo, hi, OFFSET_MAX) /\ bmid \in {fmid, bmid}
      BY DEF TopOK
    <3> HIDE DEF old
    <3> QED
      BY <3>1, BoundedEntries
  <2>2. \A e \in Diagonals(lo, hi) : e \in DOMAIN b /\ e \in lo..hi
    BY DEF ReachedBack, Diagonals
  <2> HIDE DEF old
  <2> QED
    BY <2>1, <2>2
<1>3. s = IF old[d - 1] < old[d + 1] THEN old[d - 1] ELSE old[d + 1] - 1
  BY DEF StartBack, BackwardStart
<1> HIDE DEF old, s
<1>4. {d - 1, d + 1} \subseteq DOMAIN old
  BY <1>1, <1>2
<1>5. /\ d - 1 \in Diagonals(lo, hi) =>
            old[d - 1] = b[d - 1] /\ b[d - 1] \in Int
            /\ b[d - 1] <= top.xlim /\ b[d - 1] - (d - 1) <= top.ylim
      /\ d + 1 \in Diagonals(lo, hi) =>
            old[d + 1] = b[d + 1] /\ b[d + 1] \in Int
            /\ b[d + 1] <= top.xlim /\ b[d + 1] - (d + 1) <= top.ylim
      /\ d - 1 \notin Diagonals(lo, hi) => old[d - 1] = OFFSET_MAX
      /\ d + 1 \notin Diagonals(lo, hi) => old[d + 1] = OFFSET_MAX
  BY <1>1, <1>2 DEF ReachedBack
<1>6. /\ top.xlim \in Nat /\ top.ylim \in Nat /\ OFFSET_MAX \in Nat /\ top.xlim < OFFSET_MAX
  BY DEF TopOK
<1>7. /\ s \in Int
      /\ s <= top.xlim /\ s - d <= top.ylim
      /\ d - 1 \in Diagonals(lo, hi) => s <= b[d - 1]
      /\ d + 1 \in Diagonals(lo, hi) => s <= b[d + 1] - 1
      /\ \/ d - 1 \in Diagonals(lo, hi) /\ s = b[d - 1]
         \/ d + 1 \in Diagonals(lo, hi) /\ s = b[d + 1] - 1
  BY <1>1, <1>3, <1>5, <1>6
<1> QED
  BY <1>4, <1>7 DEF old, s

(* The same for snakes in the other direction. *)
LEMMA ReducedFacts ==
    ASSUME TopOK, NEW b, NEW lo, NEW hi, Limits(lo, hi, bmid), ReachedBack(b, lo, hi),
           NEW d \in Diagonals(Lower(lo), Upper(hi))
    PROVE  LET s == StartBack(b, lo, hi, d)
               x == Reduced(b, lo, hi)[d]
           IN  /\ x \in Int /\ x <= s
               /\ x < s => x >= top.xoff /\ x - d >= top.yoff
<1> DEFINE s == StartBack(b, lo, hi, d)
           k == SnakeUp(s, s - d, top.xoff, top.yoff)
<1>1. s \in Int
  BY StartBackFacts
<1>2. d \in Int
  BY Neighbours
<1>3. top.xoff \in Int /\ top.yoff \in Int
  BY DEF TopOK
<1>4. Reduced(b, lo, hi)[d] = s - k
  BY DEF Reduced
<1> HIDE DEF s
<1>5. k \in Nat /\ (k > 0 => s - k >= top.xoff /\ (s - d) - k >= top.yoff)
  <2> DEFINE y == s - d
  <2>1. y \in Int
    BY <1>1, <1>2
  <2>2. k = SnakeUp(s, y, top.xoff, top.yoff)
    OBVIOUS
  <2> HIDE DEF y, k
  <2>3. k \in Nat /\ (k > 0 => s - k >= top.xoff /\ y - k >= top.yoff)
    BY <1>1, <1>3, <2>1, <2>2, SnakeUpFacts
  <2> QED
    BY <2>3 DEF y
<1> HIDE DEF k
<1> DEFINE x == Reduced(b, lo, hi)[d]
<1>6. x = s - k
  BY <1>4
<1> HIDE DEF x
<1>7. x \in Int /\ x <= s /\ (x < s => x >= top.xoff /\ x - d >= top.yoff)
  BY <1>1, <1>2, <1>3, <1>5, <1>6
<1> QED
  BY <1>7 DEF s, x

(* A backward pass keeps what ReachedBack says. *)
LEMMA BackwardPass ==
    ASSUME TopOK, NEW b, NEW lo, NEW hi, Limits(lo, hi, bmid), ReachedBack(b, lo, hi),
           NEW g, DOMAIN Reduced(b, lo, hi) \subseteq DOMAIN g,
           \A d \in Diagonals(Lower(lo), Upper(hi)) : g[d] = Reduced(b, lo, hi)[d]
    PROVE  ReachedBack(g, Lower(lo), Upper(hi))
<1> DEFINE D == Diagonals(lo, hi)
           E == Diagonals(Lower(lo), Upper(hi))
           S(d) == StartBack(b, lo, hi, d)
<1>0. /\ Limits(Lower(lo), Upper(hi), bmid)
      /\ Lower(lo) \in {lo - 1, lo + 1} /\ Upper(hi) \in {hi - 1, hi + 1}
      /\ Lower(lo) = lo - 1 <=> lo > dmin
      /\ Upper(hi) = hi + 1 <=> hi < dmax
  BY LimitsMove
<1>1. /\ top.xoff \in Int /\ top.xlim \in Int /\ top.yoff \in Int /\ top.ylim \in Int
      /\ dmin \in Int /\ dmax \in Int /\ lo \in Int /\ hi \in Int
      /\ Lower(lo) \in Int /\ Upper(hi) \in Int
      /\ dmin <= lo /\ hi <= dmax
  BY <1>0 DEF TopOK, dmin, dmax, Limits
<1>2. \A d \in E :
         /\ d \in Int /\ Lower(lo) <= d /\ d <= Upper(hi) /\ dmin <= d /\ d <= dmax
         /\ d \in DOMAIN g /\ g[d] \in Int
         /\ S(d) \in Int /\ S(d) <= top.xlim /\ S(d) - d <= top.ylim
         /\ d - 1 \in D => S(d) <= b[d - 1]
         /\ d + 1 \in D => S(d) <= b[d + 1] - 1
         /\ \/ d - 1 \in D /\ S(d) = b[d - 1]
            \/ d + 1 \in D /\ S(d) = b[d + 1] - 1
         /\ g[d] <= S(d)
         /\ g[d] < S(d) => g[d] >= top.xoff /\ g[d] - d >= top.yoff
  <2> SUFFICES ASSUME NEW d \in E
               PROVE  /\ d \in Int /\ Lower(lo) <= d /\ d <= Upper(hi)
                      /\ dmin <= d /\ d <= dmax
                      /\ d \in DOMAIN g /\ g[d] \in Int
                      /\ S(d) \in Int /\ S(d) <= top.xlim /\ S(d) - d <= top.ylim
                      /\ d - 1 \in D => S(d) <= b[d - 1]
                      /\ d + 1 \in D => S(d) <= b[d + 1] - 1
                      /\ \/ d - 1 \in D /\ S(d) = b[d - 1]
                         \/ d + 1 \in D /\ S(d) = b[d + 1] - 1
                      /\ g[d] <= S(d)
                      /\ g[d] < S(d) => g[d] >= top.xoff /\ g[d] - d >= top.yoff
    OBVIOUS
  <2>1. g[d] = Reduced(b, lo, hi)[d] /\ d \in DOMAIN g
    BY DEF Reduced
  <2>2. d \in Int /\ Lower(lo) <= d /\ d <= Upper(hi) /\ dmin <= d /\ d <= dmax
    BY Neighbours DEF Diagonals
  <2> QED
    BY <2>1, <2>2, StartBackFacts, ReducedFacts
<1>3. \A d \in D :
         /\ d \in Int /\ lo <= d /\ d <= hi /\ b[d] \in Int
         /\ b[d] < top.xoff /\ d < dmax - 1 => d + 2 <= hi /\ b[d + 2] <= b[d] + 1
         /\ b[d] - d < top.yoff /\ d > dmin + 1 => d - 2 >= lo /\ b[d - 2] <= b[d] - 1
  BY DEF ReachedBack, Diagonals
<1>4. \A d \in Int : d \in D /\ d - 2 >= lo => d - 2 \in D
  BY <1>1 DEF Diagonals
<1>5. \A d \in Int : d \in D /\ d + 2 <= hi => d + 2 \in D
  BY <1>1 DEF Diagonals
<1>6. \A d \in Int : d \in E /\ d - 2 >= Lower(lo) => d - 2 \in E
  BY <1>1 DEF Diagonals
<1>7. \A d \in Int : d \in E /\ d + 2 <= Upper(hi) => d + 2 \in E
  BY <1>1 DEF Diagonals
<1>8. \A d \in E : /\ g[d] \in Int /\ g[d] <= top.xlim /\ g[d] - d <= top.ylim
  BY <1>1, <1>2
<1> HIDE DEF D, E, S
<1>9. ASSUME NEW d \in E, g[d] - d < top.yoff, d > dmin + 1
      PROVE  d - 2 >= Lower(lo) /\ g[d - 2] <= g[d] - 1
  <2>1. g[d] = S(d)
    BY <1>1, <1>2, <1>9
  <2>2. d - 1 \in D /\ b[d - 1] <= g[d]
    <3>1. CASE d - 1 \in D /\ S(d) = b[d - 1]
      BY <1>1, <1>2, <1>3, <2>1, <3>1
    <3>2. CASE d + 1 \in D /\ S(d) = b[d + 1] - 1
      <4>1. b[d + 1] - (d + 1) < top.yoff /\ d + 1 > dmin + 1
        BY <1>1, <1>2, <1>3, <1>9, <2>1, <3>2
      <4>2. (d + 1) - 2 >= lo /\ b[(d + 1) - 2] <= b[d + 1] - 1
        BY <1>1, <1>2, <1>3, <3>2, <4>1
      <4>3. (d + 1) - 2 = d - 1 /\ d + 1 \in Int
        BY <1>2
      <4> QED
        BY <1>4, <2>1, <3>2, <4>2, <4>3
    <3> QED
      BY <1>2, <3>1, <3>2
  <2>3. d - 2 >= Lower(lo)
    <3>1. (Upper(hi) - d) % 2 = 0 /\ (Upper(hi) - Lower(lo)) % 2 = 0
      BY <1>0 DEF E, Diagonals, Limits
    <3>2. d - 1 >= lo /\ d > dmin + 1 /\ d \in Int
      BY <1>2, <1>3, <1>9, <2>2
    <3> QED
      BY <1>0, <1>1, <3>1, <3>2
  <2>4. d - 2 \in E
    BY <1>2, <1>6, <2>3
  <2>5. S(d - 2) <= b[(d - 2) + 1] - 1
    BY <1>2, <2>2, <2>4
  <2> QED
    BY <1>2, <1>3, <2>2, <2>3, <2>4, <2>5
<1>10. ASSUME NEW d \in E, g[d] < top.xoff, d < dmax - 1
       PROVE  d + 2 <= Upper(hi) /\ g[d + 2] <= g[d] + 1
  <2>1. g[d] = S(d)
    BY <1>1, <1>2, <1>10
  <2>2. d + 1 \in D /\ b[d + 1] <= g[d] + 1
    <3>1. CASE d + 1 \in D /\ S(d) = b[d + 1] - 1
      BY <1>1, <1>2, <1>3, <2>1, <3>1
    <3>2. CASE d - 1 \in D /\ S(d) = b[d - 1]
      <4>1. b[d - 1] < top.xoff /\ d - 1 < dmax - 1
        BY <1>1, <1>2, <1>3, <1>10, <2>1, <3>2
      <4>2. (d - 1) + 2 <= hi /\ b[(d - 1) + 2] <= b[d - 1] + 1
        BY <1>1, <1>2, <1>3, <3>2, <4>1
      <4>3. (d - 1) + 2 = d + 1 /\ d - 1 \in Int
        BY <1>2
      <4> QED
        BY <1>5, <2>1, <3>2, <4>2, <4>3
    <3> QED
      BY <1>2, <3>1, <3>2
  <2>3. d + 2 <= Upper(hi)
    <3>1. (Upper(hi) - d) % 2 = 0 /\ (Upper(hi) - Lower(lo)) % 2 = 0
      BY <1>0 DEF E, Diagonals, Limits
    <3>2. d + 1 <= hi /\ d < dmax - 1 /\ d \in Int
      BY <1>2, <1>3, <1>10, <2>2
    <3> QED
      BY <1>0, <1>1, <3>1, <3>2
  <2>4. d + 2 \in E
    BY <1>2, <1>7, <2>3
  <2>5. S(d + 2) <= b[(d + 2) - 1]
    BY <1>2, <2>2, <2>4
  <2> QED
    BY <1>2, <1>3, <2>2, <2>3, <2>4, <2>5
<1>11. \A d \in E : d \in DOMAIN g
  BY <1>2
<1> QED
  BY <1>8, <1>9, <1>10, <1>11 DEF ReachedBack, E

-----------------------------------------------------------------------------
(* The searches have not met *)

(* On a diagonal that the other search has reached, or next to one, an     *)
(* entry is inside the rectangle.                                          *)
Inside(f, flo, fhi, blo, bhi) ==
    \A e \in Diagonals(flo, fhi) :
        e \in blo..bhi => f[e] < top.xlim /\ f[e] - e < top.ylim
Near(f, flo, fhi, blo, bhi) ==
    \A e \in Diagonals(flo, fhi) :
        /\ e + 1 \in blo..bhi => f[e] < top.xlim /\ f[e] - e <= top.ylim
        /\ e - 1 \in blo..bhi => f[e] <= top.xlim /\ f[e] - e < top.ylim
InsideBack(b, blo, bhi, flo, fhi) ==
    \A e \in Diagonals(blo, bhi) :
        e \in flo..fhi => b[e] > top.xoff /\ b[e] - e > top.yoff
NearBack(b, blo, bhi, flo, fhi) ==
    \A e \in Diagonals(blo, bhi) :
        /\ e + 1 \in flo..fhi => b[e] >= top.xoff /\ b[e] - e > top.yoff
        /\ e - 1 \in flo..fhi => b[e] > top.xoff /\ b[e] - e >= top.yoff

(* The limits of the other search move by one: an entry beyond an edge     *)
(* would have a neighbour on a diagonal where it was inside.               *)
LEMMA StaysNear ==
    ASSUME TopOK, NEW f, NEW flo, NEW fhi, Limits(flo, fhi, fmid), Reached(f, flo, fhi),
           NEW blo, NEW bhi, Limits(blo, bhi, bmid), (fhi - bhi) % 2 = 0,
           Inside(f, flo, fhi, blo, bhi)
    PROVE  Near(f, flo, fhi, Lower(blo), Upper(bhi))
<1>1. /\ Lower(blo) \in {blo - 1, blo + 1} /\ Upper(bhi) \in {bhi - 1, bhi + 1}
      /\ blo \in Int /\ bhi \in Int /\ flo \in Int /\ fhi \in Int
      /\ blo <= bmid /\ bmid <= bhi
      /\ (bhi - blo) % 2 = 0 /\ (fhi - flo) % 2 = 0
  BY LimitsMove DEF Limits
<1>2. /\ top.xoff \in Int /\ top.xlim \in Int /\ top.yoff \in Int /\ top.ylim \in Int
      /\ bmid = top.xlim - top.ylim
      /\ dmin \in Int /\ dmax \in Int /\ dmin < bmid /\ bmid < dmax
  BY DEF TopOK, dmin, dmax, bmid
<1>3. ASSUME NEW e \in Diagonals(flo, fhi)
      PROVE  /\ e \in Int /\ (bhi - e) % 2 = 0 /\ f[e] \in Int
             /\ e + 2 <= fhi => e + 2 \in Diagonals(flo, fhi)
             /\ e - 2 >= flo => e - 2 \in Diagonals(flo, fhi)
             /\ f[e] > top.xlim /\ e > dmin + 1 => e - 2 >= flo /\ f[e - 2] >= f[e] - 1
             /\ f[e] - e > top.ylim /\ e < dmax - 1 => e + 2 <= fhi /\ f[e + 2] >= f[e] + 1
  <2>1. e \in Int /\ (fhi - e) % 2 = 0 /\ flo <= e /\ e <= fhi
    BY <1>1 DEF Diagonals
  <2>2. (bhi - e) % 2 = 0
    BY <1>1, <2>1
  <2>3. /\ e + 2 <= fhi => e + 2 \in Diagonals(flo, fhi)
        /\ e - 2 >= flo => e - 2 \in Diagonals(flo, fhi)
    BY <1>1, <2>1 DEF Diagonals
  <2> QED
    BY <2>1, <2>2, <2>3 DEF Reached
<1>4. ASSUME NEW e \in Diagonals(flo, fhi), e + 1 \in Lower(blo)..Upper(bhi)
      PROVE  f[e] < top.xlim /\ f[e] - e <= top.ylim
  <2>1. CASE e \in blo..bhi
    BY <1>2, <1>3, <2>1 DEF Inside
  <2>2. CASE e \notin blo..bhi
    <3>1. e = blo - 2
      BY <1>1, <1>3, <1>4, <2>2
    <3>2. e + 2 = blo /\ blo \in blo..bhi /\ e < dmax - 1
      BY <1>1, <1>2, <3>1
    <3>3. ASSUME f[e] - e > top.ylim PROVE FALSE
      <4>1. blo \in Diagonals(flo, fhi) /\ f[blo] >= f[e] + 1
        BY <1>3, <3>2, <3>3
      <4>2. f[blo] - blo < top.ylim /\ f[blo] \in Int
        BY <1>3, <3>2, <4>1 DEF Inside
      <4> QED
        BY <1>1, <1>2, <1>3, <3>1, <3>3, <4>1, <4>2
    <3> QED
      BY <1>1, <1>2, <1>3, <3>1, <3>3
  <2> QED
    BY <2>1, <2>2
<1>5. ASSUME NEW e \in Diagonals(flo, fhi), e - 1 \in Lower(blo)..Upper(bhi)
      PROVE  f[e] <= top.xlim /\ f[e] - e < top.ylim
  <2>1. CASE e \in blo..bhi
    BY <1>2, <1>3, <2>1 DEF Inside
  <2>2. CASE e \notin blo..bhi
    <3>1. e = bhi + 2
      <4>1. e \in Int /\ (bhi - e) % 2 = 0
        BY <1>3
      <4>2. e >= blo /\ e <= bhi + 2
        BY <1>1, <1>5, <4>1
      <4>3. e > bhi
        BY <1>1, <2>2, <4>1, <4>2
      <4>4. e # bhi + 1
        BY <1>1, <4>1
      <4> QED
        BY <1>1, <4>1, <4>2, <4>3, <4>4
    <3>2. e - 2 = bhi /\ bhi \in blo..bhi /\ e > dmin + 1
      BY <1>1, <1>2, <3>1
    <3>3. ASSUME f[e] > top.xlim PROVE FALSE
      <4>1. bhi \in Diagonals(flo, fhi) /\ f[bhi] >= f[e] - 1
        BY <1>3, <3>2, <3>3
      <4>2. f[bhi] < top.xlim /\ f[bhi] \in Int
        BY <1>3, <3>2, <4>1 DEF Inside
      <4> QED
        BY <1>1, <1>2, <1>3, <3>1, <3>3, <4>1, <4>2
    <3> QED
      BY <1>1, <1>2, <1>3, <3>1, <3>3
  <2> QED
    BY <2>1, <2>2
<1> QED
  BY <1>4, <1>5 DEF Near

(* The same for an entry of bdiag, when the limits of the forward search
   move. *)
LEMMA StaysNearBack ==
    ASSUME TopOK, NEW b, NEW blo, NEW bhi, Limits(blo, bhi, bmid), ReachedBack(b, blo, bhi),
           NEW flo, NEW fhi, Limits(flo, fhi, fmid), (fhi - bhi) % 2 = 0,
           InsideBack(b, blo, bhi, flo, fhi)
    PROVE  NearBack(b, blo, bhi, Lower(flo), Upper(fhi))
<1>1. /\ Lower(flo) \in {flo - 1, flo + 1} /\ Upper(fhi) \in {fhi - 1, fhi + 1}
      /\ blo \in Int /\ bhi \in Int /\ flo \in Int /\ fhi \in Int
      /\ flo <= fmid /\ fmid <= fhi
      /\ (bhi - blo) % 2 = 0 /\ (fhi - flo) % 2 = 0
  BY LimitsMove DEF Limits
<1>2. /\ top.xoff \in Int /\ top.xlim \in Int /\ top.yoff \in Int /\ top.ylim \in Int
      /\ fmid = top.xoff - top.yoff
      /\ dmin \in Int /\ dmax \in Int /\ dmin < fmid /\ fmid < dmax
  BY DEF TopOK, dmin, dmax, fmid
<1>3. ASSUME NEW e \in Diagonals(blo, bhi)
      PROVE  /\ e \in Int /\ (fhi - e) % 2 = 0 /\ b[e] \in Int
             /\ e + 2 <= bhi => e + 2 \in Diagonals(blo, bhi)
             /\ e - 2 >= blo => e - 2 \in Diagonals(blo, bhi)
             /\ b[e] < top.xoff /\ e < dmax - 1 => e + 2 <= bhi /\ b[e + 2] <= b[e] + 1
             /\ b[e] - e < top.yoff /\ e > dmin + 1 => e - 2 >= blo /\ b[e - 2] <= b[e] - 1
  <2>1. e \in Int /\ (bhi - e) % 2 = 0 /\ blo <= e /\ e <= bhi
    BY <1>1 DEF Diagonals
  <2>2. (fhi - e) % 2 = 0
    BY <1>1, <2>1
  <2>3. /\ e + 2 <= bhi => e + 2 \in Diagonals(blo, bhi)
        /\ e - 2 >= blo => e - 2 \in Diagonals(blo, bhi)
    BY <1>1, <2>1 DEF Diagonals
  <2> QED
    BY <2>1, <2>2, <2>3 DEF ReachedBack
<1>4. ASSUME NEW e \in Diagonals(blo, bhi), e + 1 \in Lower(flo)..Upper(fhi)
      PROVE  b[e] >= top.xoff /\ b[e] - e > top.yoff
  <2>1. CASE e \in flo..fhi
    BY <1>2, <1>3, <2>1 DEF InsideBack
  <2>2. CASE e \notin flo..fhi
    <3>1. e = flo - 2
      BY <1>1, <1>3, <1>4, <2>2
    <3>2. e + 2 = flo /\ flo \in flo..fhi /\ e < dmax - 1
      BY <1>1, <1>2, <3>1
    <3>3. ASSUME b[e] < top.xoff PROVE FALSE
      <4>1. flo \in Diagonals(blo, bhi) /\ b[flo] <= b[e] + 1
        BY <1>3, <3>2, <3>3
      <4>2. b[flo] > top.xoff /\ b[flo] \in Int
        BY <1>3, <3>2, <4>1 DEF InsideBack
      <4> QED
        BY <1>1, <1>2, <1>3, <3>1, <3>3, <4>1, <4>2
    <3> QED
      BY <1>1, <1>2, <1>3, <3>1, <3>3
  <2> QED
    BY <2>1, <2>2
<1>5. ASSUME NEW e \in Diagonals(blo, bhi), e - 1 \in Lower(flo)..Upper(fhi)
      PROVE  b[e] > top.xoff /\ b[e] - e >= top.yoff
  <2>1. CASE e \in flo..fhi
    BY <1>2, <1>3, <2>1 DEF InsideBack
  <2>2. CASE e \notin flo..fhi
    <3>1. e = fhi + 2
      BY <1>1, <1>3, <1>5, <2>2
    <3>2. e - 2 = fhi /\ fhi \in flo..fhi /\ e > dmin + 1
      BY <1>1, <1>2, <3>1
    <3>3. ASSUME b[e] - e < top.yoff PROVE FALSE
      <4>1. fhi \in Diagonals(blo, bhi) /\ b[fhi] <= b[e] - 1
        BY <1>3, <3>2, <3>3
      <4>2. b[fhi] - fhi > top.yoff /\ b[fhi] \in Int
        BY <1>3, <3>2, <4>1 DEF InsideBack
      <4> QED
        BY <1>1, <1>2, <1>3, <3>1, <3>3, <4>1, <4>2
    <3> QED
      BY <1>1, <1>2, <1>3, <3>1, <3>3
  <2> QED
    BY <2>1, <2>2
<1> QED
  BY <1>4, <1>5 DEF NearBack

(* Where the searches meet is inside the rectangle. *)
LEMMA MeetsInside ==
    ASSUME TopOK, NEW f, NEW lo, NEW hi, Limits(lo, hi, fmid), Reached(f, lo, hi),
           NEW blo \in Int, NEW bhi \in Int, Near(f, lo, hi, blo, bhi),
           NEW d \in Diagonals(Lower(lo), Upper(hi)), d \in blo..bhi
    PROVE  /\ Extended(f, lo, hi)[d] \in top.xoff..top.xlim
           /\ Extended(f, lo, hi)[d] - d \in top.yoff..top.ylim
<1> DEFINE s == Start(f, lo, hi, d)
           x == Extended(f, lo, hi)[d]
           D == Diagonals(lo, hi)
<1>1. /\ s \in Int /\ s >= top.xoff /\ s - d >= top.yoff
      /\ \/ d - 1 \in D /\ s = f[d - 1] + 1
         \/ d + 1 \in D /\ s = f[d + 1]
  BY StartFacts
<1>2. /\ x \in Int /\ x >= s
      /\ x > s => x <= top.xlim /\ x - d <= top.ylim
  BY ExtendedFacts
<1>3. /\ top.xoff \in Int /\ top.xlim \in Int /\ top.yoff \in Int /\ top.ylim \in Int
  BY DEF TopOK
<1>4. d \in Int /\ (d - 1) + 1 = d /\ (d + 1) - 1 = d
  OBVIOUS
<1>5. /\ d - 1 \in D => f[d - 1] \in Int /\ f[d - 1] < top.xlim /\ f[d - 1] - (d - 1) <= top.ylim
      /\ d + 1 \in D => f[d + 1] \in Int /\ f[d + 1] <= top.xlim /\ f[d + 1] - (d + 1) < top.ylim
  BY <1>4 DEF Near, Reached
<1> HIDE DEF s, x, D
<1>6. x \in top.xoff..top.xlim /\ x - d \in top.yoff..top.ylim
  BY <1>1, <1>2, <1>3, <1>4, <1>5
<1> QED
  BY <1>6 DEF x

(* The same for the backward pass. *)
LEMMA MeetsInsideBack ==
    ASSUME TopOK, NEW b, NEW lo, NEW hi, Limits(lo, hi, bmid), ReachedBack(b, lo, hi),
           NEW flo \in Int, NEW fhi \in Int, NearBack(b, lo, hi, flo, fhi),
           NEW d \in Diagonals(Lower(lo), Upper(hi)), d \in flo..fhi
    PROVE  /\ Reduced(b, lo, hi)[d] \in top.xoff..top.xlim
           /\ Reduced(b, lo, hi)[d] - d \in top.yoff..top.ylim
<1> DEFINE s == StartBack(b, lo, hi, d)
           x == Reduced(b, lo, hi)[d]
           D == Diagonals(lo, hi)
<1>1. /\ s \in Int /\ s <= top.xlim /\ s - d <= top.ylim
      /\ \/ d - 1 \in D /\ s = b[d - 1]
         \/ d + 1 \in D /\ s = b[d + 1] - 1
  BY StartBackFacts
<1>2. /\ x \in Int /\ x <= s
      /\ x < s => x >= top.xoff /\ x - d >= top.yoff
  BY ReducedFacts
<1>3. /\ top.xoff \in Int /\ top.xlim \in Int /\ top.yoff \in Int /\ top.ylim \in Int
  BY DEF TopOK
<1>4. d \in Int /\ (d - 1) + 1 = d /\ (d + 1) - 1 = d
  OBVIOUS
<1>5. /\ d - 1 \in D => b[d - 1] \in Int /\ b[d - 1] >= top.xoff /\ b[d - 1] - (d - 1) > top.yoff
      /\ d + 1 \in D => b[d + 1] \in Int /\ b[d + 1] > top.xoff /\ b[d + 1] - (d + 1) >= top.yoff
  BY <1>4 DEF NearBack, ReachedBack
<1> HIDE DEF s, x, D
<1>6. x \in top.xoff..top.xlim /\ x - d \in top.yoff..top.ylim
  BY <1>1, <1>2, <1>3, <1>4, <1>5
<1> QED
  BY <1>6 DEF x

-----------------------------------------------------------------------------
(* The entries that a pass leaves *)

(* Entries written over others *)
LEMMA WriteFacts ==
    ASSUME NEW f, NEW g
    PROVE  /\ DOMAIN Write(f, g) = DOMAIN f \cup DOMAIN g
           /\ \A d \in DOMAIN g : d \in DOMAIN Write(f, g) /\ Write(f, g)[d] = g[d]
BY DEF Write

(* The rectangle is a part of the vectors. *)
Placed == /\ TopOK /\ top.xlim <= Len(xvec) /\ top.ylim <= Len(yvec)
          /\ Len(xvec) \in Nat /\ Len(yvec) \in Nat

(* The entries of a pass are allocated, the ones outside its limits too. *)
LEMMA InAllocation ==
    ASSUME Placed, NEW f, DOMAIN f \subseteq Allocated, NEW lo, NEW hi,
           NEW mid \in {fmid, bmid}, Limits(lo, hi, mid), NEW outside
    PROVE  /\ DOMAIN Bounded(f, lo, hi, outside) \subseteq Allocated
           /\ Diagonals(Lower(lo), Upper(hi)) \subseteq Allocated
<1>1. dmin \in Int /\ dmax \in Int /\ -Len(yvec) <= dmin /\ dmax <= Len(xvec)
  <2> DEFINE xo == top.xoff
             xl == top.xlim
             yo == top.yoff
             yl == top.ylim
  <2>1. /\ xo \in Nat /\ xl \in Nat /\ yo \in Nat /\ yl \in Nat
        /\ xl <= Len(xvec) /\ yl <= Len(yvec)
    BY DEF Placed, TopOK
  <2>2. Len(xvec) \in Nat /\ Len(yvec) \in Nat
    BY DEF Placed
  <2>3. dmin = xo - yl /\ dmax = xl - yo
    BY DEF dmin, dmax
  <2> HIDE DEF xo, xl, yo, yl
  <2> QED
    BY <2>1, <2>2, <2>3
<1>2. \A d \in Int : dmin - 1 <= d /\ d <= dmax + 1 => d \in Allocated
  <2>1. Len(xvec) \in Nat /\ Len(yvec) \in Nat
    BY DEF Placed
  <2> QED
    BY <1>1, <2>1 DEF Allocated
<1>3. lo \in Int /\ hi \in Int /\ dmin <= lo /\ hi <= dmax /\ lo <= hi
  BY <1>1 DEF Limits, Placed, TopOK, fmid, bmid
<1>4. /\ lo > dmin => lo - 2 \in Allocated
      /\ hi < dmax => hi + 2 \in Allocated
  BY <1>1, <1>2, <1>3
<1>5. DOMAIN Bounded(f, lo, hi, outside) \subseteq Allocated
  <2> DEFINE S == (IF lo > dmin THEN {lo - 2} ELSE {}) \cup (IF hi < dmax THEN {hi + 2} ELSE {})
             h == [d \in S |-> outside]
  <2>1. S \subseteq Allocated
    BY <1>4
  <2>2. Bounded(f, lo, hi, outside) = Write(f, h)
    BY DEF Bounded
  <2> HIDE DEF S
  <2>3. DOMAIN h = S
    OBVIOUS
  <2> HIDE DEF h
  <2>4. DOMAIN Write(f, h) = DOMAIN f \cup S
    BY <2>3, WriteFacts
  <2> QED
    BY <2>1, <2>2, <2>4
<1>6. Limits(Lower(lo), Upper(hi), mid)
  BY LimitsMove DEF Placed
<1>7. Diagonals(Lower(lo), Upper(hi)) \subseteq Allocated
  <2> SUFFICES ASSUME NEW d \in Diagonals(Lower(lo), Upper(hi)) PROVE d \in Allocated
    OBVIOUS
  <2>1. Lower(lo) \in Int /\ Upper(hi) \in Int /\ dmin <= Lower(lo) /\ Upper(hi) <= dmax
    BY <1>6 DEF Limits
  <2>2. d \in Int /\ Lower(lo) <= d /\ d <= Upper(hi)
    BY <2>1 DEF Diagonals
  <2> QED
    BY <1>1, <1>2, <2>1, <2>2
<1> QED
  BY <1>5, <1>7

(* fdiag and bdiag after a pass *)
NewForward(f, lo, hi) == Write(Bounded(f, lo, hi, -1), Extended(f, lo, hi))
NewBackward(b, lo, hi) == Write(Bounded(b, lo, hi, OFFSET_MAX), Reduced(b, lo, hi))

(* fdiag after a forward pass *)
LEMMA NewForwardFacts ==
    ASSUME Placed, NEW f, NEW lo, NEW hi, Limits(lo, hi, fmid), Reached(f, lo, hi),
           DOMAIN f \subseteq Allocated
    PROVE  /\ Reached(NewForward(f, lo, hi), Lower(lo), Upper(hi))
           /\ DOMAIN NewForward(f, lo, hi) \subseteq Allocated
           /\ \A d \in Diagonals(Lower(lo), Upper(hi)) :
                 NewForward(f, lo, hi)[d] = Extended(f, lo, hi)[d]
<1> DEFINE g == NewForward(f, lo, hi)
           old == Bounded(f, lo, hi, -1)
           E == Diagonals(Lower(lo), Upper(hi))
<1>1. DOMAIN Extended(f, lo, hi) = E
  BY DEF Extended
<1>2. /\ DOMAIN g = DOMAIN old \cup E
      /\ \A d \in E : d \in DOMAIN g /\ g[d] = Extended(f, lo, hi)[d]
  BY <1>1, WriteFacts DEF NewForward
<1>3. DOMAIN old \subseteq Allocated /\ E \subseteq Allocated
  <2> DEFINE m == -1
             mid == fmid
  <2>1. mid \in {fmid, bmid} /\ Limits(lo, hi, mid)
    OBVIOUS
  <2> HIDE DEF m, mid
  <2>2. DOMAIN Bounded(f, lo, hi, m) \subseteq Allocated /\ E \subseteq Allocated
    BY <2>1, InAllocation
  <2> QED
    BY <2>2 DEF m
<1> HIDE DEF g, old, E
<1>4. DOMAIN g \subseteq Allocated
  BY <1>2, <1>3
<1>5. Reached(g, Lower(lo), Upper(hi))
  <2>1. DOMAIN Extended(f, lo, hi) \subseteq DOMAIN g
    BY <1>1, <1>2
  <2>2. \A d \in Diagonals(Lower(lo), Upper(hi)) : g[d] = Extended(f, lo, hi)[d]
    BY <1>2 DEF E
  <2>3. TopOK
    BY DEF Placed
  <2> QED
    BY <2>1, <2>2, <2>3, ForwardPass
<1> QED
  BY <1>2, <1>4, <1>5 DEF g, E

(* bdiag after a backward pass *)
LEMMA NewBackwardFacts ==
    ASSUME Placed, NEW b, NEW lo, NEW hi, Limits(lo, hi, bmid), ReachedBack(b, lo, hi),
           DOMAIN b \subseteq Allocated
    PROVE  /\ ReachedBack(NewBackward(b, lo, hi), Lower(lo), Upper(hi))
           /\ DOMAIN NewBackward(b, lo, hi) \subseteq Allocated
           /\ \A d \in Diagonals(Lower(lo), Upper(hi)) :
                 NewBackward(b, lo, hi)[d] = Reduced(b, lo, hi)[d]
<1> DEFINE g == NewBackward(b, lo, hi)
           old == Bounded(b, lo, hi, OFFSET_MAX)
           E == Diagonals(Lower(lo), Upper(hi))
<1>1. DOMAIN Reduced(b, lo, hi) = E
  BY DEF Reduced
<1>2. /\ DOMAIN g = DOMAIN old \cup E
      /\ \A d \in E : d \in DOMAIN g /\ g[d] = Reduced(b, lo, hi)[d]
  BY <1>1, WriteFacts DEF NewBackward
<1>3. DOMAIN old \subseteq Allocated /\ E \subseteq Allocated
  <2> DEFINE mid == bmid
  <2>1. mid \in {fmid, bmid} /\ Limits(lo, hi, mid)
    OBVIOUS
  <2> HIDE DEF mid
  <2> QED
    BY <2>1, InAllocation
<1> HIDE DEF g, old, E
<1>4. DOMAIN g \subseteq Allocated
  BY <1>2, <1>3
<1>5. ReachedBack(g, Lower(lo), Upper(hi))
  <2>1. DOMAIN Reduced(b, lo, hi) \subseteq DOMAIN g
    BY <1>1, <1>2
  <2>2. \A d \in Diagonals(Lower(lo), Upper(hi)) : g[d] = Reduced(b, lo, hi)[d]
    BY <1>2 DEF E
  <2>3. TopOK
    BY DEF Placed
  <2> QED
    BY <2>1, <2>2, <2>3, BackwardPass
<1> QED
  BY <1>2, <1>4, <1>5 DEF g, E

(* The forward pass in these terms *)
LEMMA ForwardIs ==
    ASSUME Forward
    PROVE  LET lo == Lower(search.fmin)
               hi == Upper(search.fmax)
               g == NewForward(search.fd, search.fmin, search.fmax)
               met == {d \in Diagonals(lo, hi) : /\ odd
                                                 /\ search.bmin <= d /\ d <= search.bmax
                                                 /\ search.bd[d] <= g[d]}
           IN  /\ met # {} => Partition(g[Max(met)], g[Max(met)] - Max(met), TRUE, TRUE)
               /\ met = {} => /\ \E z : search' = [search EXCEPT !.fmin = lo, !.fmax = hi,
                                                        !.fd = g, !.big_snake = z]
                              /\ phase' = "backward" /\ stack' = stack
<1> DEFINE old == Bounded(search.fd, search.fmin, search.fmax, -1)
           D == Diagonals(Lower(search.fmin), Upper(search.fmax))
           snake == [d \in D |->
                       LET x0 == ForwardStart(old, d)
                       IN  SnakeDown(x0, x0 - d, top.xlim, top.ylim)]
           ext == [d \in D |-> ForwardStart(old, d) + snake[d]]
<1>1. ext = Extended(search.fd, search.fmin, search.fmax)
  <2>1. \A d \in D : snake[d] = SnakeDown(ForwardStart(old, d), ForwardStart(old, d) - d,
                                          top.xlim, top.ylim)
    OBVIOUS
  <2> HIDE DEF snake, D, old
  <2>2. ext = [d \in D |-> ForwardStart(old, d)
                 + SnakeDown(ForwardStart(old, d), ForwardStart(old, d) - d,
                             top.xlim, top.ylim)]
    BY <2>1
  <2> QED
    BY <2>2 DEF Extended, Start, D, old
<1>2. Write(old, ext) = NewForward(search.fd, search.fmin, search.fmax)
  <2> HIDE DEF ext, old
  <2> QED
    BY <1>1 DEF NewForward, old
<1> DEFINE fd == Write(old, ext)
           met == {d \in D : /\ odd /\ search.bmin <= d /\ d <= search.bmax
                             /\ search.bd[d] <= fd[d]}
           big == \E d \in D : snake[d] > SNAKE_LIMIT
<1>3. IF met # {}
      THEN Partition(fd[Max(met)], fd[Max(met)] - Max(met), TRUE, TRUE)
      ELSE /\ search' = [search EXCEPT !.fmin = Lower(search.fmin), !.fmax = Upper(search.fmax),
                                       !.fd = fd, !.big_snake = big]
           /\ phase' = "backward"
           /\ UNCHANGED stack
  BY DEF Forward
<1> HIDE DEF ext, old, snake, big
<1>4. \/ met # {} /\ Partition(fd[Max(met)], fd[Max(met)] - Max(met), TRUE, TRUE)
      \/ met = {} /\ /\ \E z : search' = [search EXCEPT !.fmin = Lower(search.fmin),
                                                 !.fmax = Upper(search.fmax),
                                                 !.fd = fd, !.big_snake = z]
                     /\ phase' = "backward" /\ stack' = stack
  BY <1>3
<1> QED
  BY <1>2, <1>4

(* The backward pass in these terms *)
LEMMA BackwardIs ==
    ASSUME Backward
    PROVE  LET lo == Lower(search.bmin)
               hi == Upper(search.bmax)
               g == NewBackward(search.bd, search.bmin, search.bmax)
               met == {d \in Diagonals(lo, hi) : /\ ~odd
                                                 /\ search.fmin <= d /\ d <= search.fmax
                                                 /\ g[d] <= search.fd[d]}
           IN  /\ met # {} => Partition(g[Max(met)], g[Max(met)] - Max(met), TRUE, TRUE)
               /\ met = {} => /\ \E z : search' = [search EXCEPT !.bmin = lo, !.bmax = hi,
                                                        !.bd = g, !.big_snake = z,
                                      !.c = IF top.find_minimal THEN @ + 1 ELSE @]
                              /\ phase' \in {"forward", "heuristic"} /\ stack' = stack
<1> DEFINE old == Bounded(search.bd, search.bmin, search.bmax, OFFSET_MAX)
           D == Diagonals(Lower(search.bmin), Upper(search.bmax))
           snake == [d \in D |->
                       LET x0 == BackwardStart(old, d)
                       IN  SnakeUp(x0, x0 - d, top.xoff, top.yoff)]
           red == [d \in D |-> BackwardStart(old, d) - snake[d]]
<1>1. red = Reduced(search.bd, search.bmin, search.bmax)
  <2>1. \A d \in D : snake[d] = SnakeUp(BackwardStart(old, d), BackwardStart(old, d) - d,
                                        top.xoff, top.yoff)
    OBVIOUS
  <2> HIDE DEF snake, D, old
  <2>2. red = [d \in D |-> BackwardStart(old, d)
                 - SnakeUp(BackwardStart(old, d), BackwardStart(old, d) - d,
                           top.xoff, top.yoff)]
    BY <2>1
  <2> QED
    BY <2>2 DEF Reduced, StartBack, D, old
<1>2. Write(old, red) = NewBackward(search.bd, search.bmin, search.bmax)
  <2> HIDE DEF red, old
  <2> QED
    BY <1>1 DEF NewBackward, old
<1> DEFINE bd == Write(old, red)
           met == {d \in D : /\ ~odd /\ search.fmin <= d /\ d <= search.fmax
                             /\ bd[d] <= search.fd[d]}
           big == search.big_snake \/ \E d \in D : snake[d] > SNAKE_LIMIT
<1>3. IF met # {}
      THEN Partition(bd[Max(met)], bd[Max(met)] - Max(met), TRUE, TRUE)
      ELSE /\ search' = [search EXCEPT !.bmin = Lower(search.bmin), !.bmax = Upper(search.bmax),
                                       !.bd = bd, !.big_snake = @ \/ \E d \in D : snake[d] > SNAKE_LIMIT,
                                       !.c = IF top.find_minimal THEN @ + 1 ELSE @]
           /\ phase' \in {"forward", "heuristic"}
           /\ UNCHANGED stack
  BY DEF Backward
<1> HIDE DEF red, old
<1>4. \/ met # {} /\ Partition(bd[Max(met)], bd[Max(met)] - Max(met), TRUE, TRUE)
      \/ met = {} /\ /\ search' = [search EXCEPT !.bmin = Lower(search.bmin),
                                        !.bmax = Upper(search.bmax),
                                        !.bd = bd, !.big_snake = big,
                                        !.c = IF top.find_minimal THEN @ + 1 ELSE @]
                     /\ phase' \in {"forward", "heuristic"} /\ stack' = stack
  BY <1>3
<1> HIDE DEF snake, big
<1> QED
  BY <1>2, <1>4

-----------------------------------------------------------------------------
(* The diagonals that both searches are on *)

(* Limits that move by one change their parity. *)
LEMMA ParityMoves ==
    ASSUME NEW h \in Int, NEW u \in {h - 1, h + 1}, NEW v \in Int, NEW p \in Int
    PROVE  /\ (h - v) % 2 = p % 2 => (u - v) % 2 # p % 2
           /\ (v - h) % 2 = p % 2 => (v - u) % 2 # p % 2
           /\ (h - v) % 2 # p % 2 => (u - v) % 2 = p % 2
           /\ (v - h) % 2 # p % 2 => (v - u) % 2 = p % 2
OBVIOUS

(* Parity is transitive. *)
LEMMA ParitiesMeet ==
    ASSUME NEW h \in Int, NEW v \in Int, NEW e \in Int
    PROVE  /\ (h - v) % 2 = 0 /\ (h - e) % 2 = 0 => (v - e) % 2 = 0
           /\ (h - v) % 2 = 0 /\ (v - e) % 2 = 0 => (h - e) % 2 = 0
OBVIOUS

(* A pass that may meet the other search is on the same diagonals.         *)
LEMMA SharedDiagonal ==
    ASSUME NEW blo \in Int, NEW bhi \in Int, NEW flo \in Int, NEW fhi \in Int,
           NEW u \in {fhi - 1, fhi + 1}, (fhi - bhi) % 2 = 1,
           NEW e \in Diagonals(flo, u), e \in blo..bhi
    PROVE  e \in Diagonals(blo, bhi)
<1>1. (u - e) % 2 = 0 /\ e \in Int /\ u \in Int
  BY DEF Diagonals
<1>2. (u - bhi) % 2 # 1 % 2
  BY ParityMoves
<1>3. (u - bhi) % 2 = 0
  BY <1>1, <1>2
<1>4. (bhi - e) % 2 = 0
  BY <1>1, <1>3, ParitiesMeet
<1> QED
  BY <1>4 DEF Diagonals

(* The same when the other search has moved *)
LEMMA SharedDiagonalBack ==
    ASSUME NEW blo \in Int, NEW bhi \in Int, NEW flo \in Int, NEW fhi \in Int,
           NEW u \in {bhi - 1, bhi + 1}, (fhi - bhi) % 2 # 0,
           NEW e \in Diagonals(blo, u), e \in flo..fhi
    PROVE  e \in Diagonals(flo, fhi)
<1>1. (u - e) % 2 = 0 /\ e \in Int /\ u \in Int
  BY DEF Diagonals
<1>2. (fhi - u) % 2 = 0 % 2
  BY ParityMoves
<1>3. (fhi - u) % 2 = 0
  BY <1>1, <1>2
<1>4. (fhi - e) % 2 = 0
  BY <1>1, <1>3, ParitiesMeet
<1> QED
  BY <1>4 DEF Diagonals

----------------------------------------------------------------------------
(* The two searches before a forward and before a backward pass: which one  *)
(* is near the other, and which one has not met it, depends on the parity.  *)

BeforeForward(f, flo, fhi, b, blo, bhi) ==
    /\ Limits(flo, fhi, fmid) /\ Limits(blo, bhi, bmid)
    /\ Reached(f, flo, fhi) /\ ReachedBack(b, blo, bhi)
    /\ DOMAIN f \subseteq Allocated /\ DOMAIN b \subseteq Allocated
    /\ (fhi - bhi) % 2 = (fmid - bmid) % 2
    /\ odd => Near(f, flo, fhi, blo, bhi)
    /\ ~odd => InsideBack(b, blo, bhi, flo, fhi)

BeforeBackward(f, flo, fhi, b, blo, bhi) ==
    /\ Limits(flo, fhi, fmid) /\ Limits(blo, bhi, bmid)
    /\ Reached(f, flo, fhi) /\ ReachedBack(b, blo, bhi)
    /\ DOMAIN f \subseteq Allocated /\ DOMAIN b \subseteq Allocated
    /\ (fhi - bhi) % 2 # (fmid - bmid) % 2
    /\ odd => Inside(f, flo, fhi, blo, bhi)
    /\ ~odd => NearBack(b, blo, bhi, flo, fhi)

(* The limits are diagonals. *)
LEMMA LimitTypes ==
    ASSUME TopOK, NEW flo, NEW fhi, NEW blo, NEW bhi,
           Limits(flo, fhi, fmid), Limits(blo, bhi, bmid)
    PROVE  /\ fmid \in Int /\ bmid \in Int
           /\ flo \in Int /\ fhi \in Int /\ blo \in Int /\ bhi \in Int
           /\ Upper(fhi) \in {fhi - 1, fhi + 1} /\ Upper(bhi) \in {bhi - 1, bhi + 1}
           /\ Lower(flo) \in Int /\ Lower(blo) \in Int
           /\ Limits(Lower(flo), Upper(fhi), fmid) /\ Limits(Lower(blo), Upper(bhi), bmid)
<1>1. fmid \in Int /\ bmid \in Int
  BY DEF TopOK, fmid, bmid
<1>2. flo \in Int /\ fhi \in Int /\ blo \in Int /\ bhi \in Int
  BY DEF Limits
<1>3. \A lo, hi, mid : mid \in {fmid, bmid} /\ Limits(lo, hi, mid) =>
         Limits(Lower(lo), Upper(hi), mid) /\ Upper(hi) \in {hi - 1, hi + 1}
  BY LimitsMove
<1>4. /\ Upper(fhi) \in {fhi - 1, fhi + 1} /\ Limits(Lower(flo), Upper(fhi), fmid)
      /\ Upper(bhi) \in {bhi - 1, bhi + 1} /\ Limits(Lower(blo), Upper(bhi), bmid)
  BY <1>3
<1>5. Lower(flo) \in Int /\ Lower(blo) \in Int
  BY <1>4 DEF Limits
<1> QED
  BY <1>1, <1>2, <1>4, <1>5

(* On the diagonals where the forward pass looks for the backward search,  *)
(* that search has an entry.                                               *)
LEMMA SharedByForward ==
    ASSUME TopOK, NEW flo, NEW fhi, NEW blo, NEW bhi,
           Limits(flo, fhi, fmid), Limits(blo, bhi, bmid),
           (fhi - bhi) % 2 = (fmid - bmid) % 2, odd,
           NEW e \in Diagonals(Lower(flo), Upper(fhi)), e \in blo..bhi
    PROVE  e \in Diagonals(blo, bhi) /\ e \in Int
<1>1. (fhi - bhi) % 2 = 1
  BY DEF odd
<1>2. /\ blo \in Int /\ bhi \in Int /\ Lower(flo) \in Int /\ fhi \in Int
      /\ Upper(fhi) \in {fhi - 1, fhi + 1}
  BY LimitTypes
<1>3. e \in Diagonals(blo, bhi)
  BY <1>1, <1>2, SharedDiagonal
<1> QED
  BY <1>2, <1>3

(* The same for the backward pass *)
LEMMA SharedByBackward ==
    ASSUME TopOK, NEW flo, NEW fhi, NEW blo, NEW bhi,
           Limits(flo, fhi, fmid), Limits(blo, bhi, bmid),
           (fhi - bhi) % 2 # (fmid - bmid) % 2, ~odd,
           NEW e \in Diagonals(Lower(blo), Upper(bhi)), e \in flo..fhi
    PROVE  e \in Diagonals(flo, fhi) /\ e \in Int
<1>1. (fhi - bhi) % 2 # 0
  <2>1. fmid - bmid \in Int
    BY DEF TopOK, fmid, bmid
  <2>2. (fmid - bmid) % 2 # 1
    BY DEF odd
  <2> QED
    BY <2>1, <2>2
<1>2. /\ flo \in Int /\ fhi \in Int /\ Lower(blo) \in Int /\ bhi \in Int
      /\ Upper(bhi) \in {bhi - 1, bhi + 1}
  BY LimitTypes
<1>3. e \in Diagonals(flo, fhi)
  BY <1>1, <1>2, SharedDiagonalBack
<1> QED
  BY <1>2, <1>3

(* Where the forward pass meets the backward search it is inside the       *)
(* rectangle.                                                              *)
LEMMA ForwardMeets ==
    ASSUME Placed, NEW f, NEW flo, NEW fhi, NEW b, NEW blo, NEW bhi,
           BeforeForward(f, flo, fhi, b, blo, bhi), odd,
           NEW d \in Diagonals(Lower(flo), Upper(fhi)), d \in blo..bhi
    PROVE  /\ NewForward(f, flo, fhi)[d] \in top.xoff..top.xlim
           /\ NewForward(f, flo, fhi)[d] - d \in top.yoff..top.ylim
<1>1. /\ Limits(flo, fhi, fmid) /\ Limits(blo, bhi, bmid) /\ Reached(f, flo, fhi)
      /\ DOMAIN f \subseteq Allocated /\ Near(f, flo, fhi, blo, bhi)
  BY DEF BeforeForward
<1>2. TopOK
  BY DEF Placed
<1>3. blo \in Int /\ bhi \in Int
  BY <1>1, <1>2, LimitTypes
<1>4. /\ Extended(f, flo, fhi)[d] \in top.xoff..top.xlim
      /\ Extended(f, flo, fhi)[d] - d \in top.yoff..top.ylim
  BY <1>1, <1>2, <1>3, MeetsInside
<1>5. NewForward(f, flo, fhi)[d] = Extended(f, flo, fhi)[d]
  BY <1>1, NewForwardFacts
<1> QED
  BY <1>4, <1>5

(* The same for the backward pass *)
LEMMA BackwardMeets ==
    ASSUME Placed, NEW f, NEW flo, NEW fhi, NEW b, NEW blo, NEW bhi,
           BeforeBackward(f, flo, fhi, b, blo, bhi), ~odd,
           NEW d \in Diagonals(Lower(blo), Upper(bhi)), d \in flo..fhi
    PROVE  /\ NewBackward(b, blo, bhi)[d] \in top.xoff..top.xlim
           /\ NewBackward(b, blo, bhi)[d] - d \in top.yoff..top.ylim
<1>1. /\ Limits(flo, fhi, fmid) /\ Limits(blo, bhi, bmid) /\ ReachedBack(b, blo, bhi)
      /\ DOMAIN b \subseteq Allocated /\ NearBack(b, blo, bhi, flo, fhi)
  BY DEF BeforeBackward
<1>2. TopOK
  BY DEF Placed
<1>3. flo \in Int /\ fhi \in Int
  BY <1>1, <1>2, LimitTypes
<1>4. /\ Reduced(b, blo, bhi)[d] \in top.xoff..top.xlim
      /\ Reduced(b, blo, bhi)[d] - d \in top.yoff..top.ylim
  BY <1>1, <1>2, <1>3, MeetsInsideBack
<1>5. NewBackward(b, blo, bhi)[d] = Reduced(b, blo, bhi)[d]
  BY <1>1, NewBackwardFacts
<1> QED
  BY <1>4, <1>5

(* A forward pass that meets nothing leaves the searches ready for a       *)
(* backward pass.                                                          *)
LEMMA ForwardGoesOn ==
    ASSUME Placed, NEW f, NEW flo, NEW fhi, NEW b, NEW blo, NEW bhi,
           BeforeForward(f, flo, fhi, b, blo, bhi),
           NEW g, g = NewForward(f, flo, fhi),
           \A d \in Diagonals(Lower(flo), Upper(fhi)) :
               ~(odd /\ blo <= d /\ d <= bhi /\ b[d] <= g[d])
    PROVE  BeforeBackward(g, Lower(flo), Upper(fhi), b, blo, bhi)
<1>1. /\ Limits(flo, fhi, fmid) /\ Limits(blo, bhi, bmid)
      /\ Reached(f, flo, fhi) /\ ReachedBack(b, blo, bhi)
      /\ DOMAIN f \subseteq Allocated /\ DOMAIN b \subseteq Allocated
  BY DEF BeforeForward
<1>2. (fhi - bhi) % 2 = (fmid - bmid) % 2
  BY DEF BeforeForward
<1>3. TopOK
  BY DEF Placed
<1>4. /\ fmid \in Int /\ bmid \in Int
      /\ blo \in Int /\ bhi \in Int /\ flo \in Int /\ fhi \in Int
      /\ Upper(fhi) \in {fhi - 1, fhi + 1}
      /\ Limits(Lower(flo), Upper(fhi), fmid)
  BY <1>1, <1>3, LimitTypes
<1>5. Reached(g, Lower(flo), Upper(fhi)) /\ DOMAIN g \subseteq Allocated
  BY <1>1, NewForwardFacts
<1>6. (Upper(fhi) - bhi) % 2 # (fmid - bmid) % 2
  <2>1. fmid - bmid \in Int
    BY <1>4
  <2> QED
    BY <1>2, <1>4, <2>1, ParityMoves
<1>7. ASSUME odd PROVE Inside(g, Lower(flo), Upper(fhi), blo, bhi)
  <2> SUFFICES ASSUME NEW e \in Diagonals(Lower(flo), Upper(fhi)), e \in blo..bhi
               PROVE  g[e] < top.xlim /\ g[e] - e < top.ylim
    BY DEF Inside
  <2>1. e \in Diagonals(blo, bhi) /\ e \in Int
    BY <1>1, <1>2, <1>3, <1>7, SharedByForward
  <2>2. b[e] \in Int /\ b[e] <= top.xlim /\ b[e] - e <= top.ylim
    BY <1>1, <2>1 DEF ReachedBack
  <2>3. ~(b[e] <= g[e])
    BY <1>4, <1>7, <2>1
  <2>4. g[e] \in Int
    BY <1>5 DEF Reached
  <2>5. top.xlim \in Int /\ top.ylim \in Int
    BY <1>3 DEF TopOK
  <2> QED
    BY <2>1, <2>2, <2>3, <2>4, <2>5
<1>8. ASSUME ~odd PROVE NearBack(b, blo, bhi, Lower(flo), Upper(fhi))
  <2>1. InsideBack(b, blo, bhi, flo, fhi)
    BY <1>8 DEF BeforeForward
  <2>2. (fhi - bhi) % 2 = 0
    <3>1. fmid - bmid \in Int
      BY <1>4
    <3>2. (fmid - bmid) % 2 # 1
      BY <1>8 DEF odd
    <3> QED
      BY <1>2, <3>1, <3>2
  <2> QED
    BY <1>1, <1>3, <2>1, <2>2, StaysNearBack
<1> QED
  BY <1>1, <1>4, <1>5, <1>6, <1>7, <1>8 DEF BeforeBackward

(* A backward pass that meets nothing leaves them ready for a forward one. *)
LEMMA BackwardGoesOn ==
    ASSUME Placed, NEW f, NEW flo, NEW fhi, NEW b, NEW blo, NEW bhi,
           BeforeBackward(f, flo, fhi, b, blo, bhi),
           NEW g, g = NewBackward(b, blo, bhi),
           \A d \in Diagonals(Lower(blo), Upper(bhi)) :
               ~(~odd /\ flo <= d /\ d <= fhi /\ g[d] <= f[d])
    PROVE  BeforeForward(f, flo, fhi, g, Lower(blo), Upper(bhi))
<1>1. /\ Limits(flo, fhi, fmid) /\ Limits(blo, bhi, bmid)
      /\ Reached(f, flo, fhi) /\ ReachedBack(b, blo, bhi)
      /\ DOMAIN f \subseteq Allocated /\ DOMAIN b \subseteq Allocated
  BY DEF BeforeBackward
<1>2. (fhi - bhi) % 2 # (fmid - bmid) % 2
  BY DEF BeforeBackward
<1>3. TopOK
  BY DEF Placed
<1>4. /\ fmid \in Int /\ bmid \in Int
      /\ blo \in Int /\ bhi \in Int /\ flo \in Int /\ fhi \in Int
      /\ Upper(bhi) \in {bhi - 1, bhi + 1}
      /\ Limits(Lower(blo), Upper(bhi), bmid)
  BY <1>1, <1>3, LimitTypes
<1>5. ReachedBack(g, Lower(blo), Upper(bhi)) /\ DOMAIN g \subseteq Allocated
  BY <1>1, NewBackwardFacts
<1>6. (fhi - Upper(bhi)) % 2 = (fmid - bmid) % 2
  <2>1. fmid - bmid \in Int
    BY <1>4
  <2> QED
    BY <1>2, <1>4, <2>1, ParityMoves
<1>7. ASSUME ~odd PROVE InsideBack(g, Lower(blo), Upper(bhi), flo, fhi)
  <2> SUFFICES ASSUME NEW e \in Diagonals(Lower(blo), Upper(bhi)), e \in flo..fhi
               PROVE  g[e] > top.xoff /\ g[e] - e > top.yoff
    BY DEF InsideBack
  <2>1. e \in Diagonals(flo, fhi) /\ e \in Int
    BY <1>1, <1>2, <1>3, <1>7, SharedByBackward
  <2>2. f[e] \in Int /\ f[e] >= top.xoff /\ f[e] - e >= top.yoff
    BY <1>1, <2>1 DEF Reached
  <2>3. ~(g[e] <= f[e])
    BY <1>4, <1>7, <2>1
  <2>4. g[e] \in Int
    BY <1>5 DEF ReachedBack
  <2>5. top.xoff \in Int /\ top.yoff \in Int
    BY <1>3 DEF TopOK
  <2> QED
    BY <2>1, <2>2, <2>3, <2>4, <2>5
<1>8. ASSUME odd PROVE Near(f, flo, fhi, Lower(blo), Upper(bhi))
  <2>1. Inside(f, flo, fhi, blo, bhi)
    BY <1>8 DEF BeforeBackward
  <2>2. (fhi - bhi) % 2 = 0
    <3>1. fhi - bhi \in Int
      BY <1>4
    <3>2. (fhi - bhi) % 2 # 1
      BY <1>2, <1>8 DEF odd
    <3> QED
      BY <3>1, <3>2
  <2> QED
    BY <1>1, <1>3, <2>1, <2>2, StaysNear
<1> QED
  BY <1>1, <1>4, <1>5, <1>6, <1>7, <1>8 DEF BeforeForward

(* The diagonals of the forward search: where one ends, cut off at the     *)
(* edges, is inside the rectangle.                                         *)
LEMMA ForwardEnds ==
    ASSUME TopOK, NEW f, NEW lo, NEW hi, Limits(lo, hi, fmid), Reached(f, lo, hi)
    PROVE  /\ lo \in Int /\ hi \in Int
           /\ Diagonals(lo, hi) \subseteq lo..hi /\ Diagonals(lo, hi) # {}
           /\ \A d \in Diagonals(lo, hi) :
                 /\ d \in Int /\ f[d] \in Int
                 /\ Min({f[d], top.xlim, top.ylim + d}) \in top.xoff..top.xlim
                 /\ Min({f[d], top.xlim, top.ylim + d}) - d \in top.yoff..top.ylim
<1> DEFINE xo == top.xoff
           xl == top.xlim
           yo == top.yoff
           yl == top.ylim
<1>1. /\ xo \in Int /\ xl \in Int /\ yo \in Int /\ yl \in Int
      /\ xo <= xl /\ yo <= yl
      /\ dmin = xo - yl /\ dmax = xl - yo /\ fmid \in Int
  BY DEF TopOK, dmin, dmax, fmid
<1>2. lo \in Int /\ hi \in Int /\ dmin <= lo /\ hi <= dmax /\ lo <= hi
  BY <1>1 DEF Limits
<1>3. Diagonals(lo, hi) \subseteq lo..hi /\ Diagonals(lo, hi) # {}
  <2>1. (hi - hi) % 2 = 0
    BY <1>2
  <2>2. hi \in Diagonals(lo, hi)
    BY <1>2, <2>1 DEF Diagonals
  <2> QED
    BY <2>2 DEF Diagonals
<1>4. ASSUME NEW d \in Diagonals(lo, hi)
      PROVE  /\ d \in Int /\ f[d] \in Int
             /\ Min({f[d], xl, yl + d}) \in xo..xl
             /\ Min({f[d], xl, yl + d}) - d \in yo..yl
  <2> DEFINE a == f[d]
             c == yl + d
             x == Min({a, xl, c})
  <2>1. a \in Int /\ a >= xo /\ a - d >= yo
    BY DEF Reached
  <2> HIDE DEF xo, xl, yo, yl, a, c, x
  <2>2. d \in Int /\ lo <= d /\ d <= hi
    BY <1>2, <1>3
  <2>3. xo - yl <= d /\ d <= xl - yo
    BY <1>1, <1>2, <2>2
  <2>4. c \in Int /\ c - d = yl
    BY <1>1, <2>2 DEF c
  <2>5. x \in {a, xl, c} /\ x <= a /\ x <= xl /\ x <= c
    BY <1>1, <2>1, <2>4, MinOfThree DEF x
  <2>6. x \in Int /\ xo <= x /\ x <= xl /\ yo <= x - d /\ x - d <= yl
    <3>1. xo <= c /\ yo <= xl - d
      BY <1>1, <2>2, <2>3, <2>4
    <3> QED
      BY <1>1, <2>1, <2>2, <2>4, <2>5, <3>1
  <2>7. x \in xo..xl /\ x - d \in yo..yl
    BY <1>1, <2>2, <2>6
  <2> QED
    BY <2>1, <2>2, <2>7 DEF x, a, c
<1> QED
  BY <1>2, <1>3, <1>4

(* The same for the backward search *)
LEMMA BackwardEnds ==
    ASSUME TopOK, NEW b, NEW lo, NEW hi, Limits(lo, hi, bmid), ReachedBack(b, lo, hi)
    PROVE  /\ lo \in Int /\ hi \in Int
           /\ Diagonals(lo, hi) \subseteq lo..hi /\ Diagonals(lo, hi) # {}
           /\ \A d \in Diagonals(lo, hi) :
                 /\ d \in Int /\ b[d] \in Int
                 /\ Max({b[d], top.xoff, top.yoff + d}) \in top.xoff..top.xlim
                 /\ Max({b[d], top.xoff, top.yoff + d}) - d \in top.yoff..top.ylim
<1> DEFINE xo == top.xoff
           xl == top.xlim
           yo == top.yoff
           yl == top.ylim
<1>1. /\ xo \in Int /\ xl \in Int /\ yo \in Int /\ yl \in Int
      /\ xo <= xl /\ yo <= yl
      /\ dmin = xo - yl /\ dmax = xl - yo /\ bmid \in Int
  BY DEF TopOK, dmin, dmax, bmid
<1>2. lo \in Int /\ hi \in Int /\ dmin <= lo /\ hi <= dmax /\ lo <= hi
  BY <1>1 DEF Limits
<1>3. Diagonals(lo, hi) \subseteq lo..hi /\ Diagonals(lo, hi) # {}
  <2>1. (hi - hi) % 2 = 0
    BY <1>2
  <2>2. hi \in Diagonals(lo, hi)
    BY <1>2, <2>1 DEF Diagonals
  <2> QED
    BY <2>2 DEF Diagonals
<1>4. ASSUME NEW d \in Diagonals(lo, hi)
      PROVE  /\ d \in Int /\ b[d] \in Int
             /\ Max({b[d], xo, yo + d}) \in xo..xl
             /\ Max({b[d], xo, yo + d}) - d \in yo..yl
  <2> DEFINE a == b[d]
             c == yo + d
             x == Max({a, xo, c})
  <2>1. a \in Int /\ a <= xl /\ a - d <= yl
    BY DEF ReachedBack
  <2> HIDE DEF xo, xl, yo, yl, a, c, x
  <2>2. d \in Int /\ lo <= d /\ d <= hi
    BY <1>2, <1>3
  <2>3. xo - yl <= d /\ d <= xl - yo
    BY <1>1, <1>2, <2>2
  <2>4. c \in Int /\ c - d = yo
    BY <1>1, <2>2 DEF c
  <2>5. x \in {a, xo, c} /\ x >= a /\ x >= xo /\ x >= c
    BY <1>1, <2>1, <2>4, MaxOfThree DEF x
  <2>6. x \in Int /\ xo <= x /\ x <= xl /\ yo <= x - d /\ x - d <= yl
    <3>1. c <= xl /\ xo - d <= yl
      BY <1>1, <2>2, <2>3, <2>4
    <3> QED
      BY <1>1, <2>1, <2>2, <2>4, <2>5, <3>1
  <2>7. x \in xo..xl /\ x - d \in yo..yl
    BY <1>1, <2>2, <2>6
  <2> QED
    BY <2>1, <2>2, <2>7 DEF x, a, c
<1> QED
  BY <1>2, <1>3, <1>4

(* Passing over equal elements at both ends of a rectangle *)
LEMMA SlideFacts ==
    ASSUME NEW xo \in Nat, NEW xl \in Nat, NEW yo \in Nat, NEW yl \in Nat,
           xo <= xl, yo <= yl
    PROVE  LET k == SnakeDown(xo, yo, xl, yl)
               l == SnakeUp(xl, yl, xo + k, yo + k)
           IN  /\ k \in 0..(xl - xo) /\ l \in 0..(xl - xo)
               /\ k + l <= xl - xo /\ k + l <= yl - yo
               /\ \A i \in 0..(k - 1) : Equal(xo + i, yo + i)
               /\ \A i \in 1..l : Equal(xl - i, yl - i)
<1> DEFINE k == SnakeDown(xo, yo, xl, yl)
           l == SnakeUp(xl, yl, xo + k, yo + k)
<1>0. xo \in Int /\ xl \in Int /\ yo \in Int /\ yl \in Int
  OBVIOUS
<1>1. /\ k \in Nat
      /\ k > 0 => xo + k <= xl /\ yo + k <= yl
      /\ \A i \in 0..(k - 1) : Equal(xo + i, yo + i)
  BY ONLY <1>0, SnakeDownFacts
<1> HIDE DEF k
<1>2. /\ l \in Nat
      /\ l > 0 => xl - l >= xo + k /\ yl - l >= yo + k
      /\ \A i \in 1..l : Equal(xl - i, yl - i)
  <2> DEFINE u == xo + k
             v == yo + k
  <2>1. u \in Int /\ v \in Int /\ l = SnakeUp(xl, yl, u, v)
    BY <1>1
  <2> HIDE DEF u, v, l
  <2>2. /\ l \in Nat
        /\ l > 0 => xl - l >= u /\ yl - l >= v
        /\ \A i \in 1..l : Equal(xl - i, yl - i)
    BY ONLY <1>0, <2>1, SnakeUpFacts
  <2> QED
    BY <2>2 DEF u, v
<1>3. /\ k \in Nat /\ (k > 0 => xo + k <= xl /\ yo + k <= yl)
      /\ l \in Nat /\ (l > 0 => xl - l >= xo + k /\ yl - l >= yo + k)
  BY <1>1, <1>2
<1> HIDE DEF l
<1>4. k \in 0..(xl - xo) /\ l \in 0..(xl - xo) /\ k + l <= xl - xo /\ k + l <= yl - yo
  BY <1>3
<1> QED
  BY <1>1, <1>2, <1>4 DEF k, l

=============================================================================

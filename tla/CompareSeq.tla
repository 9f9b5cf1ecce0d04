----------------------------- MODULE CompareSeq -----------------------------
(***************************************************************************)
(* compareseq and diag (diff/diffseq.h): the divide and conquer comparison *)
(* of two vectors.  The recursion of compareseq is the stack of calls that *)
(* are still to be made; the calls are made from its head.  diag takes two *)
(* steps per cost c, one for the forward and one for the backward pass     *)
(* over the diagonals, and a third for the heuristics that give up on a    *)
(* minimal script.                                                         *)
(***************************************************************************)
EXTENDS Integers, Sequences, FiniteSets, FiniteSetsExt

CONSTANTS
    Element,          \* the equivalence codes that are compared
    Vector,           \* the vectors that are compared
    SNAKE_LIMIT,      \* snakes bigger than this are big (20 in the code)
    HeuristicCost,    \* the cost above which to look for one (200)
    HeuristicFactor,  \* progress required relative to the cost (12)
    too_expensive,    \* the cost at which to give up (at least 256)
    OFFSET_MAX        \* the maximum value of an index

ASSUME CompareAssumption ==
    /\ Vector \subseteq Seq(Element)
    /\ SNAKE_LIMIT \in Nat \ {0}
    /\ {HeuristicCost, HeuristicFactor, too_expensive, OFFSET_MAX} \subseteq Nat
    /\ \A v \in Vector : Len(v) < OFFSET_MAX

VARIABLES
    option,           \* minimal (find_minimal of the first call) and
                      \* speed_large_files (ctxt->heuristic), if set
    xvec, yvec,       \* ctxt->xvec and ctxt->yvec
    phase,            \* where compareseq or diag is
    stack,            \* the calls of compareseq still to be made
    search,           \* the local variables of diag, with fdiag and bdiag
    deleted,          \* the indices given to NOTE_DELETE
    inserted,         \* the indices given to NOTE_INSERT
    matched           \* history: the index pairs passed over as equal

vectors == <<option, xvec, yvec>>
vars == <<option, xvec, yvec, phase, stack, search, deleted, inserted, matched>>

Equal(x, y) == xvec[x + 1] = yvec[y + 1]

Call(xoff, xlim, yoff, ylim, find_minimal) ==
    [xoff |-> xoff, xlim |-> xlim, yoff |-> yoff, ylim |-> ylim,
     find_minimal |-> find_minimal]

(* The call being made. *)
top == Head(stack)

(* Number of equal elements from (x, y) up to, but excluding, (xlim, ylim). *)
SnakeDown(x, y, xlim, ylim) ==
    Max({k \in 0..Max({0, xlim - x}) :
            y + k <= ylim /\ \A i \in 0..(k - 1) : Equal(x + i, y + i)} \cup {0})

(* Slip: only the first vector is kept from being passed. *)
SnakeUp_OneSide(x, y, xoff, yoff) ==
    Max({k \in 0..Max({0, x - xoff}) :
            y >= k /\ \A i \in 1..k : Equal(x - i, y - i)} \cup {0})

(* Number of equal elements before (x, y) down to (xoff, yoff). *)
SnakeUp(x, y, xoff, yoff) ==
    Max({k \in 0..Max({0, x - xoff}) :
            yoff <= y - k /\ \A i \in 1..k : Equal(x - i, y - i)} \cup {0})

-----------------------------------------------------------------------------
(* The variables of diag.  fd and bd hold the entries that this search has *)
(* written: the rest of fdiag and bdiag is left from earlier searches.     *)

dmin == top.xoff - top.ylim
dmax == top.xlim - top.yoff
fmid == top.xoff - top.yoff
bmid == top.xlim - top.ylim
odd == (fmid - bmid) % 2 = 1

NoSearch == [c |-> 0]

Entry(d, x) == [e \in {d} |-> x]

(* f with the entries of g written over it. *)
Write(f, g) ==
    [d \in DOMAIN f \cup DOMAIN g |-> IF d \in DOMAIN g THEN g[d] ELSE f[d]]

StartSearch(r) ==
    LET fm == r.xoff - r.yoff
        bm == r.xlim - r.ylim
    IN  [c |-> 1, fmin |-> fm, fmax |-> fm, bmin |-> bm, bmax |-> bm,
         fd |-> Entry(fm, r.xoff), bd |-> Entry(bm, r.xlim),
         big_snake |-> FALSE]

(* The limits of a pass are moved outwards, unless they are at the edge of *)
(* the rectangle; then they move inwards.                                  *)
Lower(lo) == IF lo > dmin THEN lo - 1 ELSE lo + 1
Upper(hi) == IF hi < dmax THEN hi + 1 ELSE hi - 1

(* Slip: the entries outside the limits are not set. *)
Bounded_NotSet(f, lo, hi, outside) == f

(* f with the entries just outside the moved limits set. *)
Bounded(f, lo, hi, outside) ==
    Write(f, [d \in (IF lo > dmin THEN {lo - 2} ELSE {})
                    \cup (IF hi < dmax THEN {hi + 2} ELSE {}) |-> outside])

(* The diagonals of a pass: every second one. *)
Diagonals(lo, hi) == {d \in lo..hi : (hi - d) % 2 = 0}

(* Slip: on a tie the step to the right is not taken. *)
ForwardStart_Tie(f, d) ==
    IF f[d - 1] <= f[d + 1] THEN f[d + 1] ELSE f[d - 1] + 1

ForwardStart(f, d) ==
    IF f[d - 1] < f[d + 1] THEN f[d + 1] ELSE f[d - 1] + 1

BackwardStart(b, d) ==
    IF b[d - 1] < b[d + 1] THEN b[d - 1] ELSE b[d + 1] - 1

-----------------------------------------------------------------------------

Init ==
    /\ xvec \in Vector
    /\ yvec \in Vector
    /\ option \in SUBSET {"minimal", "speed_large_files"}
    /\ phase = "call"
    /\ stack = <<Call(0, Len(xvec), 0, Len(yvec), "minimal" \in option)>>
    /\ search = NoSearch
    /\ deleted = {}
    /\ inserted = {}
    /\ matched = {}

(* Slide down the initial diagonal and up the final one; then either one   *)
(* side is empty or diag is called.                                        *)
Slide ==
    /\ phase = "call"
    /\ stack # <<>>
    /\ LET k == SnakeDown(top.xoff, top.yoff, top.xlim, top.ylim)
           l == SnakeUp(top.xlim, top.ylim, top.xoff + k, top.yoff + k)
           r == Call(top.xoff + k, top.xlim - l, top.yoff + k, top.ylim - l,
                     top.find_minimal)
           simple == r.xoff = r.xlim \/ r.yoff = r.ylim
       IN  /\ stack' = <<r>> \o Tail(stack)
           /\ matched' = matched
                \cup {<<top.xoff + i, top.yoff + i>> : i \in 0..(k - 1)}
                \cup {<<top.xlim - i, top.ylim - i>> : i \in 1..l}
           /\ phase' = IF simple THEN "note" ELSE "forward"
           /\ search' = IF simple THEN NoSearch ELSE StartSearch(r)
    /\ UNCHANGED <<vectors, deleted, inserted>>

(* Slip: the limits are taken as inclusive. *)
Note_Inclusive ==
    /\ phase = "note"
    /\ deleted' = deleted \cup top.xoff..top.xlim
    /\ inserted' = inserted \cup top.yoff..top.ylim
    /\ stack' = Tail(stack)
    /\ phase' = "call"
    /\ UNCHANGED <<vectors, search, matched>>

(* Handle simple cases: one side is empty. *)
Note ==
    /\ phase = "note"
    /\ deleted' = deleted \cup top.xoff..(top.xlim - 1)
    /\ inserted' = inserted \cup top.yoff..(top.ylim - 1)
    /\ stack' = Tail(stack)
    /\ phase' = "call"
    /\ UNCHANGED <<vectors, search, matched>>

(* Slips: the high half begins one element late, or is not cut off. *)
Partition_OffByOne(xmid, ymid, lo_minimal, hi_minimal) ==
    /\ stack' = <<Call(top.xoff, xmid, top.yoff, ymid, lo_minimal),
                  Call(xmid + 1, top.xlim, ymid, top.ylim, hi_minimal)>> \o Tail(stack)
    /\ phase' = "call"
    /\ search' = NoSearch

Partition_WholeHigh(xmid, ymid, lo_minimal, hi_minimal) ==
    /\ stack' = <<Call(top.xoff, xmid, top.yoff, ymid, lo_minimal),
                  Call(top.xoff, top.xlim, top.yoff, top.ylim, hi_minimal)>>
                 \o Tail(stack)
    /\ phase' = "call"
    /\ search' = NoSearch

(* diag returns a partition, and compareseq calls itself on both halves. *)
Partition(xmid, ymid, lo_minimal, hi_minimal) ==
    /\ stack' = <<Call(top.xoff, xmid, top.yoff, ymid, lo_minimal),
                  Call(xmid, top.xlim, ymid, top.ylim, hi_minimal)>> \o Tail(stack)
    /\ phase' = "call"
    /\ search' = NoSearch

(* Extend the top-down search by an edit step in each diagonal. *)
Forward ==
    /\ phase = "forward"
    /\ LET fmin == Lower(search.fmin)
           fmax == Upper(search.fmax)
           old == Bounded(search.fd, search.fmin, search.fmax, -1)
           D == Diagonals(fmin, fmax)
           snake == [d \in D |->
                       LET x0 == ForwardStart(old, d)
                       IN  SnakeDown(x0, x0 - d, top.xlim, top.ylim)]
           fd == Write(old, [d \in D |-> ForwardStart(old, d) + snake[d]])
           met == {d \in D : /\ odd
                             /\ search.bmin <= d /\ d <= search.bmax
                             /\ search.bd[d] <= fd[d]}
       IN  IF met # {}
           THEN Partition(fd[Max(met)], fd[Max(met)] - Max(met), TRUE, TRUE)
           ELSE /\ search' = [search EXCEPT
                                !.fmin = fmin, !.fmax = fmax, !.fd = fd,
                                !.big_snake = \E d \in D : snake[d] > SNAKE_LIMIT]
                /\ phase' = "backward"
                /\ UNCHANGED stack
    /\ UNCHANGED <<vectors, deleted, inserted, matched>>

(* Similarly extend the bottom-up search. *)
Backward ==
    /\ phase = "backward"
    /\ LET bmin == Lower(search.bmin)
           bmax == Upper(search.bmax)
           old == Bounded(search.bd, search.bmin, search.bmax, OFFSET_MAX)
           D == Diagonals(bmin, bmax)
           snake == [d \in D |->
                       LET x0 == BackwardStart(old, d)
                       IN  SnakeUp(x0, x0 - d, top.xoff, top.yoff)]
           bd == Write(old, [d \in D |-> BackwardStart(old, d) - snake[d]])
           met == {d \in D : /\ ~odd
                             /\ search.fmin <= d /\ d <= search.fmax
                             /\ bd[d] <= search.fd[d]}
       IN  IF met # {}
           THEN Partition(bd[Max(met)], bd[Max(met)] - Max(met), TRUE, TRUE)
           ELSE /\ search' = [search EXCEPT
                                !.bmin = bmin, !.bmax = bmax, !.bd = bd,
                                !.big_snake = @ \/ \E d \in D : snake[d] > SNAKE_LIMIT,
                                !.c = IF top.find_minimal THEN @ + 1 ELSE @]
                /\ phase' = IF top.find_minimal THEN "forward" ELSE "heuristic"
                /\ UNCHANGED stack
    /\ UNCHANGED <<vectors, deleted, inserted, matched>>

-----------------------------------------------------------------------------
(* The heuristics, when find_minimal is false. *)

ForwardDiagonals == Diagonals(search.fmin, search.fmax)
BackwardDiagonals == Diagonals(search.bmin, search.bmax)

(* The diagonal with the largest score; the code scans down from the       *)
(* highest diagonal and replaces its choice only by a better one.          *)
Best(score) ==
    CHOOSE d \in DOMAIN score :
        \A e \in DOMAIN score :
            score[e] < score[d] \/ (score[e] = score[d] /\ e <= d)

(* How far diagonal d has come, counted in both vectors. *)
ForwardProgress(d) == (search.fd[d] - top.xoff) * 2 - (d - fmid)
BackwardProgress(d) == (top.xlim - search.bd[d]) * 2 + (d - bmid)

Lots(v, dd) == v > HeuristicFactor * (search.c + Max({dd, -dd}))

(* Diagonals that have made lots of progress and end with a significant snake. *)
GoodForward ==
    {d \in ForwardDiagonals :
        LET x == search.fd[d]
            y == x - d
        IN  /\ Lots(ForwardProgress(d), d - fmid)
            /\ top.xoff + SNAKE_LIMIT <= x /\ x < top.xlim
            /\ top.yoff + SNAKE_LIMIT <= y /\ y < top.ylim
            /\ \A k \in 1..SNAKE_LIMIT : Equal(x - k, y - k)}

GoodBackward ==
    {d \in BackwardDiagonals :
        LET x == search.bd[d]
            y == x - d
        IN  /\ Lots(BackwardProgress(d), d - bmid)
            /\ top.xoff < x /\ x <= top.xlim - SNAKE_LIMIT
            /\ top.yoff < y /\ y <= top.ylim - SNAKE_LIMIT
            /\ \A k \in 0..(SNAKE_LIMIT - 1) : Equal(x + k, y + k)}

Looking == HeuristicCost < search.c /\ search.big_snake
           /\ "speed_large_files" \in option
Found == Looking /\ (GoodForward # {} \/ GoodBackward # {})

(* Return the best forward diagonal as if it had succeeded. *)
TakeForward ==
    /\ phase = "heuristic"
    /\ Looking
    /\ GoodForward # {}
    /\ LET d == Best([e \in GoodForward |-> ForwardProgress(e)])
       IN  Partition(search.fd[d], search.fd[d] - d, TRUE, FALSE)
    /\ UNCHANGED <<vectors, deleted, inserted, matched>>

TakeBackward ==
    /\ phase = "heuristic"
    /\ Looking
    /\ GoodForward = {}
    /\ GoodBackward # {}
    /\ LET d == Best([e \in GoodBackward |-> BackwardProgress(e)])
       IN  Partition(search.bd[d], search.bd[d] - d, FALSE, TRUE)
    /\ UNCHANGED <<vectors, deleted, inserted, matched>>

(* X of the end of a diagonal, inside the rectangle. *)
ForwardX(d) == Min({search.fd[d], top.xlim, top.ylim + d})
BackwardX(d) == Max({search.bd[d], top.xoff, top.yoff + d})

(* Give up, and report the better of the diagonals that maximize X + Y     *)
(* forwards and minimize it backwards.                                     *)
GiveUp ==
    /\ phase = "heuristic"
    /\ ~Found
    /\ search.c >= too_expensive
    /\ LET ForwardXY(d) == 2 * ForwardX(d) - d
           BackwardXY(d) == 2 * BackwardX(d) - d
           f == Best([d \in ForwardDiagonals |-> ForwardXY(d)])
           b == Best([d \in BackwardDiagonals |-> -BackwardXY(d)])
       IN  IF top.xlim + top.ylim - BackwardXY(b)
                < ForwardXY(f) - (top.xoff + top.yoff)
           THEN Partition(ForwardX(f), ForwardX(f) - f, TRUE, FALSE)
           ELSE Partition(BackwardX(b), BackwardX(b) - b, FALSE, TRUE)
    /\ UNCHANGED <<vectors, deleted, inserted, matched>>

(* The next cost. *)
Continue ==
    /\ phase = "heuristic"
    /\ ~Found
    /\ search.c < too_expensive
    /\ search' = [search EXCEPT !.c = @ + 1]
    /\ phase' = "forward"
    /\ UNCHANGED <<vectors, stack, deleted, inserted, matched>>

Done == phase = "call" /\ stack = <<>>

Next ==
    \/ Slide
    \/ Note
    \/ Forward
    \/ Backward
    \/ TakeForward
    \/ TakeBackward
    \/ GiveUp
    \/ Continue
    \/ Done /\ UNCHANGED vars

Spec == Init /\ [][Next]_vars

-----------------------------------------------------------------------------

IsBox(r) == /\ 0 <= r.xoff /\ r.xoff <= r.xlim /\ r.xlim <= Len(xvec)
            /\ 0 <= r.yoff /\ r.yoff <= r.ylim /\ r.ylim <= Len(yvec)

(* Type invariant: every call is for a part of the two vectors. *)
TypeOK ==
    /\ option \subseteq {"minimal", "speed_large_files"}
    /\ phase \in {"call", "note", "forward", "backward", "heuristic"}
    /\ \A i \in DOMAIN stack : /\ IsBox(stack[i])
                               /\ stack[i].find_minimal \in BOOLEAN
    /\ search.c \in Nat
    /\ deleted \subseteq 0..(Len(xvec) - 1)
    /\ inserted \subseteq 0..(Len(yvec) - 1)
    /\ matched \subseteq (0..(Len(xvec) - 1)) \X (0..(Len(yvec) - 1))

(* The allocated part of fdiag and bdiag (diff_2_files). *)
Allocated == (-Len(yvec) - 1)..(Len(xvec) + 1)

(* What a pass reads in fdiag and bdiag was written earlier in this search,*)
(* what it writes is inside the allocation, and every search down or up a  *)
(* diagonal starts inside the vectors.                                     *)
DiagonalsReady ==
    /\ phase \in {"forward", "backward", "heuristic"} =>
          DOMAIN search.fd \cup DOMAIN search.bd \subseteq Allocated
    /\ phase = "forward" =>
          LET fd == Bounded(search.fd, search.fmin, search.fmax, -1)
          IN  \A d \in Diagonals(Lower(search.fmin), Upper(search.fmax)) :
                /\ {d - 1, d + 1} \subseteq DOMAIN fd
                /\ ForwardStart(fd, d) >= top.xoff
                /\ ForwardStart(fd, d) - d >= top.yoff
                /\ odd /\ d \in search.bmin..search.bmax => d \in DOMAIN search.bd
    /\ phase = "backward" =>
          LET bd == Bounded(search.bd, search.bmin, search.bmax, OFFSET_MAX)
          IN  \A d \in Diagonals(Lower(search.bmin), Upper(search.bmax)) :
                /\ {d - 1, d + 1} \subseteq DOMAIN bd
                /\ BackwardStart(bd, d) <= top.xlim
                /\ BackwardStart(bd, d) - d <= top.ylim
                /\ ~odd /\ d \in search.fmin..search.fmax => d \in DOMAIN search.fd

(* Length of the longest common subsequence: the reference definition. *)
LCS(x, y) ==
    LET L[i \in 0..Len(x), j \in 0..Len(y)] ==
            IF i = 0 \/ j = 0 THEN 0
            ELSE IF x[i] = y[j] THEN L[i - 1, j - 1] + 1
            ELSE Max({L[i - 1, j], L[i, j - 1]})
    IN  L[Len(x), Len(y)]

(* -m: "find a minimal difference no matter how expensive it is" (comment  *)
(* of compareseq): no script has fewer deletions and insertions.           *)
FindsMinimal ==
    Done /\ "minimal" \in option => Cardinality(deleted) = Len(xvec) - LCS(xvec, yvec)

Size(r) == (r.xlim - r.xoff) + (r.ylim - r.yoff)

(* compareseq returns: diag never hands its rectangle back as one of its   *)
(* halves, not even when its heuristics give up, and no search costs more  *)
(* than half of its rectangle.                                             *)
RecursionDescends ==
    [][/\ Len(stack') > Len(stack) =>
             \A i \in {1, 2} : Size(stack'[i]) < Size(top)
       /\ phase' = "forward" => 2 * search'.c <= Size(top') + 1]_vars

=============================================================================

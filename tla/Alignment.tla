------------------------------ MODULE Alignment ------------------------------
(***************************************************************************)
(* compareseq (diff/diffseq.h) with diag reduced to its promise: "If we    *)
(* return the `wrong' partitions, the worst this can do is cause           *)
(* suboptimal diff output.  It cannot cause incorrect diff output."  Here  *)
(* a rectangle may be split at any point of it.                            *)
(*                                                                         *)
(* A rectangle stands for a call compareseq(xoff, xlim, yoff, ylim) that   *)
(* has not returned.  Indices are origin-0, as in the code.                *)
(***************************************************************************)
EXTENDS Integers, Sequences, FiniteSets

CONSTANT Element  \* the equivalence codes that are compared

VARIABLES
    xvec, yvec,   \* the vectors being compared
    pending,      \* the nonempty rectangles that are still to be compared
    deleted,      \* the x indices given to NOTE_DELETE
    inserted,     \* the y indices given to NOTE_INSERT
    matched       \* history: the index pairs passed over as equal

vectors == <<xvec, yvec>>
vars == <<xvec, yvec, pending, deleted, inserted, matched>>

Equal(x, y) == xvec[x + 1] = yvec[y + 1]

Rectangle(xoff, xlim, yoff, ylim) ==
    [xoff |-> xoff, xlim |-> xlim, yoff |-> yoff, ylim |-> ylim]

NonEmpty(r) == r.xoff < r.xlim \/ r.yoff < r.ylim

(* r is replaced by the rectangles R. *)
Replace(r, R) == (pending \ {r}) \cup {s \in R : NonEmpty(s)}

-----------------------------------------------------------------------------

Init ==
    /\ xvec \in Seq(Element)
    /\ yvec \in Seq(Element)
    /\ pending = {s \in {Rectangle(0, Len(xvec), 0, Len(yvec))} : NonEmpty(s)}
    /\ deleted = {}
    /\ inserted = {}
    /\ matched = {}

(* Equal elements: k at the beginning of r and l at its end. *)
Slide(r, k, l) ==
    /\ k + l <= r.xlim - r.xoff
    /\ k + l <= r.ylim - r.yoff
    /\ \A i \in 0..(k - 1) : Equal(r.xoff + i, r.yoff + i)
    /\ \A i \in 1..l : Equal(r.xlim - i, r.ylim - i)
    /\ pending' = Replace(r, {Rectangle(r.xoff + k, r.xlim - l,
                                        r.yoff + k, r.ylim - l)})
    /\ matched' = matched \cup {<<r.xoff + i, r.yoff + i>> : i \in 0..(k - 1)}
                          \cup {<<r.xlim - i, r.ylim - i>> : i \in 1..l}
    /\ UNCHANGED <<vectors, deleted, inserted>>

(* One side of r is empty: all of the other side is deleted or inserted. *)
Note(r) ==
    /\ r.xoff = r.xlim \/ r.yoff = r.ylim
    /\ deleted' = deleted \cup r.xoff..(r.xlim - 1)
    /\ inserted' = inserted \cup r.yoff..(r.ylim - 1)
    /\ pending' = Replace(r, {})
    /\ UNCHANGED <<vectors, matched>>

Split(r, xmid, ymid) ==
    /\ pending' = Replace(r, {Rectangle(r.xoff, xmid, r.yoff, ymid),
                              Rectangle(xmid, r.xlim, ymid, r.ylim)})
    /\ UNCHANGED <<vectors, deleted, inserted, matched>>

Next ==
    \/ \E r \in pending :
          \/ \E k, l \in 0..(r.xlim - r.xoff) : Slide(r, k, l)
          \/ Note(r)
          \/ \E xmid \in r.xoff..r.xlim, ymid \in r.yoff..r.ylim :
                Split(r, xmid, ymid)
    \/ pending = {} /\ UNCHANGED vars

Spec == Init /\ [][Next]_vars

-----------------------------------------------------------------------------
InX(i, r) == r.xoff <= i /\ i < r.xlim
InY(j, r) == r.yoff <= j /\ j < r.ylim

(* p lies wholly before or wholly after r. *)
Outside(p, r) == \/ p[1] < r.xoff /\ p[2] < r.yoff
                 \/ r.xlim <= p[1] /\ r.ylim <= p[2]

Precedes(r, s) == r.xlim <= s.xoff /\ r.ylim <= s.yoff

(* Type invariant: rectangles and indices are inside the vectors. *)
TypeOK ==
    /\ xvec \in Seq(Element)
    /\ yvec \in Seq(Element)
    /\ pending \subseteq [xoff: 0..Len(xvec), xlim: 0..Len(xvec),
                          yoff: 0..Len(yvec), ylim: 0..Len(yvec)]
    /\ \A r \in pending : r.xoff <= r.xlim /\ r.yoff <= r.ylim /\ NonEmpty(r)
    /\ deleted \subseteq 0..(Len(xvec) - 1)
    /\ inserted \subseteq 0..(Len(yvec) - 1)
    /\ matched \subseteq (0..(Len(xvec) - 1)) \X (0..(Len(yvec) - 1))

(* The rectangles and the matched pairs form one chain through the two     *)
(* vectors: the calls compareseq makes never overlap and never cross.      *)
Chain ==
    /\ \A r, s \in pending : r = s \/ Precedes(r, s) \/ Precedes(s, r)
    /\ \A p \in matched, r \in pending : Outside(p, r)
    /\ \A p, q \in matched : \/ p = q
                             \/ p[1] < q[1] /\ p[2] < q[2]
                             \/ q[1] < p[1] /\ q[2] < p[2]

(* Every index is either noted, or matched, or still pending. *)
Accounted ==
    /\ \A i \in 0..(Len(xvec) - 1) :
          \/ i \in deleted
          \/ \E p \in matched : p[1] = i
          \/ \E r \in pending : InX(i, r)
    /\ \A j \in 0..(Len(yvec) - 1) :
          \/ j \in inserted
          \/ \E p \in matched : p[2] = j
          \/ \E r \in pending : InY(j, r)

(* A noted index is not matched and not pending. *)
Exclusive ==
    /\ \A i \in deleted : /\ \A p \in matched : p[1] # i
                          /\ \A r \in pending : ~InX(i, r)
    /\ \A j \in inserted : /\ \A p \in matched : p[2] # j
                           /\ \A r \in pending : ~InY(j, r)

MatchedEqual == \A p \in matched : Equal(p[1], p[2])

(* When the comparison ends, the lines that are not deleted and the lines  *)
(* that are not inserted are paired one to one, in order, with equal ones: *)
(* the diff is correct, whatever the points at which diag split.           *)
CorrectDiff ==
    pending = {} =>
        /\ {p[1] : p \in matched} = (0..(Len(xvec) - 1)) \ deleted
        /\ {p[2] : p \in matched} = (0..(Len(yvec) - 1)) \ inserted
        /\ MatchedEqual
        /\ \A p, q \in matched : p[1] < q[1] <=> p[2] < q[2]

=============================================================================

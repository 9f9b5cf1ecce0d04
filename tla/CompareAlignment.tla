-------------------------- MODULE CompareAlignment --------------------------
(***************************************************************************)
(* compareseq (CompareSeq) as an implementation of the abstract comparison *)
(* (Alignment), in which a rectangle may be split at any point of it.      *)
(***************************************************************************)
EXTENDS Integers, Sequences

CONSTANT Element

VARIABLES
    xvec, yvec, stack, deleted, inserted, matched   \* as in CompareSeq

(* compareseq is the abstract comparison: the rectangles pending there are *)
(* the nonempty calls on the stack, and diag picks the splitting points.   *)
Rectangles ==
    {[xoff |-> r.xoff, xlim |-> r.xlim, yoff |-> r.yoff, ylim |-> r.ylim] :
        r \in {stack[i] : i \in DOMAIN stack}}

A == INSTANCE Alignment WITH
        pending <- {r \in Rectangles : r.xoff < r.xlim \/ r.yoff < r.ylim}

ImplementsAlignment == A!Spec

(* "It cannot cause incorrect diff output" (comment of diag): when         *)
(* compareseq ends, the elements that are neither deleted nor inserted are *)
(* paired one to one, in order, with equal ones, whichever heuristic ended *)
(* a search.                                                               *)
CorrectDiff == A!CorrectDiff

=============================================================================

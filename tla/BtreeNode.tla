------------------------------ MODULE BtreeNode ------------------------------
(***************************************************************************)
(* Keys and nodes of the optimistic B-tree of btree.h: how a key is cut     *)
(* into slices, what a leaf and an internal node hold, and the pure         *)
(* computations on them: search, insertion, split, stealing and merging.    *)
(*                                                                          *)
(* A key is the sequence of its slices.  A slice is a pair <<slice, len>>:  *)
(* the eight bytes as a number and min(size, 9), so 9 means that more bytes *)
(* follow.  All slices but the last one of a key have length 9.             *)
(***************************************************************************)
EXTENDS Integers, Sequences, FiniteSets, SequencesExt

CONSTANT NKeysPerNode    \* 15 in the code

NMinKeysPerNode == NKeysPerNode \div 2

null == 0                \* the NULL pointer; nodes are numbered from 1

slice(k) == k[1][1]

kslicelen(k) == k[1][2]

\* k.shift_many(d); shifting past the end gives the empty key.
shift_many(k, d) == IF d < Len(k) THEN SubSeq(k, d + 1, Len(k)) ELSE <<<<0, 0>>>>

SliceLess(p, q) == p[1] < q[1] \/ (p[1] = q[1] /\ p[2] < q[2])

\* The order of varkeys: memcmp, then the shorter one first.
KeyLess(a, b) ==
    \E i \in 1 .. Len(a) \cap 1 .. Len(b) :
        /\ \A j \in 1 .. i - 1 : a[j] = b[j]
        /\ SliceLess(a[i], b[i])

(***************************************************************************)
(* A leaf slot is [k, v, suf, layer]: keys_ and lengths_, values_ (a value  *)
(* or the root of the next layer), suffixes_, and the layer bit.            *)
(***************************************************************************)
Slot(k, v) == [k |-> Head(k), v |-> v, suf |-> Tail(k), layer |-> FALSE]

\* leaf_node::leaf_node(); a new node is neither locked nor modifying.
NewLeaf(ents, root) ==
    [leaf |-> TRUE, ents |-> ents, min_key |-> 0, prev |-> null, next |-> null,
     owner |-> null, root |-> root, modifying |-> FALSE, deleting |-> FALSE, version |-> 0]

\* internal_node::internal_node()
NewInternal(keys, children, root) ==
    [leaf |-> FALSE, keys |-> keys, children |-> children,
     owner |-> null, root |-> root, modifying |-> FALSE, deleting |-> FALSE, version |-> 0]

key_slots_used(n) == IF n.leaf THEN Len(n.ents) ELSE Len(n.keys)

\* What CheckVersion compares: the header word without the locked bit.
hdr(n) == <<key_slots_used(n), n.root, n.modifying, n.deleting, n.version>>

\* leaf_node::key_search: the slot of the slice, 0 when there is none.
key_search(ents, p) == SelectInSeq(ents, LAMBDA e : e.k = p)

\* One more than idxlowerbound of FindRespLeafLowerBound: the slots at or before p.
lower_bound(ents, p) == Cardinality({i \in DOMAIN ents : ~SliceLess(p, ents[i].k)})

\* internal_node::key_lower_bound_search: the child responsible for a slice.
child_idx(n, s) == 1 + Cardinality({i \in DOMAIN n.keys : n.keys[i] <= s})

InsertSlot(ents, e) == InsertAt(ents, lower_bound(ents, e.k) + 1, e)

\* Slots with equal slices never part: they are one run.
SameRun(ents, i) == ents[i].k[1] = ents[i + 1].k[1]

(***************************************************************************)
(* Where insert0 cuts a full leaf: the boundaries of a run of equal slices  *)
(* closest to the middle, left and right of it, and of the two the one that *)
(* leaves more keys in the smaller half.                                    *)
(***************************************************************************)
split_point(ents) ==
    LET half  == NKeysPerNode \div 2
        min(a, b) == IF a < b THEN a ELSE b
        left  == CHOOSE s \in 0 .. half :
                    /\ s = 0 \/ ~SameRun(ents, s)
                    /\ \A r \in s + 1 .. half : SameRun(ents, r)
        right == CHOOSE s \in half .. NKeysPerNode :
                    /\ s = NKeysPerNode \/ ~SameRun(ents, s)
                    /\ \A r \in half .. s - 1 : SameRun(ents, r)
    IN  IF min(left, NKeysPerNode - left) < min(right, NKeysPerNode - right)
        THEN right ELSE left

\* The two halves of a full leaf and the new slot; last: the leaf has no next_.
SplitLeaf(ents, e, last) ==
    LET s  == split_point(ents)
        at == lower_bound(ents, e.k)
        lo == SubSeq(ents, 1, s)
        hi == SubSeq(ents, s + 1, NKeysPerNode)
    IN  IF last /\ ents[NKeysPerNode].k[1] < e.k[1] THEN <<ents, <<e>>>>
        ELSE IF s <= at /\ ents[s].k[1] # e.k[1]
             THEN <<lo, InsertAt(hi, at + 1 - s, e)>>
             ELSE <<InsertAt(lo, at + 1, e), hi>>

\* The slots a leaf steals from its right (left) sibling: one run.
StealRight(ents) ==
    CHOOSE s \in 1 .. Len(ents) :
        /\ s = Len(ents) \/ ~SameRun(ents, s)
        /\ \A r \in 1 .. s - 1 : SameRun(ents, r)

StealLeft(ents) ==
    Len(ents) - (CHOOSE s \in 0 .. Len(ents) - 1 :
        /\ s = 0 \/ ~SameRun(ents, s)
        /\ \A r \in s + 1 .. Len(ents) - 1 : SameRun(ents, r))
=============================================================================

-------------------------------- MODULE Btree --------------------------------
(***************************************************************************)
(* The optimistic B-tree of btree.h and btree_impl.h, as the threads of a   *)
(* test run search, search_range_call, insert, insert_if_absent and remove  *)
(* on it.                                                                   *)
(*                                                                          *)
(* A read of a node between stable_version() and a check_version() that     *)
(* succeeds is one step, which waits while the node is modifying; a check   *)
(* that fails reads the node again and changes nothing.  A version that is  *)
(* remembered across steps, and every lock, is explicit.  The writes to     *)
(* nodes that are locked and modifying are one step, because no other       *)
(* thread can read them before the unlock; the writes of a leaf split that  *)
(* other threads can read are in the order of the code.                     *)
(***************************************************************************)
EXTENDS BtreeNode, TLC

CONSTANTS Threads,   \* the threads of a test
          main,      \* the thread that builds the tree before the others start
          Tests      \* the tests: what each thread calls, in order

VARIABLES nodes,     \* every node ever allocated, in allocation order
          root_,     \* btree::root_
          th,        \* what each thread is doing
          map,       \* the abstract map: key -> value, null when absent
          hist,      \* hist[t]: the <<key, value>> pairs of map since t's call began
          reads,     \* what finished lookups and scans hold for validation
          early      \* whether a thread has used a leaf before its min_key_ was set

vars == <<nodes, root_, th, map, hist, reads, early>>

\* The keys of a test.
KeysOf(ts) == UNION {{ts[t][i].k : i \in DOMAIN ts[t]} : t \in Threads}

Idle(prog) ==
    [pc |-> "idle", prog |-> prog, k |-> <<>>, node |-> null, cur |-> null, l |-> null,
     r |-> null, parents |-> <<>>, lv |-> <<>>, i |-> 0, locks |-> <<>>, outer |-> <<>>,
     up |-> <<>>, then |-> "done", path |-> <<>>, first |-> TRUE, fr |-> <<>>,
     info |-> <<null, 0>>, resp |-> {}, out |-> <<>>]

\* btree(): the root is an empty leaf.
Init ==
    \E ts \in Tests :
        /\ nodes = <<NewLeaf(<<>>, TRUE)>>
        /\ root_ = 1
        /\ th = [t \in Threads |-> Idle(ts[t])]
        /\ map = [k \in KeysOf(ts) |-> null]
        /\ hist = [t \in Threads |-> {}]
        /\ reads = {}
        /\ early = FALSE

Op(t) == Head(th[t].prog)

\* Thread t goes on with the fields of r replaced.
Go(t, r) == th' = [th EXCEPT ![t] = r @@ th[t]]

\* The call of t is over.
Return(t) == th' = [th EXCEPT ![t] = Idle(Tail(th[t].prog))]

\* insert_stable_location and remove_stable_location, from their label retry.
FromRoot(t) ==
    [pc |-> "down", node |-> root_, cur |-> root_, k |-> Op(t).k, l |-> null, r |-> null,
     parents |-> <<>>, outer |-> <<>>, locks |-> <<>>, up |-> <<>>]

\* A thread makes its next call; the tests start the workers after the setup.
Call(t) ==
    /\ th[t].pc = "idle" /\ th[t].prog # <<>>
    /\ t # main => th[main].prog = <<>>
    /\ hist' = [hist EXCEPT ![t] = {<<k, map[k]>> : k \in DOMAIN map}]
    /\ CASE Op(t).op \in {"search", "scan"} -> Go(t, [pc |-> "search", cur |-> root_])
         [] Op(t).op = "size" -> Go(t, [pc |-> "layers", path |-> <<root_>>])
         [] OTHER -> Go(t, FromRoot(t))
    /\ UNCHANGED <<nodes, root_, map, reads>>

-----------------------------------------------------------------------------
NoUpper == <<>>

\* The keys a lookup or a scan is about: k alone, or [k, upper).
InRange(op, k) ==
    IF op.op # "scan" THEN k = op.k
    ELSE ~KeyLess(k, op.k) /\ (op.upper # NoUpper => KeyLess(k, op.upper))

(***************************************************************************)
(* What got, the sequence of <<key, value>> pairs a call returned, may be:  *)
(* in ascending order and only pairs that were in the map during the call;  *)
(* and with every key of the range that was there all the time.             *)
(***************************************************************************)
Sound(op, got, h) ==
    /\ \A i \in 1 .. Len(got) - 1 : KeyLess(got[i][1], got[i + 1][1])
    /\ \A i \in DOMAIN got : InRange(op, got[i][1]) /\ got[i] \in h

Complete(op, got, h) ==
    \A k \in {p[1] : p \in h} :
        InRange(op, k) /\ <<k, null>> \notin h => \E i \in DOMAIN got : got[i][1] = k

\* A node of ns is no longer as it was read.
Changed(ns) == \E x \in ns : nodes[x[1]].version # x[2] \/ nodes[x[1]].modifying

\* Call op is over: what it returned and the nodes it read, and whether that was right.
Record(op, got, ns, sound, complete) ==
    reads' = reads \cup {[op |-> op, got |-> got, nodes |-> ns, sound |-> sound,
                           complete |-> complete, changed |-> Changed(ns)]}

\* The call of t returns got; ns are the nodes and versions it read.
ReadDone(t, got, ns) ==
    /\ Return(t)
    /\ Record(Op(t), got, ns, Sound(Op(t), got, hist[t]), Complete(Op(t), got, hist[t]))
    /\ hist' = [hist EXCEPT ![t] = {}]

\* The change of t is made; existed is whether it found its key.
WriteDone(t, existed) == Record(Op(t), <<>>, {}, existed = (map[Op(t).k] # null), TRUE)

(***************************************************************************)
(* search_impl.  path is leaf_nodes: one leaf for every layer left behind.  *)
(***************************************************************************)
SearchKey(t) == shift_many(Op(t).k, Len(th[t].path))

\* A search ends at a leaf; a scan then reads the layers of leaf_nodes, innermost first.
SearchDone(t, leaf, v, info) ==
    IF Op(t).op = "scan"
    THEN /\ Go(t, [pc |-> "layer", path |-> Append(th[t].path, leaf)])
         /\ UNCHANGED <<hist, reads>>
    ELSE ReadDone(t, IF v = null THEN <<>> ELSE <<<<Op(t).k, v>>>>, {info})

\* The label retry of search_impl: back to the leaf of the layer above, or the root.
SearchRetry(t) ==
    IF th[t].path = <<>>
    THEN Go(t, [cur |-> root_])
    ELSE Go(t, [cur |-> Last(th[t].path), path |-> Front(th[t].path)])

SearchNode(t) ==
    LET c == th[t].cur
        n == nodes[c]
        k == SearchKey(t)
        m == key_search(n.ents, k[1])
        e == n.ents[m]
        info == <<c, n.version>>
    IN  /\ th[t].pc = "search" /\ ~n.modifying
        /\ IF n.deleting THEN SearchRetry(t) /\ UNCHANGED <<hist, reads>>
           ELSE IF ~n.leaf
           THEN Go(t, [cur |-> n.children[child_idx(n, slice(k))]]) /\ UNCHANGED <<hist, reads>>
           ELSE IF m # 0 /\ e.layer
           THEN Go(t, [cur |-> e.v, path |-> Append(th[t].path, c)]) /\ UNCHANGED <<hist, reads>>
           ELSE IF m # 0
           THEN SearchDone(t, c, IF e.suf = Tail(k) THEN e.v ELSE null, info)
           ELSE IF slice(k) < n.min_key
           THEN /\ IF n.prev # null THEN Go(t, [cur |-> n.prev]) ELSE SearchRetry(t)
                /\ UNCHANGED <<hist, reads>>
           ELSE IF n.next = null
           THEN SearchDone(t, c, null, info)
           ELSE Go(t, [pc |-> "right", node |-> n.next, info |-> info]) /\ UNCHANGED <<hist, reads>>
        /\ UNCHANGED <<nodes, root_, map>>

(* Mutant: without the comparison with the sibling's min_key_. *)
SearchRightNoMin(t) ==
    /\ th[t].pc = "right" /\ ~nodes[th[t].node].modifying
    /\ SearchDone(t, th[t].cur, null, th[t].info)
    /\ UNCHANGED <<nodes, root_, map>>

\* The leaf has no such key: is its right sibling responsible for it by now?
SearchRight(t) ==
    LET right == nodes[th[t].node]
    IN  /\ th[t].pc = "right" /\ ~right.modifying
        /\ IF slice(SearchKey(t)) >= right.min_key
           THEN Go(t, [pc |-> "search", cur |-> th[t].node]) /\ UNCHANGED <<hist, reads>>
           ELSE SearchDone(t, th[t].cur, null, th[t].info)
        /\ UNCHANGED <<nodes, root_, map>>

-----------------------------------------------------------------------------
(***************************************************************************)
(* search_range_call and search_range_at_layer.  fr is the stack of calls   *)
(* of search_range_at_layer: [leaf, prefix, lower, upper, next_key, last,   *)
(* buf, right, max], where last is the last slice emitted or <<>>, buf what *)
(* is left of the leaf read last, right its right sibling and max the       *)
(* sibling's min_key_.                                                      *)
(***************************************************************************)
Frame(leaf, prefix, lower, inc_lower, upper) ==
    [leaf |-> leaf, prefix |-> prefix, lower |-> lower, upper |-> upper,
     next_key |-> slice(lower), last |-> IF inc_lower THEN <<>> ELSE lower[1],
     buf |-> <<>>, right |-> null, max |-> 0]

\* upper->size() >= 8 * d
AtLeast(k, d) == Len(k) > d \/ (Len(k) = d /\ Last(k)[2] = 8)

LayerUpper(upper, d) ==
    IF upper # NoUpper /\ AtLeast(upper, d) THEN shift_many(upper, d) ELSE NoUpper

\* search_range_call takes the next layer from leaf_nodes, or is done.
ScanLayer(t) ==
    LET d == Len(th[t].path) - 1
    IN  /\ th[t].pc = "layer"
        /\ IF th[t].path = <<>> \/ (Op(t).upper # NoUpper /\ ~KeyLess(Op(t).k, Op(t).upper))
           THEN ReadDone(t, th[t].out, th[t].resp)
           ELSE /\ Go(t, [pc |-> "scan", path |-> Front(th[t].path), first |-> FALSE,
                          fr |-> <<Frame(Last(th[t].path), SubSeq(Op(t).k, 1, d),
                                         shift_many(Op(t).k, d), th[t].first,
                                         LayerUpper(Op(t).upper, d))>>])
                /\ UNCHANGED <<hist, reads>>
        /\ UNCHANGED <<nodes, root_, map>>

\* Thread t goes on with the fields of r replaced in the innermost call.
GoFrame(t, pc, r) ==
    Go(t, [pc |-> pc, fr |-> Front(th[t].fr) \o <<r @@ Last(th[t].fr)>>])

\* search_range_at_layer returns true.
FrameDone(t) ==
    Go(t, [pc |-> IF Len(th[t].fr) = 1 THEN "layer" ELSE "emit", fr |-> Front(th[t].fr)])

\* One round of the loop of search_range_at_layer reads the leaf into buf.
ScanLeaf(t) ==
    LET f == Last(th[t].fr)
        n == nodes[f.leaf]
        wanted(e) == ~SliceLess(e.k, f.lower[1])
                     /\ (f.upper # NoUpper => e.k[1] <= slice(f.upper))
    IN  /\ th[t].pc = "scan"
        /\ IF f.upper # NoUpper /\ f.next_key > slice(f.upper) THEN FrameDone(t)
           ELSE /\ ~n.modifying
                /\ IF n.min_key > f.next_key
                   THEN GoFrame(t, "scan", [leaf |-> n.prev])
                   ELSE Go(t, [pc |-> "emit", resp |-> th[t].resp \cup {<<f.leaf, n.version>>},
                               fr |-> Front(th[t].fr) \o <<[f EXCEPT
                                   !.buf = SelectSeq(n.ents, wanted), !.right = n.next,
                                   !.max = IF n.next = null THEN 0
                                           ELSE nodes[n.next].min_key]>>])
        /\ UNCHANGED <<nodes, root_, map, hist, reads>>

\* The slot is past the upper bound, or before the lower one.
AfterEnd(e, upper) ==
    /\ upper # NoUpper /\ e.k[1] = slice(upper)
    /\ IF e.k[2] = 9
       THEN Len(upper) = 1 \/ ~KeyLess(e.suf, Tail(upper))
       ELSE e.k[2] >= kslicelen(upper)

BeforeStart(e, lower) ==
    e.k = lower[1] /\ e.k[2] = 9 /\ Len(lower) > 1 /\ KeyLess(e.suf, Tail(lower))

\* The loop over buf: skip, stop, go into a layer, or invoke the callback.
ScanEmit(t) ==
    LET f == Last(th[t].fr)
        e == Head(f.buf)
        rest == [buf |-> Tail(f.buf)]
    IN  /\ th[t].pc = "emit"
        /\ IF f.buf = <<>>
           THEN IF f.right = null THEN FrameDone(t)
                ELSE GoFrame(t, "scan", [leaf |-> f.right, next_key |-> f.max])
           ELSE IF f.last # <<>> /\ ~SliceLess(f.last, e.k) THEN GoFrame(t, "emit", rest)
           ELSE IF e.layer
           THEN Go(t, [pc |-> "leftmost", cur |-> e.v,
                       fr |-> Front(th[t].fr) \o <<[f EXCEPT !.buf = Tail(f.buf), !.last = e.k]>>])
           ELSE IF BeforeStart(e, f.lower) THEN GoFrame(t, "emit", rest)
           ELSE IF AfterEnd(e, f.upper) THEN GoFrame(t, "emit", [buf |-> <<>>])
           ELSE Go(t, [out |-> Append(th[t].out, <<f.prefix \o <<e.k>> \o e.suf, e.v>>),
                       fr |-> Front(th[t].fr) \o <<[f EXCEPT !.buf = Tail(f.buf), !.last = e.k]>>])
        /\ UNCHANGED <<nodes, root_, map, hist, reads>>

\* leftmost_descend_layer, then the call of search_range_at_layer for the layer.
ScanLeftmost(t) ==
    LET f == Last(th[t].fr)
        n == nodes[th[t].cur]
    IN  /\ th[t].pc = "leftmost"
        /\ IF n.leaf
           THEN Go(t, [pc |-> "scan", fr |-> Append(th[t].fr,
                         Frame(th[t].cur, Append(f.prefix, f.last), <<<<0, 0>>>>, FALSE, NoUpper))])
           ELSE ~n.modifying /\ Go(t, [cur |-> n.children[1]])
        /\ UNCHANGED <<nodes, root_, map, hist, reads>>

-----------------------------------------------------------------------------
(***************************************************************************)
(* tree_walk with size_walk_callback: path is q, i the size so far.         *)
(***************************************************************************)
WalkLayer(t) ==
    LET size == Cardinality({k \in DOMAIN map : map[k] # null})
    IN  /\ th[t].pc = "layers"
        /\ IF th[t].path = <<>>
           THEN /\ Return(t) /\ hist' = [hist EXCEPT ![t] = {}]
                /\ Record(Op(t), <<>>, {}, Cardinality(hist[t]) > Cardinality(DOMAIN map)
                                            \/ th[t].i = size, TRUE)
           ELSE /\ Go(t, [pc |-> "first", cur |-> Last(th[t].path), path |-> Front(th[t].path)])
                /\ UNCHANGED <<hist, reads>>
        /\ UNCHANGED <<nodes, root_, map>>

\* leftmost_descend_layer
WalkDown(t) ==
    LET n == nodes[th[t].cur]
    IN  /\ th[t].pc = "first"
        /\ IF n.leaf THEN Go(t, [pc |-> "walk"]) ELSE ~n.modifying /\ Go(t, [cur |-> n.children[1]])
        /\ UNCHANGED <<nodes, root_, map, hist, reads>>

WalkLeaf(t) ==
    LET n == nodes[th[t].cur]
        layers == SelectSeq(n.ents, LAMBDA e : e.layer)
    IN  /\ th[t].pc = "walk" /\ ~n.modifying
        /\ Go(t, [i |-> th[t].i + Len(n.ents) - Len(layers), cur |-> n.next,
                  path |-> th[t].path \o [j \in DOMAIN layers |-> layers[j].v],
                  pc |-> IF n.next = null THEN "layers" ELSE "walk"])
        /\ UNCHANGED <<nodes, root_, map, hist, reads>>

-----------------------------------------------------------------------------
(***************************************************************************)
(* insert0 and remove0: the way down.  parents has one entry per internal   *)
(* node: the node, its left and right siblings under the same parent, its   *)
(* header when it was read, and the child that was taken.                   *)
(***************************************************************************)
Inserts(t) == Op(t).op \in {"insert", "insert_if_absent"}

Restart(t) == Go(t, FromRoot(t))

Descend(t) ==
    LET c == th[t].cur
        n == nodes[c]
        x == child_idx(n, slice(th[t].k))
    IN  /\ th[t].pc = "down" /\ ~n.leaf /\ ~n.modifying
        /\ IF n.deleting THEN Restart(t)
           ELSE Go(t, [node |-> n.children[x], cur |-> n.children[x],
                       l |-> IF x = 1 THEN null ELSE n.children[x - 1],
                       r |-> IF x = Len(n.children) THEN null ELSE n.children[x + 1],
                       parents |-> Append(th[t].parents,
                           [n |-> c, l |-> th[t].l, r |-> th[t].r, ver |-> hdr(n), c |-> x])])
        /\ UNCHANGED <<nodes, root_, map, hist, reads>>

\* FindRespLeafNode: the leaf is responsible for the slice, or where to look next.
Responsible(n, s) ==
    ~n.deleting /\ s >= n.min_key /\ (n.next = null \/ s < nodes[n.next].min_key)

NextResp(c, n, s) ==
    IF n.deleting THEN IF n.prev # null THEN n.prev ELSE n.next
    ELSE IF s < n.min_key THEN IF n.prev # null THEN n.prev ELSE c
    ELSE n.next

(* Mutant: without the comparison of the suffixes. *)
ExactSlice(e, k) == ~e.layer

\* The slot holds the very key, and not the root of a layer.
Exact(e, k) == ~e.layer /\ e.suf = Tail(k)

\* The locks a writer needs: the leaf first, then its ancestors bottom to top.
Levels(t) ==
    <<[n |-> th[t].cur, l |-> th[t].l, r |-> th[t].r, ver |-> hdr(nodes[th[t].cur]), c |-> 0]>>
        \o Reverse(th[t].parents)

\* At a leaf: walk to the responsible leaf, read it, decide.
Find(t) ==
    LET c == th[t].cur
        n == nodes[c]
        k == th[t].k
        m == key_search(n.ents, k[1])
        e == n.ents[m]
        full == IF Inserts(t) THEN m = 0 /\ Len(n.ents) = NKeysPerNode
                              ELSE Len(n.ents) <= NMinKeysPerNode
    IN  /\ th[t].pc = "down" /\ n.leaf /\ ~n.modifying
        /\ IF ~Responsible(n, slice(k)) THEN Go(t, [cur |-> NextResp(c, n, slice(k))]) /\ UNCHANGED <<hist, reads>>
           ELSE IF m # 0 /\ e.layer
           THEN /\ Go(t, [node |-> e.v, cur |-> e.v, k |-> Tail(k), l |-> null, r |-> null,
                          parents |-> <<>>,
                          outer |-> Append(th[t].outer, [leaf |-> c, k |-> k, held |-> <<>>])])
                /\ UNCHANGED <<hist, reads>>
           ELSE IF ~Inserts(t) /\ (m = 0 \/ ~Exact(e, k))
           THEN ReadDone(t, <<>>, {})
           ELSE IF full /\ c # th[t].node THEN Restart(t) /\ UNCHANGED <<hist, reads>>
           ELSE Go(t, [pc |-> "lock", lv |-> Levels(t), i |-> 1]) /\ UNCHANGED <<hist, reads>>
        /\ UNCHANGED <<nodes, root_, map>>

-----------------------------------------------------------------------------
(***************************************************************************)
(* What a writer does to the nodes it has locked.  ns is the sequence of    *)
(* nodes; every operator returns the new one.                               *)
(***************************************************************************)
\* mark_modifying(), with the fields of r replaced.
Modify(n, r) == [(r @@ n) EXCEPT !.modifying = TRUE]

\* leaf_node::release, internal_node::release
Release(n) == [n EXCEPT !.deleting = TRUE]

(* Mutant: the back link is forgotten. *)
KeepPrev(ns, x, p) == ns

\* x->next_->prev_ = p, when there is a next_.
SetPrev(ns, x, p) == IF x = null THEN ns ELSE [ns EXCEPT ![x].prev = p]

(***************************************************************************)
(* The ancestors of a split, bottom to top: insert the new child after its  *)
(* left half, and split the node when it was full.  The three cases of the  *)
(* code are one: of the NKeysPerNode + 1 keys, the one at NMinKeysPerNode + 1 *)
(* goes up.  up is <<mk, new node>>, or <<>> when an ancestor had room.     *)
(***************************************************************************)
RECURSIVE InsertUp(_, _, _, _, _)
InsertUp(ns, lv, i, mk, new) ==
    IF i > Len(lv) THEN [ns |-> ns, up |-> <<mk, new>>]
    ELSE LET p  == lv[i].n
             ks == InsertAt(ns[p].keys, lv[i].c, mk)
             cs == InsertAt(ns[p].children, lv[i].c + 1, new)
             h  == NMinKeysPerNode + 1
         IN  IF Len(ks) <= NKeysPerNode
             THEN [ns |-> [ns EXCEPT ![p] = Modify(@, [keys |-> ks, children |-> cs])], up |-> <<>>]
             ELSE InsertUp(
                    Append([ns EXCEPT ![p] = Modify(@, [keys |-> SubSeq(ks, 1, h - 1),
                                                        children |-> SubSeq(cs, 1, h)])],
                           NewInternal(SubSeq(ks, h + 1, Len(ks)),
                                       SubSeq(cs, h + 1, Len(cs)), FALSE)),
                    lv, i + 1, ks[h], Len(ns) + 1)

(***************************************************************************)
(* The ancestors of a removal, bottom to top.  st is the status the child   *)
(* returned and nk the separator it moved.  up is <<node>> when the root    *)
(* lost its last key and node replaces it, else <<>>.                       *)
(***************************************************************************)
RECURSIVE RemoveUp(_, _, _, _, _)
RemoveUp(ns, lv, i, st, nk) ==
    LET p == lv[i].n
        c == lv[i].c
        d == IF st = "MERGE_WITH_LEFT" THEN c - 1 ELSE c   \* del_key_idx
        ks == RemoveAt(ns[p].keys, d)
        cs == RemoveAt(ns[p].children, d + 1)
        r == lv[i].r
        l == lv[i].l
        sep(j) == ns[lv[i + 1].n].keys[j]                 \* *min_key, *max_key
        pc == lv[i + 1].c
    IN  IF st = "STOLE_FROM_LEFT"
        THEN [ns |-> [ns EXCEPT ![p].keys[c - 1] = nk], up |-> <<>>]
        ELSE IF st = "STOLE_FROM_RIGHT"
        THEN [ns |-> [ns EXCEPT ![p].keys[c] = nk], up |-> <<>>]
        ELSE IF Len(ns[p].keys) > NMinKeysPerNode
        THEN [ns |-> [ns EXCEPT ![p] = Modify(@, [keys |-> ks, children |-> cs])], up |-> <<>>]
        ELSE IF r # null /\ Len(ns[r].keys) > NMinKeysPerNode
        THEN RemoveUp([ns EXCEPT
                 ![p] = Modify(@, [keys |-> Append(ks, sep(pc)),
                                   children |-> Append(cs, ns[r].children[1])]),
                 ![r] = Modify(@, [keys |-> Tail(ns[r].keys), children |-> Tail(ns[r].children)])],
                 lv, i + 1, "STOLE_FROM_RIGHT", Head(ns[r].keys))
        ELSE IF r # null
        THEN RemoveUp([ns EXCEPT
                 ![p] = Modify(@, [keys |-> Append(ks, sep(pc)) \o ns[r].keys,
                                   children |-> cs \o ns[r].children]),
                 ![r] = Release(Modify(@, [modifying |-> TRUE]))],
                 lv, i + 1, "MERGE_WITH_RIGHT", 0)
        ELSE IF l # null /\ Len(ns[l].keys) > NMinKeysPerNode
        THEN RemoveUp([ns EXCEPT
                 ![p] = Modify(@, [keys |-> <<sep(pc - 1)>> \o ks,
                                   children |-> <<Last(ns[l].children)>> \o cs]),
                 ![l] = Modify(@, [keys |-> Front(ns[l].keys), children |-> Front(ns[l].children)])],
                 lv, i + 1, "STOLE_FROM_LEFT", Last(ns[l].keys))
        ELSE IF l # null
        THEN RemoveUp([ns EXCEPT
                 ![l] = Modify(@, [keys |-> Append(ns[l].keys, sep(pc - 1)) \o ks,
                                   children |-> ns[l].children \o cs]),
                 ![p] = Release(Modify(@, [modifying |-> TRUE]))],
                 lv, i + 1, "MERGE_WITH_LEFT", 0)
        ELSE LET q == Modify(ns[p], [keys |-> ks, children |-> cs])
             IN  IF ks = <<>> THEN [ns |-> [ns EXCEPT ![p] = Release(q)], up |-> <<cs[1]>>]
                 ELSE [ns |-> [ns EXCEPT ![p] = q], up |-> <<>>]

\* A removal leaves the leaf too small: steal from the right sibling r, or merge with it.
RemoveRight(ns, lv, es, just) ==
    LET c == lv[1].n
        r == lv[1].r
        re == ns[r].ents
        s == StealRight(re)
    IN  IF Len(re) > NMinKeysPerNode /\ Len(es) + s <= NKeysPerNode /\ s < Len(re)
        THEN RemoveUp([ns EXCEPT
                 ![c] = Modify(@, [ents |-> es \o SubSeq(re, 1, s)]),
                 ![r] = Modify(@, [ents |-> SubSeq(re, s + 1, Len(re)), min_key |-> re[s + 1].k[1]])],
                 lv, 2, "STOLE_FROM_RIGHT", re[s + 1].k[1])
        ELSE IF Len(re) > NMinKeysPerNode /\ Len(es) + Len(re) > NKeysPerNode
        THEN [just EXCEPT !.ns[r].modifying = TRUE]
        ELSE RemoveUp(SetPrev([ns EXCEPT
                 ![c] = Modify(@, [ents |-> es \o re, next |-> ns[r].next]),
                 ![r] = Release(Modify(@, [modifying |-> TRUE]))], ns[r].next, c),
                 lv, 2, "MERGE_WITH_RIGHT", 0)

\* The same with the left sibling, when there is no right one.
RemoveLeft(ns, lv, es, just) ==
    LET c == lv[1].n
        l == lv[1].l
        le == ns[l].ents
        s == StealLeft(le)
        mk == le[Len(le) - s + 1].k[1]
    IN  IF Len(le) > NMinKeysPerNode /\ Len(es) + s <= NKeysPerNode /\ s < Len(le)
        THEN RemoveUp([ns EXCEPT
                 ![c] = Modify(@, [ents |-> SubSeq(le, Len(le) - s + 1, Len(le)) \o es, min_key |-> mk]),
                 ![l] = Modify(@, [ents |-> SubSeq(le, 1, Len(le) - s)])],
                 lv, 2, "STOLE_FROM_LEFT", mk)
        ELSE IF Len(le) > NMinKeysPerNode /\ Len(es) + Len(le) > NKeysPerNode
        THEN [just EXCEPT !.ns[l].modifying = TRUE]
        ELSE RemoveUp(SetPrev([ns EXCEPT
                 ![l] = Modify(@, [ents |-> le \o es, next |-> ns[c].next]),
                 ![c] = Release(Modify(@, [modifying |-> TRUE]))], ns[c].next, l),
                 lv, 2, "MERGE_WITH_LEFT", 0)

\* The leaf at the bottom of a removal, lv[1]; x is the slot that goes.
RemoveLeaf(ns, lv, x) ==
    LET c == lv[1].n
        es == RemoveAt(ns[c].ents, x)
        just == [ns |-> [ns EXCEPT ![c] = Modify(@, [ents |-> es])], up |-> <<>>]
    IN  IF Len(ns[c].ents) > NMinKeysPerNode \/ (lv[1].r = null /\ lv[1].l = null) THEN just
        ELSE IF lv[1].r # null THEN RemoveRight(ns, lv, es, just)
        ELSE RemoveLeft(ns, lv, es, just)

\* The root of the tree, or of a layer, becomes new: *root_location = new.
SetRoot(ns, old, new) == [ns EXCEPT ![new].root = TRUE, ![old].root = FALSE]

NewRoot(ns, old, up) ==
    Append([ns EXCEPT ![old].root = FALSE], NewInternal(<<up[1]>>, <<old, up[2]>>, TRUE))

\* The map changes at key k, and every running call may see it.
Note(k, v) ==
    /\ map' = [map EXCEPT ![k] = v]
    /\ hist' = [u \in Threads |-> IF hist[u] = {} THEN {} ELSE hist[u] \cup {<<k, v>>}]

-----------------------------------------------------------------------------
(***************************************************************************)
(* Locking.  locks is locked_nodes; ns are the nodes with the new lock.     *)
(***************************************************************************)
AllLocks(t) == th[t].locks \o FlattenSeq([j \in DOMAIN th[t].outer |-> th[t].outer[j].held])

(* Mutant: the version stays. *)
UnlockedSameVersion(n) == [n EXCEPT !.owner = null, !.modifying = FALSE]

\* node::unlock()
Unlocked(n) ==
    [n EXCEPT !.owner = null, !.modifying = FALSE,
              !.version = IF n.modifying \/ n.deleting THEN @ + 1 ELSE @]

\* What follows when the changes are made: a root that has to be replaced, then the unlocks.
Applied(t, res, locks) ==
    IF res.up = <<>>
    THEN /\ nodes' = res.ns /\ UNCHANGED root_
         /\ Go(t, [pc |-> "unlock", then |-> "done", locks |-> locks])
    ELSE IF th[t].outer # <<>>
    THEN /\ nodes' = res.ns /\ UNCHANGED root_
         /\ Go(t, [pc |-> "refind", up |-> res.up, locks |-> locks, cur |-> Last(th[t].outer).leaf])
    ELSE /\ IF Inserts(t)
            THEN nodes' = NewRoot(res.ns, root_, res.up) /\ root_' = Len(res.ns) + 1
            ELSE nodes' = SetRoot(res.ns, root_, res.up[1]) /\ root_' = res.up[1]
         /\ Go(t, [pc |-> "unlock", then |-> "done", locks |-> locks])

\* The key is there: its value is replaced, unless only_if_absent.
Overwrite(t, ns, c, m, locks) ==
    /\ IF Op(t).op = "insert"
       THEN nodes' = [ns EXCEPT ![c].ents[m].v = Op(t).v] /\ Note(Op(t).k, Op(t).v)
       ELSE nodes' = ns /\ UNCHANGED <<map, hist>>
    /\ Go(t, [pc |-> "unlock", then |-> "done", locks |-> locks])
    /\ WriteDone(t, TRUE) /\ UNCHANGED root_

\* Same slice, another suffix: a new layer for both keys, into which t descends.
NewLayer(t, ns, c, m, locks) ==
    LET e == ns[c].ents[m]
        new == Len(ns) + 1
        k == th[t].k
    IN  /\ nodes' = Append([ns EXCEPT ![c] = Modify(@, [ents |->
                               [@.ents EXCEPT ![m] = [@ EXCEPT !.v = new, !.suf = <<>>, !.layer = TRUE]]])],
                            NewLeaf(<<Slot(e.suf, e.v)>>, TRUE))
        /\ Go(t, [pc |-> "down", node |-> new, cur |-> new, k |-> Tail(k), l |-> null,
                  r |-> null, parents |-> <<>>, locks |-> <<>>,
                  outer |-> Append(th[t].outer, [leaf |-> c, k |-> k, held |-> locks])])
        /\ UNCHANGED <<root_, map, hist, reads>>

\* The leaf has room.
InsertHere(t, ns, c, locks) ==
    /\ Applied(t, [ns |-> [ns EXCEPT ![c] = Modify(@, [ents |-> InsertSlot(@.ents, Slot(th[t].k, Op(t).v))])],
                   up |-> <<>>], locks)
    /\ Note(Op(t).k, Op(t).v) /\ WriteDone(t, FALSE)

\* The leaf is full; min_key_ of the new leaf is still 0 when it can be reached.
SplitHere(t, ns, c, locks) ==
    LET n == ns[c]
        new == Len(ns) + 1
        halves == SplitLeaf(n.ents, Slot(th[t].k, Op(t).v), n.next = null)
    IN  /\ nodes' = Append(SetPrev([ns EXCEPT ![c] = Modify(@, [ents |-> halves[1], next |-> new])],
                                   n.next, new),
                           [NewLeaf(halves[2], FALSE) EXCEPT !.prev = c, !.next = n.next])
        /\ Go(t, [pc |-> "split", up |-> <<new>>, locks |-> locks])
        /\ Note(Op(t).k, Op(t).v) /\ WriteDone(t, FALSE) /\ UNCHANGED root_

\* All locks are held: the change to the leaf, and for a removal to its ancestors.
Apply(t, ns, locks) ==
    LET lv == th[t].lv
        c == lv[1].n
        n == ns[c]
        m == key_search(n.ents, th[t].k[1])
    IN  IF ~Inserts(t)
        THEN /\ Applied(t, RemoveLeaf(ns, lv, m), locks)
             /\ Note(Op(t).k, null) /\ WriteDone(t, TRUE)
        ELSE IF m # 0 /\ Exact(n.ents[m], th[t].k) THEN Overwrite(t, ns, c, m, locks)
        ELSE IF m # 0 THEN NewLayer(t, ns, c, m, locks)
        ELSE IF Len(n.ents) < NKeysPerNode THEN InsertHere(t, ns, c, locks)
        ELSE SplitHere(t, ns, c, locks)

\* The rest of a leaf split: min_key_ is set and the ancestors are changed.
SplitUp(t) ==
    LET new == th[t].up[1]
        mk == nodes[new].ents[1].k[1]
        ns == [nodes EXCEPT ![new].min_key = mk]
    IN  /\ th[t].pc = "split"
        /\ Applied(t, InsertUp(ns, th[t].lv, 2, mk, new), th[t].locks)
        /\ UNCHANGED <<map, hist, reads>>

\* A step that only locks or unlocks.
Locking(t, ns, r) == nodes' = ns /\ Go(t, r) /\ UNCHANGED <<root_, map, hist, reads>>

\* Something changed on the way up: unlock everything and start over.
GiveUp(t, ns, locks) == Locking(t, ns, [pc |-> "unlock", then |-> "retry", locks |-> locks])

\* The level is safe: no ancestor above it has to change.
Safe(t, n) ==
    IF Inserts(t)
    THEN \/ key_slots_used(n) < NKeysPerNode
         \/ n.leaf /\ key_search(n.ents, th[t].k[1]) # 0
    ELSE key_slots_used(n) > NMinKeysPerNode

\* Level i is locked: go on with the next one, or make the change.
NextLevel(t, ns, locks) ==
    IF th[t].i = Len(th[t].lv)
    THEN Apply(t, ns, locks)
    ELSE Locking(t, ns, [pc |-> "lock", i |-> th[t].i + 1, locks |-> locks])

LockLevel(t) ==
    LET i == th[t].i
        x == th[t].lv[i]
        n == nodes[x.n]
        ns == [nodes EXCEPT ![x.n].owner = t]
        locks == Append(th[t].locks, x.n)
        top == IF Inserts(t) THEN i = Len(th[t].lv) /\ (i > 1 \/ ~Safe(t, n))
                             ELSE ~Safe(t, n) /\ x.l = null /\ x.r = null
    IN  /\ th[t].pc = "lock" /\ n.owner = null
        /\ IF hdr(n) # x.ver
           THEN IF i = 1   \* retry_cur_leaf
                THEN Locking(t, [nodes EXCEPT ![x.n] = Unlocked(@)], [pc |-> "down", cur |-> th[t].node])
                ELSE GiveUp(t, ns, locks)
           ELSE IF top /\ ~n.root THEN GiveUp(t, ns, locks)
           ELSE IF Safe(t, n) THEN Apply(t, ns, locks)
           ELSE IF ~Inserts(t) /\ x.r # null
           THEN Locking(t, ns, [pc |-> "lockright", locks |-> locks])
           ELSE IF ~Inserts(t) /\ x.l # null
           THEN Locking(t, nodes, [pc |-> "lockleft", locks |-> locks])
           ELSE NextLevel(t, ns, locks)

LockRight(t) ==
    LET r == th[t].lv[th[t].i].r
    IN  /\ th[t].pc = "lockright" /\ nodes[r].owner = null
        /\ NextLevel(t, [nodes EXCEPT ![r].owner = t], Append(th[t].locks, r))

\* Left before right: the node itself was unlocked first, and is locked again after.
LockLeft(t) ==
    LET l == th[t].lv[th[t].i].l
    IN  /\ th[t].pc = "lockleft" /\ nodes[l].owner = null
        /\ Locking(t, [nodes EXCEPT ![l].owner = t],
                   [pc |-> "relock", locks |-> Append(th[t].locks, l)])

Relock(t) ==
    LET x == th[t].lv[th[t].i]
        ns == [nodes EXCEPT ![x.n].owner = t]
    IN  /\ th[t].pc = "relock" /\ nodes[x.n].owner = null
        /\ IF hdr(nodes[x.n]) # x.ver THEN GiveUp(t, ns, th[t].locks)
           ELSE NextLevel(t, ns, th[t].locks)

\* The root of a layer changed: find the leaf that points to it again, lock it, redirect it.
Refind(t) ==
    LET f == Last(th[t].outer)
        n == nodes[th[t].cur]
    IN  /\ th[t].pc = "refind" /\ ~n.modifying
        /\ IF Responsible(n, slice(f.k))
           THEN Go(t, [pc |-> "redirect", lv |-> <<hdr(n)>>])
           ELSE Go(t, [cur |-> NextResp(th[t].cur, n, slice(f.k))])
        /\ UNCHANGED <<nodes, root_, map, hist, reads>>

Redirect(t) ==
    LET c == th[t].cur
        m == key_search(nodes[c].ents, Last(th[t].outer).k[1])
        old == nodes[c].ents[m].v
        ns == IF Inserts(t) THEN NewRoot(nodes, old, th[t].up) ELSE SetRoot(nodes, old, th[t].up[1])
        new == IF Inserts(t) THEN Len(ns) ELSE th[t].up[1]
    IN  /\ th[t].pc = "redirect" /\ nodes[c].owner = null
        /\ IF hdr(nodes[c]) # th[t].lv[1] THEN Locking(t, [nodes EXCEPT ![c] = Unlocked(@)], [pc |-> "refind"])
           ELSE Locking(t, [ns EXCEPT ![c].ents[m].v = new, ![c].owner = t],
                        [pc |-> "unlock", then |-> "done", locks |-> Append(th[t].locks, c)])

Unlock(t) ==
    LET all == AllLocks(t)
    IN  /\ th[t].pc = "unlock"
        /\ nodes' = [nodes EXCEPT ![Head(all)] = Unlocked(@)]
        /\ IF Len(all) > 1
           THEN Go(t, [locks |-> Tail(all), outer |-> <<>>]) /\ UNCHANGED hist
           ELSE IF th[t].then = "retry" THEN Restart(t) /\ UNCHANGED hist
           ELSE Return(t) /\ hist' = [hist EXCEPT ![t] = {}]
        /\ UNCHANGED <<root_, map, reads>>

Step(t) ==
    \/ Call(t) \/ SearchNode(t) \/ SearchRight(t)
    \/ ScanLayer(t) \/ ScanLeaf(t) \/ ScanEmit(t) \/ ScanLeftmost(t)
    \/ WalkLayer(t) \/ WalkDown(t) \/ WalkLeaf(t)
    \/ Descend(t) \/ Find(t)
    \/ LockLevel(t) \/ LockRight(t) \/ LockLeft(t) \/ Relock(t)
    \/ SplitUp(t) \/ Refind(t) \/ Redirect(t) \/ Unlock(t)

(***************************************************************************)
(* The step of t reads a leaf that a split has linked but not yet given its *)
(* min_key_, and which it would not take to be responsible afterwards.      *)
(***************************************************************************)
MeetsUnset(t) ==
    LET reads_leaf(x, s) ==
            \E u \in Threads : /\ th[u].pc = "split" /\ th[u].up[1] = x
                                /\ s < nodes[x].ents[1].k[1]
    IN  \/ th[t].pc = "search" /\ reads_leaf(th[t].cur, slice(SearchKey(t)))
        \/ th[t].pc = "scan" /\ reads_leaf(Last(th[t].fr).leaf, Last(th[t].fr).next_key)
        \/ th[t].pc = "down" /\ reads_leaf(th[t].cur, slice(th[t].k))
        \/ th[t].pc = "refind" /\ reads_leaf(th[t].cur, slice(Last(th[t].outer).k))

\* join(): every thread has made its calls.
Quiescent == \A t \in Threads : th[t].pc = "idle" /\ th[t].prog = <<>>

Next ==
    \/ \E t \in Threads : Step(t) /\ early' = (early \/ MeetsUnset(t))
    \/ Quiescent /\ UNCHANGED vars

Spec == Init /\ [][Next]_vars

-----------------------------------------------------------------------------
(***************************************************************************)
(* Properties.                                                              *)
(***************************************************************************)
\* Every insert and remove finds its key exactly when the map has it at some moment of the call.
WritesRight ==
    \A r \in reads : r.op.op \in {"insert", "insert_if_absent", "remove"} => r.sound /\ r.complete

(***************************************************************************)
(* What the tests assert of search(): a key that is there, with its value,  *)
(* during the whole call is found.                                          *)
(***************************************************************************)
LookupsRight == \A r \in reads : r.op.op = "search" => r.sound /\ r.complete

(***************************************************************************)
(* A lookup returns no value that its key did not have during the call, and *)
(* misses a key that stays only if its leaf has changed when it returns, so *)
(* that a comparison of versions would notice.  size() counts the keys, if  *)
(* no key changes during the walk.                                          *)
(***************************************************************************)
LookupsMissOnlyWhenChanged ==
    \A r \in reads : r.op.op \in {"search", "size"} => r.sound /\ (r.complete \/ r.changed)

\* A scan delivers, in order, only pairs that were there during the scan, and all that stayed.
ScansRight == \A r \in reads : r.op.op = "scan" => r.sound /\ r.complete

\* The nodes of a finished lookup or scan r for which ok holds still have the versions it saw,
\* and its range now has a key it has not delivered, or lacks one it has.
Overtaken(r, ok(_)) ==
    /\ r.nodes # {} /\ ~Changed(r.nodes) /\ \A x \in r.nodes : ok(x[1])
    /\ {k \in DOMAIN map : InRange(r.op, k) /\ map[k] # null} # {r.got[i][1] : i \in DOMAIN r.got}

\* What on_resp_node() promises: versions that are unchanged show that nothing was missed.
VersionsProtect == \A r \in reads : ~Overtaken(r, LAMBDA x : TRUE)

\* The same as long as the nodes are still part of the tree.
VersionsProtectInTree == \A r \in reads : ~Overtaken(r, LAMBDA x : ~nodes[x].deleting)

\* base_invariant_checker: n is responsible for the slices in [lo, hi); hi = -1: no bound.
BaseOK(n, lo, hi, root) ==
    LET in(s) == s >= lo /\ (hi # -1 => s < hi)
    IN  /\ n.owner = null /\ ~n.modifying /\ ~n.deleting /\ n.root = root
        /\ key_slots_used(n) <= NKeysPerNode
        /\ IF n.leaf THEN \A i \in DOMAIN n.ents : in(n.ents[i].k[1])
           ELSE \A i \in DOMAIN n.keys : in(n.keys[i])

\* base_invariant_unique_keys_check, and that the slots are in order.
KeysInOrder(n) ==
    IF n.leaf THEN \A i \in 1 .. Len(n.ents) - 1 : SliceLess(n.ents[i].k, n.ents[i + 1].k)
    ELSE \A i \in 1 .. Len(n.keys) - 1 : n.keys[i] < n.keys[i + 1]

\* leaf_node::invariant_checker_impl, and the links to the next leaf.
LeafOK(x, lo, hi, root) ==
    LET n == nodes[x]
    IN  /\ root \/ n.ents # <<>>
        /\ n.min_key = lo
        /\ n.next # null => nodes[n.next].prev = x /\ nodes[n.next].min_key = hi

\* invariant_checker() for node x and all below it.
RECURSIVE WellFormed(_, _, _, _)
WellFormed(x, lo, hi, root) ==
    LET n == nodes[x]
    IN  /\ BaseOK(n, lo, hi, root) /\ KeysInOrder(n)
        /\ IF n.leaf
           THEN /\ LeafOK(x, lo, hi, root)
                /\ \A i \in DOMAIN n.ents : n.ents[i].layer => WellFormed(n.ents[i].v, 0, -1, TRUE)
           ELSE /\ Len(n.keys) >= IF root THEN 1 ELSE NMinKeysPerNode
                /\ \A i \in DOMAIN n.children :
                      WellFormed(n.children[i], IF i = 1 THEN lo ELSE n.keys[i - 1],
                                 IF i = Len(n.children) THEN hi ELSE n.keys[i], FALSE)

\* The pairs below node x, whose keys start with prefix.
RECURSIVE Contents(_, _)
Contents(x, prefix) ==
    LET n == nodes[x]
    IN  IF n.leaf
        THEN UNION {IF e.layer THEN Contents(e.v, Append(prefix, e.k))
                    ELSE {<<prefix \o <<e.k>> \o e.suf, e.v>>} : e \in Range(n.ents)}
        ELSE UNION {Contents(c, prefix) : c \in Range(n.children)}

\* When the threads have joined, the tree is well formed and holds exactly the map.
TreeIsMap ==
    Quiescent => /\ WellFormed(root_, 0, -1, TRUE)
                 /\ Contents(root_, <<>>) = {<<k, map[k]>> : k \in {j \in DOMAIN map : map[j] # null}}
=============================================================================

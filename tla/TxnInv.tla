------------------------------- MODULE TxnInv -------------------------------
(***************************************************************************)
(* The inductive invariant of Txn: who owns a tuple in which phase of a    *)
(* transaction, where the tree leads, which tuples are on their way to be  *)
(* freed, and which of them somebody can still reach.                      *)
(***************************************************************************)
EXTENDS TxnState

Running == {"run", "read", "find", "insert"}
Deciding == {"lock", "validate", "write", "replace", "undo"}
InTxn == {"snapshot", "end"} \cup Running \cup Deciding
PCs == InTxn \cup {"idle", "collect", "clean", "removed"}

HeapRec == [alive : BOOLEAN, owner : Cores \cup {None}, write_intent : BOOLEAN,
            latest : BOOLEAN, deleting : BOOLEAN, version : 0 .. MAX_TID,
            val : Values, next : Tuples \cup {None}]
ReadRec == [tuple : Tuples, tid : 0 .. MAX_TID]
WriteRec == [tuple : Tuples, key : Keys, val : Values, insert : BOOLEAN]
TodoRec == [key : Keys, tuple : Tuples]
GcEntry == [tuple : Tuples, key : Keys \cup {None}, tick : Nat]
GcRec == [queue : SUBSET GcEntry, scratch : SUBSET GcEntry, last_reaped_epoch : Nat]
LimboRec == [tuple : Tuples, waits : SUBSET Cores]

TxRec == [pc : PCs, n : Nat, ops : Nat, snap : Nat,
          read_set : Seq(ReadRec), absent : Nat \cup {None}, write_set : Seq(WriteRec),
          todo : Seq(TodoRec), key : Keys \cup {None}, val : Values,
          order : Seq(Tuples), i : Nat \ {0}, tid : 0 .. MAX_TID - 1,
          head : Tuples \cup {None},
          obs : SUBSET [key : Keys, val : Values], own : SUBSET [got : Nat, last : Nat]]

(* The types of all variables but the history. *)
TxnTypes ==
  /\ ClockTypeOK /\ current_tick <= MaxTick
  /\ workload \in Workloads
  /\ tree \in [Keys -> Tuples \cup {None}]
  /\ leaf_version \in Nat
  /\ heap \in [Tuples -> HeapRec]
  /\ limbo \subseteq LimboRec
  /\ tx \in [Cores -> TxRec]
  /\ last_commit_tid \in [Cores -> 0 .. MAX_TID - 1]
  /\ gc \in [Cores -> GcRec]

(* The writes that a transaction has not come to yet. *)
Ahead(t) == {j \in DoWrite(t.write_set) : j >= t.i}

(* What the place a core is at says about its transaction t and about the  *)
(* tick p it pins.                                                         *)
Fits(t, p, readonly) ==
  /\ t.pc \notin {"end"} \cup Running \cup Deciding =>
       t.read_set = <<>> /\ t.write_set = <<>>
  /\ t.pc \in {"snapshot"} \cup Running => t.order = <<>> /\ t.i = 1
  /\ t.pc = "read" <=> t.todo # <<>>
  /\ t.pc \in {"find", "insert"} => t.key \in Keys
  /\ \A a, b \in DOMAIN t.write_set :
       t.write_set[b].insert /\ t.write_set[a].tuple = t.write_set[b].tuple => b <= a
  /\ t.pc \in Deciding =>
       {t.order[j] : j \in DOMAIN t.order} = {t.write_set[j].tuple : j \in DOMAIN t.write_set}
  /\ t.pc = "lock" => \A a, b \in DOMAIN t.order : a < b => t.order[a] < t.order[b]
  /\ t.pc \in {"find", "insert", "lock", "validate", "write", "replace"} => ~readonly
  /\ readonly => t.write_set = <<>> /\ t.read_set = <<>>
  /\ IF t.pc \in {"replace", "removed"} THEN t.head \in Tuples ELSE t.head = None
  /\ t.pc = "replace" =>
       /\ t.i - 1 \in DOMAIN t.write_set
       /\ \A j \in Ahead(t) : t.write_set[j].tuple # t.write_set[t.i - 1].tuple
  /\ t.pc \in InTxn \cup {"removed"} => p # 0
  /\ t.pc \in {"idle", "collect"} => p = 0

PcOK(c) == Fits(tx[c], pinned[c], IsSnapshot(c))

(* The epoch of a committing writer is drawn inside its region, and none   *)
(* of the entries of its queue has a later one.                            *)
EpochOK(c) ==
  tx[c].pc \in {"validate", "write", "replace"} /\ tx[c].write_set # <<>> =>
    /\ pinned[c] <= EpochId(tx[c].tid) /\ EpochId(tx[c].tid) <= current_tick
    /\ \A e \in gc[c].queue : e.tick <= to_read_only_tick(EpochId(tx[c].tid))

(* The snapshot of a reader is no older than its region. *)
SnapOK(c) ==
  IsSnapshot(c) /\ tx[c].pc \in Running =>
    \E g \in 0 .. MaxTick : tx[c].snap = ComputeReadOnlyTid(g) /\ pinned[c] <= g + 1

Entries(c) == gc[c].queue \cup gc[c].scratch

InTree(x) == \E k \in Keys : tree[k] = x
InLimbo(x) == \E l \in limbo : l.tuple = x
(* x is queued to be freed on the spot. *)
Queued(x) == \E c \in Cores : \E e \in Entries(c) : e.tuple = x /\ e.key = None
Removing(c, x) == tx[c].pc = "removed" /\ tx[c].head = x
Replacing(c) == tx[c].write_set[tx[c].i - 1]

(* The owner of a tuple knows of it. *)
LockOK(x) ==
  LET c == heap[x].owner IN c # None =>
    /\ heap[x].alive
    /\ IF heap[x].write_intent
       THEN \/ /\ tx[c].pc \in Running \cup {"lock"}
               /\ DidInsert(tx[c], x) /\ Tentative(x)
            \/ /\ tx[c].pc = "lock"
               /\ \E j \in DOMAIN tx[c].order : j < tx[c].i /\ tx[c].order[j] = x
            \/ /\ tx[c].pc \in {"validate", "write", "replace", "undo"}
               /\ \E j \in DOMAIN tx[c].order : tx[c].order[j] = x
            \/ tx[c].pc = "replace" /\ tx[c].head = x
       ELSE Removing(c, x)

(* w is a write of c that c has the lock for. *)
Owns(c, w) ==
  LET h == heap[w.tuple]
  IN h.owner = c /\ h.write_intent /\ h.latest /\ tree[w.key] = w.tuple

Unqueued(x) == \A d \in Cores : \A e \in Entries(d) : e.tuple # x

(* ... and that is still to be installed. *)
Pending(c, w) ==
  Owns(c, w) /\ (w.insert => Tentative(w.tuple) /\ Unqueued(w.tuple))

(* What a core owns in each phase: what it has inserted, ... *)
OwnsInserts(c) ==
  LET ws == tx[c].write_set IN
  tx[c].pc \in Running \cup {"lock"} => \A j \in DOMAIN ws :
    ws[j].insert => Pending(c, ws[j])

(* ... the tuples it has locked so far, ... *)
OwnsLocked(c) ==
  tx[c].pc = "lock" => \A j \in DOMAIN tx[c].order : j < tx[c].i =>
    LET h == heap[tx[c].order[j]] IN h.owner = c /\ h.write_intent /\ h.latest

(* ... all it writes, ... *)
OwnsWrites(c) ==
  LET ws == tx[c].write_set IN
  /\ tx[c].pc = "validate" => \A j \in DOMAIN ws : Pending(c, ws[j])
  /\ tx[c].pc \in {"write", "replace"} => \A j \in Ahead(tx[c]) : Pending(c, ws[j])

(* ... what it has not undone yet, ... *)
OwnsUndone(c) ==
  LET ws == tx[c].write_set IN
  tx[c].pc = "undo" => \A j \in DOMAIN ws :
    ws[j].insert /\ heap[ws[j].tuple].owner = c => Pending(c, ws[j])

(* ... a tuple it replaces and the new head, ... *)
OwnsReplaced(c) ==
  tx[c].pc = "replace" =>
    LET w == Replacing(c)
        h == heap[w.tuple]
        n == heap[tx[c].head]
    IN /\ h.alive /\ h.owner = c /\ h.write_intent /\ ~h.latest /\ tree[w.key] = w.tuple
       /\ ~Queued(w.tuple) /\ ~InLimbo(w.tuple)
       /\ ~h.deleting => Unqueued(w.tuple)
       /\ n.alive /\ n.owner = c /\ n.write_intent /\ n.latest
       /\ n.deleting = (w.val = None) /\ n.next = w.tuple /\ n.version = tx[c].tid
       /\ ~InTree(tx[c].head) /\ Unqueued(tx[c].head)

(* ... or a tuple it collects. *)
OwnsRemoved(c) ==
  tx[c].pc = "removed" =>
    LET h == heap[tx[c].head]
    IN /\ h.alive /\ h.owner = c /\ ~h.write_intent /\ h.latest
       /\ ~InTree(tx[c].head) /\ Unqueued(tx[c].head)

OwnsOK(c) ==
  /\ OwnsInserts(c) /\ OwnsLocked(c) /\ OwnsWrites(c)
  /\ OwnsUndone(c) /\ OwnsReplaced(c) /\ OwnsRemoved(c)

TupleOK(x) ==
  /\ ~heap[x].alive => ~heap[x].latest /\ heap[x].owner = None
  /\ heap[x].latest => \/ InTree(x)
                       \/ \E c \in Cores : tx[c].pc \in {"replace", "removed"} /\ tx[c].head = x
  /\ heap[x].version # MAX_TID => EpochId(heap[x].version) <= current_tick
  /\ heap[x].version = MAX_TID => heap[x].next = None
  /\ heap[x].alive => heap[x].version # MIN_TID

TreeOK ==
  /\ \A j, k \in Keys : tree[j] = tree[k] /\ tree[j] # None => j = k
  /\ \A k \in Keys : LET x == tree[k] IN x # None =>
       /\ heap[x].alive
       /\ heap[x].latest \/ \E c \in Cores : tx[c].pc = "replace" /\ Replacing(c).tuple = x

(* What is queued or released is queued or released once, and is out of    *)
(* the tree, or is a removed key's latest tuple.                           *)
GcOK ==
  /\ \A c, d \in Cores : \A e \in Entries(c), f \in Entries(d) :
       e.tuple = f.tuple => c = d /\ e = f
  /\ \A c \in Cores : gc[c].queue \cap gc[c].scratch = {}
  /\ \A c \in Cores : \A e \in Entries(c) :
       /\ heap[e.tuple].alive /\ ~InLimbo(e.tuple)
       /\ e.key = None => ~heap[e.tuple].latest /\ ~InTree(e.tuple)
       /\ e.key # None => /\ heap[e.tuple].deleting
                          /\ heap[e.tuple].latest => tree[e.key] = e.tuple
       /\ e.tick <= to_read_only_tick(current_tick)
  /\ \A c \in Cores : \A e \in gc[c].scratch : e.tick < to_read_only_tick(last_tick_inclusive)
  /\ \A l, m \in limbo : l.tuple = m.tuple => l = m
  /\ \A l \in limbo : heap[l.tuple].alive /\ ~heap[l.tuple].latest /\ ~InTree(l.tuple)

Ptrs(c) ==
  {tx[c].todo[j].tuple : j \in DOMAIN tx[c].todo}
    \cup {tx[c].read_set[j].tuple : j \in DOMAIN tx[c].read_set}
    \cup {tx[c].write_set[j].tuple : j \in DOMAIN tx[c].write_set}

(* A tuple a core looks up under a key is where the key leads, or is no    *)
(* longer the latest.                                                      *)
Leads(k, x) == tree[k] = x \/ ~heap[x].latest \/ \E d \in Cores : Removing(d, x)

(* c may go to x: it is there, and stays for as long as c is in its region. *)
Safe(c, x) ==
  /\ heap[x].alive
  /\ \A d \in Cores :
       /\ \A e \in gc[d].queue : e.tuple = x /\ e.key = None =>
            to_read_only_tick(pinned[c] - 1) <= e.tick
       /\ \A e \in gc[d].scratch : e.tuple = x => e.key # None
  /\ \A l \in limbo : l.tuple = x => c \in l.waits

PtrsOK(c) ==
  LET t == tx[c] IN
  /\ \A x \in Ptrs(c) : Safe(c, x)
  /\ \A j \in DOMAIN t.todo : Leads(t.todo[j].key, t.todo[j].tuple)
  /\ \A j \in DOMAIN t.write_set : Leads(t.write_set[j].key, t.write_set[j].tuple)

(* A snapshot may still go from x to the version before it, ...            *)
Live(x) ==
  /\ heap[x].alive /\ heap[x].next # None
  /\ to_read_only_tick(last_tick_inclusive) <= to_read_only_tick(EpochId(heap[x].version))

(* ... which is there for as long as that is so. *)
ChainOK(x) ==
  LET y == heap[x].next
  IN Live(x) =>
       /\ heap[y].alive /\ ~heap[y].latest /\ ~InLimbo(y)
       /\ \A d \in Cores : \A e \in Entries(d) : e.tuple = y /\ e.key = None =>
            to_read_only_tick(EpochId(heap[x].version)) <= e.tick

(* No two tuples lead to the same older version. *)
ChainsApart ==
  \A x, y \in Tuples : Live(x) /\ Live(y) /\ heap[x].next = heap[y].next => x = y

TxnInv ==
  /\ TxnTypes /\ PinnedWindow
  /\ \A c \in Cores : PcOK(c) /\ EpochOK(c) /\ SnapOK(c) /\ OwnsOK(c) /\ PtrsOK(c)
  /\ \A x \in Tuples : LockOK(x) /\ TupleOK(x) /\ ChainOK(x)
  /\ TreeOK /\ GcOK /\ ChainsApart
=============================================================================

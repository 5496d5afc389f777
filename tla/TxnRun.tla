------------------------------- MODULE TxnRun -------------------------------
(***************************************************************************)
(* txn_impl.h, base_txn_btree.h, txn_proto2_impl.h: the operations of a    *)
(* transaction and its commit up to the point where it can no longer       *)
(* abort, and the letting go of its locks.                                 *)
(***************************************************************************)
EXTENDS TxnState

May(c, op) == At(c, "run") /\ op \in workload.ops[c] /\ tx[c].ops < workload.MaxOps[c]

(* Mutant: the running tick instead of the completed one. *)
SnapshotTidCurrent == ComputeReadOnlyTid(current_tick + 1)

SnapshotTid == ComputeReadOnlyTid(global_last_tick_exclusive)

TakeSnapshot(c) ==
  /\ At(c, "snapshot")
  /\ Become(c, [tx[c] EXCEPT !.pc = "run", !.snap = SnapshotTid])
  /\ UNCHANGED <<clockVars, dbVars, last_commit_tid, gc, histVars>>

(* abort_impl: what the transaction has inserted is undone. *)
abort_impl(c, t) ==
  Become(c, [t EXCEPT !.pc = "undo",
                      !.order = [j \in DOMAIN t.write_set |-> t.write_set[j].tuple]])

Abort(c) ==
  /\ May(c, "abort")
  /\ abort_impl(c, tx[c])
  /\ UNCHANGED <<clockVars, dbVars, last_commit_tid, gc, histVars>>

-----------------------------------------------------------------------------
(* Reads *)

Read(t, todo) == [t EXCEPT !.pc = IF todo = <<>> THEN "run" ELSE "read",
                           !.todo = todo]

Saw(t, k, v) == [t EXCEPT !.obs = @ \cup {[key |-> k, val |-> v]}]

(* do_node_read *)
do_node_read(c, t, todo) ==
  IF IsSnapshot(c) THEN Become(c, Read(t, todo))
  ELSE IF t.absent \in {None, leaf_version}
       THEN Become(c, Read([t EXCEPT !.absent = leaf_version], todo))
       ELSE abort_impl(c, t)

do_search(c, k) ==
  /\ May(c, "get")
  /\ LET t == [tx[c] EXCEPT !.ops = @ + 1]
     IN IF tree[k] # None
        THEN Become(c, Read(t, << [key |-> k, tuple |-> tree[k]] >>))
        ELSE do_node_read(c, Saw(t, k, None), <<>>)
  /\ UNCHANGED <<clockVars, dbVars, last_commit_tid, gc, histVars>>

(* A range scan over the leaf: the version of the leaf, then every tuple. *)
do_search_range_call(c) ==
  /\ May(c, "scan")
  /\ LET here == {k \in Keys : tree[k] # None}
         present == CHOOSE f \in [1 .. Cardinality(here) -> here] :
                      \A a, b \in DOMAIN f : a # b => f[a] # f[b]
         gone == {[key |-> k, val |-> None] : k \in Keys \ here}
     IN do_node_read(c, [tx[c] EXCEPT !.ops = @ + 1, !.obs = @ \cup gone],
                     [j \in DOMAIN present |->
                        [key |-> present[j], tuple |-> tree[present[j]]]])
  /\ UNCHANGED <<clockVars, dbVars, last_commit_tid, gc, histVars>>

(* find_write_set: "returns the *first* entry found". *)
find_write_set(ws, x) == Min(Positions(ws, x))

(* stable_read at the snapshot, or of the latest version: one tuple of the *)
(* chain per step.  A tentative insert reads as empty; otherwise a         *)
(* read-write transaction waits for a writer that holds the tuple.         *)
do_tuple_read(c) ==
  /\ At(c, "read")
  /\ LET t == tx[c]
         item == Head(t.todo)
         h == heap[item.tuple]
         at == IF IsSnapshot(c) THEN t.snap ELSE MAX_TID
         own == Positions(t.write_set, item.tuple)
         Done(r) == Become(c, Read(r, Tail(t.todo)))
         Got(v, tid) ==
           Done([Saw(t, item.key, v) EXCEPT !.read_set =
                   IF IsSnapshot(c) THEN @
                   ELSE Append(@, [tuple |-> item.tuple, tid |-> tid])])
     IN IF read_own_writes /\ own # {}
        THEN Done([t EXCEPT !.own = @ \cup
                     {[got |-> find_write_set(t.write_set, item.tuple),
                       last |-> Max(own)]}])
        ELSE IF h.version = MAX_TID THEN Got(None, MIN_TID)
        ELSE /\ IsSnapshot(c) \/ ~h.write_intent
             /\ IF h.version <= at
                THEN Got(IF h.deleting THEN None ELSE h.val, h.version)
                ELSE IF h.next = None THEN Got(None, MIN_TID)
                ELSE Become(c, [t EXCEPT !.todo[1].tuple = h.next])
  /\ UNCHANGED <<clockVars, dbVars, last_commit_tid, gc, histVars>>

-----------------------------------------------------------------------------
(* Writes: do_tree_put *)

(* put and remove search first, insert expects a new key. *)
do_tree_put(c, k, op) ==
  /\ May(c, op) /\ op \in {"put", "insert", "remove"}
  /\ LET t == [tx[c] EXCEPT !.ops = @ + 1, !.key = k,
                 !.val = IF op = "remove" THEN None
                         ELSE [id |-> Id(c), pos |-> Len(tx[c].write_set) + 1]]
     IN IF IsSnapshot(c) THEN abort_impl(c, t)
        ELSE Become(c, [t EXCEPT !.pc = IF op = "insert" THEN "insert" ELSE "find"])
  /\ UNCHANGED <<clockVars, dbVars, last_commit_tid, gc, histVars>>

Entry(t, x, insert) ==
  [tuple |-> x, key |-> t.key, val |-> t.val, insert |-> insert]

Written(t, x, insert) ==
  [t EXCEPT !.pc = "run", !.write_set = Append(@, Entry(t, x, insert))]

PutFind(c) ==
  /\ At(c, "find")
  /\ LET t == tx[c]
     IN Become(c, IF tree[t.key] = None THEN [t EXCEPT !.pc = "insert"]
                  ELSE Written(t, tree[t.key], FALSE))
  /\ UNCHANGED <<clockVars, dbVars, last_commit_tid, gc, histVars>>

(* Mutant: an insert into a leaf that was read is never taken for a        *)
(* conflict: the recorded version just moves on.                           *)
AbsentAfterInsertAlways(absent, old) == TRUE

(* The leaf an insert lands in has not changed since it was read. *)
AbsentAfterInsert(absent, old) == absent \in {None, old}

(* The new tuple is locked and tentative from the start. *)
try_insert_new_tuple(c) ==
  /\ At(c, "insert")
  /\ LET t == tx[c]
         r == Written(t, Fresh, TRUE)
     IN IF tree[t.key] # None
        THEN Become(c, [t EXCEPT !.pc = "find"]) /\ UNCHANGED dbVars
        ELSE /\ CanAlloc
             /\ heap' = [heap EXCEPT ![Fresh] =
                  [alive |-> TRUE, owner |-> c, write_intent |-> TRUE,
                   latest |-> TRUE, deleting |-> t.val = None,
                   version |-> MAX_TID, val |-> t.val, next |-> None]]
             /\ tree' = [tree EXCEPT ![t.key] = Fresh]
             /\ leaf_version' = leaf_version + 1
             /\ IF AbsentAfterInsert(t.absent, leaf_version)
                THEN Become(c, [r EXCEPT !.absent =
                                  IF @ = None THEN None ELSE leaf_version + 1])
                ELSE abort_impl(c, r)
             /\ UNCHANGED limbo
  /\ UNCHANGED <<clockVars, last_commit_tid, gc, histVars>>

-----------------------------------------------------------------------------
(* commit *)

(* dbtuple_write_info_vec::sort: the tuples to write, in address order. *)
SortedTuples(ws) ==
  LET S == {ws[j].tuple : j \in DOMAIN ws}
  IN CHOOSE s \in [1 .. Cardinality(S) -> S] : \A i, j \in DOMAIN s : i < j => s[i] < s[j]

(* What the transaction leaves behind in each key it writes. *)
Effect(ws) ==
  [k \in {ws[j].key : j \in DOMAIN ws} |->
     ws[Max({j \in DOMAIN ws : ws[j].key = k})].val]

Serialize(c, ro, tid) ==
  serial' = Append(serial, [id |-> Id(c), ro |-> ro, tid |-> tid,
                            obs |-> tx[c].obs, writes |-> Effect(tx[c].write_set)])

(* A transaction without any operation commits without touching anything   *)
(* shared and is left out.                                                 *)
commit(c) ==
  /\ At(c, "run") /\ tx[c].ops > 0
  /\ LET t == tx[c]
     IN IF IsSnapshot(c)
        THEN /\ Become(c, [t EXCEPT !.pc = "end"])
             /\ Serialize(c, TRUE, t.snap)
             /\ committed' = committed \cup {Id(c)}
        ELSE IF t.write_set = <<>>
        THEN /\ Become(c, [t EXCEPT !.pc = "validate"])
             /\ Serialize(c, FALSE, MIN_TID)
             /\ UNCHANGED committed
        ELSE /\ Become(c, [t EXCEPT !.pc = "lock", !.order = SortedTuples(t.write_set)])
             /\ UNCHANGED histVars
  /\ UNCHANGED <<clockVars, dbVars, last_commit_tid, gc>>

do_abort(c) == Become(c, [tx[c] EXCEPT !.pc = "undo"])

handle_last_tuple_in_group(c) ==
  /\ At(c, "lock") /\ tx[c].i <= Len(tx[c].order)
  /\ LET t == tx[c]
         x == t.order[t.i]
         Advance == Become(c, [t EXCEPT !.i = @ + 1])
     IN IF DidInsert(t, x) THEN Advance /\ UNCHANGED heap
        ELSE IF Tentative(x) THEN do_abort(c) /\ UNCHANGED heap
        ELSE /\ heap[x].owner = None
             /\ heap' = [heap EXCEPT ![x] = Acquire(c, x, TRUE)]
             /\ IF heap[x].latest THEN Advance ELSE do_abort(c)
  /\ UNCHANGED <<clockVars, tree, leaf_version, limbo, last_commit_tid, gc, histVars>>

(* Mutant: the epoch at which the transaction began. *)
commit_epoch_guard(c) == pinned[c]

(* The epoch is read only now, with every lock held. *)
commit_epoch(c) == current_tick

(* One number above those of the last tid of the core, unless that is of   *)
(* another epoch, of all that was read and of all that is overwritten.     *)
NewNum(c) ==
  LET t == tx[c]
      e == commit_epoch(c)
      last == last_commit_tid[c]
      start == IF EpochId(last) # e THEN MakeTid(0, 0, e) ELSE last
      read == {t.read_set[j].tid : j \in DOMAIN t.read_set}
      over == {heap[t.order[j]].version : j \in DOMAIN t.order} \ {MAX_TID}
  IN NumId(Max({start} \cup read \cup over)) + 1

NewTid(c) == MakeTid(c, NewNum(c), commit_epoch(c))

(* The numbers of an epoch are taken to suffice: MakeTid does not test it. *)
gen_commit_tid(c) ==
  /\ At(c, "lock") /\ tx[c].i > Len(tx[c].order)
  /\ NewNum(c) < NumIds
  /\ last_commit_tid' = [last_commit_tid EXCEPT ![c] = NewTid(c)]
  /\ Become(c, [tx[c] EXCEPT !.pc = "validate", !.tid = NewTid(c), !.i = 1])
  /\ Serialize(c, FALSE, NewTid(c))
  /\ UNCHANGED <<clockVars, dbVars, gc, committed>>

(* Mutant: a newer version in place goes unnoticed. *)
is_latest_any(x, tid) == heap[x].latest

is_latest_version(x, tid) == heap[x].latest /\ heap[x].version <= tid

(* A tuple in the transaction's own write set is checked directly, any     *)
(* other must not be held by a writer once the spinning is over.           *)
ValidateRead(c) ==
  /\ At(c, "validate") /\ tx[c].i <= Len(tx[c].read_set)
  /\ LET t == tx[c]
         r == t.read_set[t.i]
         mine == \E j \in DOMAIN t.order : t.order[j] = r.tuple
     IN IF (mine \/ ~heap[r.tuple].write_intent) /\ is_latest_version(r.tuple, r.tid)
        THEN Become(c, [t EXCEPT !.i = @ + 1])
        ELSE do_abort(c)
  /\ UNCHANGED <<clockVars, dbVars, last_commit_tid, gc, histVars>>

(* With this check passed the transaction can no longer abort. *)
ValidateAbsent(c) ==
  /\ At(c, "validate") /\ tx[c].i > Len(tx[c].read_set)
  /\ IF tx[c].absent \in {None, leaf_version}
     THEN /\ Become(c, [tx[c] EXCEPT !.pc = "write", !.i = 1])
          /\ committed' = committed \cup {Id(c)}
     ELSE do_abort(c) /\ UNCHANGED committed
  /\ UNCHANGED <<clockVars, dbVars, last_commit_tid, gc, serial>>

(* The locks go one by one; the last one gone, the transaction is over.    *)
Unlock(c) ==
  /\ At(c, "write") /\ WriteNext(c) = {}
  /\ IF Held(c) # {}
     THEN /\ heap' = [heap EXCEPT ![FirstHeld(c)] = Release(@)]
          /\ UNCHANGED tx
     ELSE Become(c, [tx[c] EXCEPT !.pc = "end"]) /\ UNCHANGED heap
  /\ UNCHANGED <<clockVars, tree, leaf_version, limbo, last_commit_tid, gc, histVars>>
=============================================================================

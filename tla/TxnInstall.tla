----------------------------- MODULE TxnInstall -----------------------------
(***************************************************************************)
(* txn_impl.h, tuple.h, base_txn_btree.h, txn_proto2_impl.h: a transaction *)
(* that can no longer abort installs its writes.                           *)
(***************************************************************************)
EXTENDS TxnState

can_overwrite_record_tid(prev, cur) ==
  \/ to_read_only_tick(EpochId(prev)) = to_read_only_tick(EpochId(cur))
  \/ prev = MIN_TID

(* on_dbtuple_spill and on_logical_delete: what is queued for collection.  *)
(* A superseded tuple that is itself a deletion is on a queue already.     *)
Collectible(c, head, rest, entry, h) ==
  LET tick == to_read_only_tick(EpochId(tx[c].tid))
  IN (IF rest # None /\ ~h[rest].deleting
      THEN {[tuple |-> rest, key |-> None, tick |-> tick]} ELSE {})
     \cup
     (IF entry.val = None
      THEN {[tuple |-> head, key |-> entry.key, tick |-> tick]} ELSE {})

Enqueue(c, es) == gc' = [gc EXCEPT ![c].queue = @ \cup es]

(* write_record_at writes the record of entry j of the write set: an       *)
(* insert only gets its version, ...                                       *)
WTuple(c, j) == tx[c].write_set[j].tuple

WInsert(c, j) ==
  /\ tx[c].write_set[j].insert
  /\ heap' = [heap EXCEPT ![WTuple(c, j)] = [heap[WTuple(c, j)] EXCEPT !.version = tx[c].tid]]
  /\ Become(c, [tx[c] EXCEPT !.i = j + 1])
  /\ UNCHANGED gc

(* ... others are written in place, ...                                    *)
NewRec(c, j) ==
  [heap[WTuple(c, j)] EXCEPT !.version = tx[c].tid, !.val = tx[c].write_set[j].val,
                             !.deleting = (tx[c].write_set[j].val = None)]

WInPlace(c, j) ==
  /\ ~tx[c].write_set[j].insert /\ ~heap[WTuple(c, j)].deleting
  /\ can_overwrite_record_tid(heap[WTuple(c, j)].version, tx[c].tid)
  /\ heap' = [heap EXCEPT ![WTuple(c, j)] = NewRec(c, j)]
  /\ Become(c, [tx[c] EXCEPT !.i = j + 1])
  /\ Enqueue(c, Collectible(c, WTuple(c, j), None, tx[c].write_set[j], heap'))

(* ... in place with the old version spilled, ...                          *)
WSpill(c, j) ==
  /\ ~tx[c].write_set[j].insert /\ ~heap[WTuple(c, j)].deleting /\ CanAlloc
  /\ heap' = [heap EXCEPT ![Fresh] = [Release(heap[WTuple(c, j)]) EXCEPT !.latest = FALSE],
                          ![WTuple(c, j)] = [NewRec(c, j) EXCEPT !.next = Fresh]]
  /\ Become(c, [tx[c] EXCEPT !.i = j + 1])
  /\ Enqueue(c, Collectible(c, WTuple(c, j), Fresh, tx[c].write_set[j], heap'))

(* ... or into a new tuple in front of the old one, which Replace then     *)
(* puts in the tree.                                                       *)
WChain(c, j) ==
  /\ ~tx[c].write_set[j].insert /\ CanAlloc
  /\ heap' = [heap EXCEPT ![Fresh] = [NewRec(c, j) EXCEPT !.next = WTuple(c, j)],
                          ![WTuple(c, j)].latest = FALSE]
  /\ Become(c, [tx[c] EXCEPT !.pc = "replace", !.i = j + 1, !.head = Fresh])
  /\ UNCHANGED gc

(* A removal always fits where the old value was. *)
WriteRecord(c, fits) ==
  /\ At(c, "write") /\ WriteNext(c) # {}
  /\ LET j == Min(WriteNext(c))
         h == heap[WTuple(c, j)]
         room == fits \/ tx[c].write_set[j].val = None
     IN \/ WInsert(c, j)
        \/ room /\ WInPlace(c, j)
        \/ room /\ ~can_overwrite_record_tid(h.version, tx[c].tid) /\ WSpill(c, j)
        \/ (h.deleting \/ ~room) /\ WChain(c, j)
  /\ UNCHANGED <<clockVars, tree, leaf_version, limbo, last_commit_tid, histVars>>

(* The tree leads to the new head, which is unlocked at once. *)
Replace(c) ==
  /\ At(c, "replace")
  /\ LET t == tx[c]
         e == t.write_set[t.i - 1]
     IN /\ tree' = [tree EXCEPT ![e.key] = t.head]
        /\ heap' = [heap EXCEPT ![t.head] = Release(@)]
        /\ Enqueue(c, Collectible(c, t.head, e.tuple, e, heap))
        /\ Become(c, [t EXCEPT !.pc = "write", !.head = None])
  /\ UNCHANGED <<clockVars, leaf_version, limbo, last_commit_tid, histVars>>
=============================================================================

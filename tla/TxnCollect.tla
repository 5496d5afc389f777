----------------------------- MODULE TxnCollect -----------------------------
(***************************************************************************)
(* txn_impl.h, txn_proto2_impl.h, txn_proto2_impl.cc, rcu.h: where the     *)
(* region of a transaction begins and ends, how an abort takes back what   *)
(* was inserted, and the garbage collector.                                *)
(***************************************************************************)
EXTENDS TxnState

(* The rcu guard is taken first, then the snapshot. *)
Begin(c) ==
  /\ At(c, "idle") /\ tx[c].n < workload.MaxTxns[c]
  /\ Pin(c)
  /\ Become(c, [Embryo EXCEPT !.n = tx[c].n + 1,
                              !.pc = IF IsSnapshot(c) THEN "snapshot" ELSE "run"])
  /\ UNCHANGED <<dbVars, last_commit_tid, gc, histVars>>

(* Mutant: the tuple is freed without waiting for the open regions. *)
free_with_fn_now(x) == limbo' = limbo \cup {[tuple |-> x, waits |-> {}]}

(* rcu::free_with_fn: the regions open now must end before the tuple goes. *)
free_with_fn(x) ==
  limbo' = limbo \cup {[tuple |-> x, waits |-> {d \in Cores : pinned'[d] # 0}]}

(* Mutant: the key is left in the tree. *)
remove_nothing(k) == tree

(* mbtree::remove *)
remove(k) == [tree EXCEPT ![k] = None]

(* do_abort and abort_impl, one held tuple at a time.  An inserted tuple   *)
(* is taken out of the tree (cleanup_inserted_tuple_marker).               *)
Undo(c) ==
  /\ At(c, "undo") /\ Held(c) # {}
  /\ LET x == FirstHeld(c)
         ins == DidInsert(tx[c], x)
         k == tx[c].write_set[Min(Positions(tx[c].write_set, x))].key
     IN IF ins
        THEN /\ tree' = remove(k)
             /\ heap' = [heap EXCEPT ![x] = [Release(@) EXCEPT !.latest = FALSE]]
             /\ UNCHANGED clockVars
             /\ free_with_fn(x)
        ELSE /\ heap' = [heap EXCEPT ![x] = Release(@)]
             /\ UNCHANGED <<clockVars, tree, limbo>>
  /\ UNCHANGED <<leaf_version, tx, last_commit_tid, gc, histVars>>

UndoEnd(c) ==
  /\ At(c, "undo") /\ Held(c) = {}
  /\ Become(c, [tx[c] EXCEPT !.pc = "end"])
  /\ UNCHANGED <<clockVars, dbVars, last_commit_tid, gc, histVars>>

-----------------------------------------------------------------------------
(* The end of the transaction's region, and the garbage collector *)

RegionEnded(c) ==
  limbo' = {[l EXCEPT !.waits = @ \ {c}] : l \in limbo}

Idle(c) == [Embryo EXCEPT !.n = tx[c].n]

End(c) ==
  /\ At(c, "end")
  /\ Unpin(c)
  /\ RegionEnded(c)
  /\ Become(c, [Idle(c) EXCEPT !.pc = "collect"])
  /\ UNCHANGED <<tree, leaf_version, heap, last_commit_tid, gc, histVars>>

(* Mutant: the completed tick itself is taken. *)
ro_tick_ex_now == to_read_only_tick(global_last_tick_exclusive)

(* "all reads happening at >= ro_tick_geq", plus one. *)
ro_tick_ex == to_read_only_tick(global_last_tick_exclusive - 1)

(* What is due moves from queue_ to scratch_. *)
clean_up_to_including(c, ro_tick_geq) ==
  LET g == gc[c]
      batch == {e \in g.queue : e.tick <= ro_tick_geq}
  IN IF g.last_reaped_epoch = ro_tick_geq
     THEN Become(c, Idle(c)) /\ UNCHANGED gc
     ELSE /\ gc' = [gc EXCEPT ![c] = [queue |-> g.queue \ batch, scratch |-> batch,
                                      last_reaped_epoch |-> ro_tick_geq]]
          /\ Become(c, [Idle(c) EXCEPT !.pc = IF batch = {} THEN "idle" ELSE "clean"])

on_post_rcu_region_completion(c) ==
  /\ At(c, "collect")
  /\ IF ro_tick_ex = 0
     THEN Become(c, Idle(c)) /\ UNCHANGED gc
     ELSE clean_up_to_including(c, ro_tick_ex - 1)
  /\ UNCHANGED <<clockVars, dbVars, last_commit_tid, histVars>>

(* A superseded version is freed on the spot, without RCU. *)
CleanVersion(c, e) ==
  /\ At(c, "clean") /\ e \in gc[c].scratch /\ e.key = None
  /\ heap' = [heap EXCEPT ![e.tuple] = FreeTuple]
  /\ gc' = [gc EXCEPT ![c].scratch = @ \ {e}]
  /\ UNCHANGED <<clockVars, tree, leaf_version, limbo, tx, last_commit_tid, histVars>>

(* Mutant: the tick under which the deletion had been queued. *)
RequeueTickOld(e) == e.tick

RequeueTick(e) == to_read_only_tick(current_tick)

(* A deletion that was written over is queued again as a plain version;    *)
(* otherwise its key is removed from the tree, inside a region.            *)
CleanDelete(c, e) ==
  /\ At(c, "clean") /\ e \in gc[c].scratch /\ e.key # None
  /\ heap[e.tuple].owner = None
  /\ IF heap[e.tuple].latest
     THEN /\ IF pinned[c] = 0 THEN Pin(c) ELSE UNCHANGED clockVars
          /\ heap' = [heap EXCEPT ![e.tuple] = Acquire(c, e.tuple, FALSE)]
          /\ tree' = remove(e.key)
          /\ Become(c, [tx[c] EXCEPT !.pc = "removed", !.head = e.tuple])
          /\ gc' = [gc EXCEPT ![c].scratch = @ \ {e}]
     ELSE /\ gc' = [gc EXCEPT ![c].scratch = @ \ {e},
                              ![c].queue = @ \cup
                                {[tuple |-> e.tuple, key |-> None,
                                  tick |-> RequeueTick(e)]}]
          /\ UNCHANGED <<clockVars, heap, tree, tx>>
  /\ UNCHANGED <<leaf_version, limbo, last_commit_tid, histVars>>

(* The tuple is marked only after its key has left the tree. *)
CleanRemoved(c) ==
  /\ At(c, "removed")
  /\ heap' = [heap EXCEPT ![tx[c].head] = [Release(@) EXCEPT !.latest = FALSE]]
  /\ UNCHANGED clockVars
  /\ free_with_fn(tx[c].head)
  /\ Become(c, [tx[c] EXCEPT !.pc = "clean", !.head = None])
  /\ UNCHANGED <<tree, leaf_version, last_commit_tid, gc, histVars>>

CleanEnd(c) ==
  /\ At(c, "clean") /\ gc[c].scratch = {}
  /\ IF pinned[c] # 0 THEN Unpin(c) /\ RegionEnded(c) ELSE UNCHANGED <<clockVars, limbo>>
  /\ Become(c, Idle(c))
  /\ UNCHANGED <<tree, leaf_version, heap, last_commit_tid, gc, histVars>>

(* RCU's promise: dbtuple::deleter runs once the waited-for regions ended. *)
RcuFree(l) ==
  /\ l \in limbo /\ l.waits = {}
  /\ heap' = [heap EXCEPT ![l.tuple] = FreeTuple]
  /\ limbo' = limbo \ {l}
  /\ UNCHANGED <<clockVars, tree, leaf_version, tx, last_commit_tid, gc, histVars>>

-----------------------------------------------------------------------------
ClockStep ==
  /\ (current_tick < workload.MaxTicks /\ Bump) \/ Publish
  /\ UNCHANGED <<dbVars, tx, last_commit_tid, gc, histVars>>
=============================================================================

---------------------------- MODULE TxnRunProofs ----------------------------
(***************************************************************************)
(* TxnInv is kept by the operations of a transaction, by its commit up to  *)
(* the installation of its writes, and by the letting go of its locks.     *)
(***************************************************************************)
EXTENDS TxnCollectProofs, TxnRun

-----------------------------------------------------------------------------
(* Sequences *)

(* Sequences without their head and with one more element. *)
LEMMA TailAt ==
  ASSUME NEW T, NEW s \in Seq(T), s # <<>>
  PROVE  /\ Tail(s) \in Seq(T) /\ Head(s) = s[1] /\ 1 \in DOMAIN s /\ s[1] \in T
         /\ \A j \in DOMAIN Tail(s) : j + 1 \in DOMAIN s /\ Tail(s)[j] = s[j + 1]
OBVIOUS

(* The elements of a sequence with one more at its end. *)
LEMMA AppendAt ==
  ASSUME NEW T, NEW s \in Seq(T), NEW e
  PROVE  /\ DOMAIN s = 1 .. Len(s) /\ Len(s) \in Nat
         /\ DOMAIN Append(s, e) = 1 .. Len(s) + 1
         /\ \A j \in DOMAIN s : j \in DOMAIN Append(s, e) /\ Append(s, e)[j] = s[j]
         /\ Append(s, e)[Len(s) + 1] = e
         /\ \A j \in DOMAIN Append(s, e) :
              \/ j \in DOMAIN s /\ Append(s, e)[j] = s[j]
              \/ j = Len(s) + 1 /\ Append(s, e)[j] = e
OBVIOUS

-----------------------------------------------------------------------------
(* What a step of one core leaves to the others *)

(* The same for a step that leaves the tuples alone. *)
LEMMA LocalStep ==
  ASSUME TxnInv, TxnTypes', UNCHANGED <<clockVars, dbVars, gc, workload>>,
         NEW c \in Cores, \A d \in Cores : d # c => tx'[d] = tx[d],
         tx[c].pc \notin {"replace", "removed"}, tx'[c].pc \notin {"replace", "removed"},
         PcOK(c)', EpochOK(c)', SnapOK(c)', OwnsOK(c)', PtrsOK(c)',
         \A x \in Tuples : heap[x].owner = c => LockOK(x)'
  PROVE  TxnInv'
<1>1. \A x \in Tuples : heap'[x] = heap[x]
  BY Zenon DEF dbVars
<1>2. UNCHANGED <<clockVars, tree, limbo, gc, workload>>
  BY Zenon DEF dbVars
<1> QED
  BY <1>1, <1>2, OwnerStep, Zenon

-----------------------------------------------------------------------------
(* Steps that change only the transaction of a core *)

(* One transaction changes, the others do not. *)
LEMMA Becoming ==
  ASSUME TxnTypes, NEW c \in Cores, NEW t, Become(c, t)
  PROVE  tx'[c] = t /\ \A d \in Cores : d # c => tx'[d] = tx[d]
BY DEF TxnTypes, Become

(* What a core points to in the tree is safe. *)
LEMMA TreePointer ==
  ASSUME TxnInv, NEW c \in Cores, NEW k \in Keys, tree[k] # None
  PROVE  tree[k] \in Tuples /\ Safe(c, tree[k]) /\ Leads(k, tree[k])
<1>1. PICK x : x = tree[k]
  OBVIOUS
<1>2. x \in Tuples /\ heap[x].alive /\ InTree(x)
  BY <1>1, Zenon DEF TxnInv, TxnTypes, TreeOK, InTree
<1>3. \A d \in Cores : \A e \in gc[d].queue \cup gc[d].scratch : e.tuple = x => e.key # None
  BY <1>2 DEF TxnInv, GcOK, Entries
<1>4. \A l \in limbo : l.tuple # x
  BY <1>2, Zenon DEF TxnInv, GcOK
<1>5. Safe(c, x)
  BY <1>2, <1>3, <1>4, Zenon DEF Safe
<1> QED
  BY <1>1, <1>2, <1>5 DEF Leads

(* The pointers of a core after such a step. *)
LEMMA LocalPtrs ==
  ASSUME TxnInv, TxnTypes', UNCHANGED <<clockVars, dbVars, gc>>, NEW c \in Cores,
         \A d \in Cores : d # c => tx'[d] = tx[d],
         tx[c].pc # "removed", tx'[c].pc # "removed",
         \A j \in DOMAIN tx'[c].todo :
            Safe(c, tx'[c].todo[j].tuple) /\ Leads(tx'[c].todo[j].key, tx'[c].todo[j].tuple),
         \A j \in DOMAIN tx'[c].read_set : Safe(c, tx'[c].read_set[j].tuple),
         \A j \in DOMAIN tx'[c].write_set :
            /\ Safe(c, tx'[c].write_set[j].tuple)
            /\ Leads(tx'[c].write_set[j].key, tx'[c].write_set[j].tuple)
  PROVE  PtrsOK(c)'
<1>1. \A x : Safe(c, x) => Safe(c, x)'
  BY Zenon DEF Safe, clockVars, dbVars
<1>2. \A k, x : Leads(k, x) => Leads(k, x)'
  BY Zenon DEF Leads, Removing, dbVars
<1>3. \A x \in Ptrs(c)' : Safe(c, x)
  BY Zenon DEF Ptrs
<1> QED
  BY <1>1, <1>2, <1>3, Zenon DEF PtrsOK

(* What is known of the pointers before it. *)
LEMMA PtrsKnown ==
  ASSUME TxnInv, NEW c \in Cores
  PROVE  /\ \A j \in DOMAIN tx[c].todo :
              Safe(c, tx[c].todo[j].tuple) /\ Leads(tx[c].todo[j].key, tx[c].todo[j].tuple)
         /\ \A j \in DOMAIN tx[c].read_set : Safe(c, tx[c].read_set[j].tuple)
         /\ \A j \in DOMAIN tx[c].write_set :
              /\ Safe(c, tx[c].write_set[j].tuple)
              /\ Leads(tx[c].write_set[j].key, tx[c].write_set[j].tuple)
BY Zenon DEF TxnInv, PtrsOK, Ptrs

(* A running transaction goes on, with the same inserts. *)
LEMMA SameInserts ==
  ASSUME TxnInv, TxnTypes', UNCHANGED <<clockVars, dbVars, gc, workload>>, NEW c \in Cores,
         \A d \in Cores : d # c => tx'[d] = tx[d],
         tx[c].pc \in {"snapshot"} \cup Running, tx'[c].pc \in {"snapshot"} \cup Running,
         \A j \in DOMAIN tx[c].write_set :
            j \in DOMAIN tx'[c].write_set /\ tx'[c].write_set[j] = tx[c].write_set[j],
         \A j \in DOMAIN tx'[c].write_set : tx'[c].write_set[j].insert =>
            j \in DOMAIN tx[c].write_set,
         PcOK(c)', SnapOK(c)', PtrsOK(c)'
  PROVE  TxnInv'
<1> USE DEF Running
<1>1. \A x \in Tuples : heap'[x] = heap[x]
  BY Zenon DEF dbVars
<1>2. \A w : Pending(c, w)' = Pending(c, w)
  BY Zenon DEF Pending, Owns, Tentative, Unqueued, Entries, dbVars
<1>3. PcOK(c) /\ OwnsOK(c)
  BY Zenon DEF TxnInv
<1>4. OwnsOK(c)'
  <2>1. OwnsInserts(c)'
    <3>1. CASE tx[c].pc # "snapshot"
      BY <1>2, <1>3, <3>1, ZenonT(40) DEF OwnsOK, OwnsInserts
    <3>2. CASE tx[c].pc = "snapshot"
      <4>1. tx[c].write_set = <<>>
        BY <3>2, Ready, Zenon
      <4>2. \A j \in DOMAIN tx'[c].write_set : ~tx'[c].write_set[j].insert
        BY <4>1
      <4> QED BY <4>2, Zenon DEF OwnsInserts
    <3> QED BY <3>1, <3>2, Zenon
  <2> QED BY <2>1, Zenon DEF OwnsOK, OwnsLocked, OwnsWrites, OwnsUndone, OwnsReplaced, OwnsRemoved
<1>5. EpochOK(c)'
  BY Zenon DEF EpochOK
<1>6. ASSUME NEW x \in Tuples, heap[x].owner = c PROVE LockOK(x)'
  <2>1. LockOK(x) /\ c # None
    BY NoneApart, Zenon DEF TxnInv
  <2>2. tx[c].pc \in Running /\ DidInsert(tx[c], x) /\ Tentative(x) /\ heap[x].alive /\ heap[x].write_intent
    BY <1>6, <2>1, ZenonT(40) DEF LockOK, Removing
  <2>3. DidInsert(tx'[c], x)
    BY <2>2, Zenon DEF DidInsert, Positions
  <2>4. tx'[c].pc # "snapshot"
    <3>1. tx'[c].write_set # <<>>
      BY <2>2 DEF DidInsert, Positions
    <3> QED BY <3>1, Zenon DEF PcOK, Fits, Deciding
  <2> QED
    BY <1>1, <1>6, <2>2, <2>3, <2>4, ZenonT(40) DEF LockOK, Tentative
<1> QED
  BY <1>4, <1>5, <1>6, LocalStep, ZenonT(40)

(* A running transaction goes on, with the same writes. *)
LEMMA RunsOn ==
  ASSUME TxnInv, TxnTypes', UNCHANGED <<clockVars, dbVars, gc, workload>>, NEW c \in Cores,
         \A d \in Cores : d # c => tx'[d] = tx[d],
         tx[c].pc \in {"snapshot"} \cup Running, tx'[c].pc \in {"snapshot"} \cup Running,
         tx'[c].write_set = tx[c].write_set,
         PcOK(c)', SnapOK(c)', PtrsOK(c)'
  PROVE  TxnInv'
BY SameInserts, Zenon

(* A running transaction goes on to undo its inserts. *)
LEMMA GoesBack ==
  ASSUME TxnInv, TxnTypes', UNCHANGED <<clockVars, dbVars, gc, workload>>, NEW c \in Cores,
         \A d \in Cores : d # c => tx'[d] = tx[d],
         tx[c].pc \in Running, tx'[c].pc = "undo",
         tx'[c].write_set = tx[c].write_set, tx'[c].read_set = tx[c].read_set,
         tx'[c].order = [j \in DOMAIN tx[c].write_set |-> tx[c].write_set[j].tuple],
         tx'[c].todo = <<>>, tx'[c].head = None
  PROVE  TxnInv'
<1> DEFINE ws == tx[c].write_set
<1>2. OwnsOK(c)
  BY Zenon DEF TxnInv
<1>3. PcOK(c)'
  <2>1. PICK w, o : w = ws /\ o = [j \in DOMAIN w |-> w[j].tuple]
    OBVIOUS
  <2>2. DOMAIN o = DOMAIN w /\ \A j \in DOMAIN w : o[j] = w[j].tuple
    BY <2>1, Zenon
  <2>3. Covers(o, w)
    BY <2>2 DEF Covers
  <2>4. /\ Covers(tx'[c].order, tx'[c].write_set) /\ tx'[c].pc # "lock"
        /\ tx'[c].pc \in {"lock", "validate", "undo"}
    BY <2>1, <2>3, Zenon
  <2>5. /\ pinned[c] # 0 /\ InsertsFirst(tx'[c].write_set)
        /\ IsSnapshot(c) => tx'[c].write_set = <<>> /\ tx'[c].read_set = <<>>
    BY Ready, Zenon
  <2> QED BY <2>4, <2>5, Decides, Zenon
<1>4. EpochOK(c)' /\ SnapOK(c)'
  BY Zenon DEF EpochOK, SnapOK, Running
<1>5. \A w : Pending(c, w)' = Pending(c, w)
  BY Zenon DEF Pending, Owns, Tentative, Unqueued, Entries, dbVars
<1>6. OwnsOK(c)'
  <2>1. OwnsUndone(c)'
    BY <1>2, <1>5, ZenonT(40) DEF OwnsOK, OwnsInserts, OwnsUndone
  <2> QED
    BY <2>1, ZenonT(40) DEF OwnsOK, OwnsInserts, OwnsLocked, OwnsWrites, OwnsReplaced,
       OwnsRemoved, Running
<1>7. PtrsOK(c)'
  <2>1. tx[c].pc # "removed" /\ tx'[c].pc # "removed"
    BY Zenon DEF Running
  <2>2. \A j \in DOMAIN tx'[c].todo : FALSE
    OBVIOUS
  <2>3. /\ \A j \in DOMAIN tx'[c].read_set : Safe(c, tx'[c].read_set[j].tuple)
        /\ \A j \in DOMAIN tx'[c].write_set :
             /\ Safe(c, tx'[c].write_set[j].tuple)
             /\ Leads(tx'[c].write_set[j].key, tx'[c].write_set[j].tuple)
    BY PtrsKnown, Zenon
  <2> QED BY <2>1, <2>2, <2>3, LocalPtrs, Zenon
<1>8. ASSUME NEW x \in Tuples, heap[x].owner = c PROVE LockOK(x)'
  <2>1. LockOK(x) /\ c # None
    BY NoneApart, Zenon DEF TxnInv
  <2>2. DidInsert(tx[c], x) /\ heap[x].alive /\ heap[x].write_intent
    BY <1>8, <2>1, ZenonT(40) DEF LockOK, Removing, Running
  <2>3. \E j \in DOMAIN tx'[c].order : tx'[c].order[j] = x
    BY <2>2 DEF DidInsert, Positions
  <2>4. heap' = heap /\ tx'[c].pc \in {"validate", "write", "undo"}
    BY Zenon DEF dbVars
  <2> QED BY <1>8, <2>2, <2>3, <2>4, LockedFor, Zenon
<1> QED
  <2>1. tx[c].pc \notin {"replace", "removed"} /\ tx'[c].pc \notin {"replace", "removed"}
    BY Zenon DEF Running
  <2> QED BY <1>3, <1>4, <1>6, <1>7, <1>8, <2>1, LocalStep, ZenonT(40)

(* abort_impl: what is inserted remains to be undone. *)
LEMMA Aborts ==
  ASSUME TxnInv, TxnTypes', UNCHANGED <<clockVars, dbVars, gc, workload>>, NEW c \in Cores,
         NEW t \in TxRec, abort_impl(c, t), tx[c].pc \in Running,
         t.write_set = tx[c].write_set, t.read_set = tx[c].read_set,
         t.todo = <<>>, t.head = None
  PROVE  TxnInv'
<1> DEFINE ws == tx[c].write_set
<1>1. /\ tx'[c].pc = "undo" /\ tx'[c].write_set = ws /\ tx'[c].read_set = tx[c].read_set
      /\ tx'[c].order = [j \in DOMAIN ws |-> ws[j].tuple]
      /\ tx'[c].todo = <<>> /\ tx'[c].head = None
      /\ \A d \in Cores : d # c => tx'[d] = tx[d]
  BY ZenonT(40) DEF TxnTypes, abort_impl, Become, TxRec
<1> QED
  BY <1>1, GoesBack, Zenon

(* Taking the snapshot preserves the invariant: it is no older than the    *)
(* region.                                                                 *)
LEMMA TakeSnapshotStep ==
  ASSUME TxnInv, TxnTypes', UNCHANGED workload, NEW c \in Cores, TakeSnapshot(c)
  PROVE  TxnInv'
<1>1. /\ tx[c].pc = "snapshot" /\ UNCHANGED <<clockVars, dbVars, gc>>
      /\ tx'[c] = [tx[c] EXCEPT !.pc = "run", !.snap = SnapshotTid]
      /\ \A d \in Cores : d # c => tx'[d] = tx[d]
  BY Zenon DEF TxnTypes, TakeSnapshot, Become, At
<1>2. /\ tx'[c].pc = "run" /\ tx'[c].snap = SnapshotTid
      /\ tx'[c].write_set = tx[c].write_set /\ tx'[c].read_set = tx[c].read_set
      /\ tx'[c].order = tx[c].order /\ tx'[c].i = tx[c].i /\ tx'[c].todo = tx[c].todo
      /\ tx'[c].head = tx[c].head
  BY <1>1, SMTT(40)
<1>3. PinnedWindow /\ TxnTypes
  BY Zenon DEF TxnInv
<1>4. PcOK(c)'
  <2>1. tx'[c].pc \in Running
    BY <1>2, Zenon DEF Running
  <2> QED BY <1>1, <1>2, <2>1, Ready, StaysReady, Zenon
<1>5. SnapOK(c)'
  <2> DEFINE g == last_tick_inclusive + 1
  <2>1. g \in 0 .. MaxTick /\ pinned'[c] <= g + 1
    <3>1. /\ current_tick \in Nat /\ last_tick_inclusive \in Nat /\ current_tick <= MaxTick
          /\ pinned[c] \in Nat /\ pinned'[c] = pinned[c] /\ MaxTick \in Nat
          /\ last_tick_inclusive < current_tick /\ current_tick <= last_tick_inclusive + 2
          /\ pinned[c] # 0 => pinned[c] <= current_tick
      BY <1>1, <1>3, ClockAssumption, ZenonT(40) DEF TxnTypes, ClockTypeOK, PinnedWindow,
         clockVars
    <3> QED BY <3>1
  <2> QED BY <1>2, <2>1, ZenonT(40) DEF SnapOK, SnapshotTid, global_last_tick_exclusive
<1>6. PtrsOK(c)'
  BY <1>1, <1>2, PtrsKnown, LocalPtrs, ZenonT(40)
<1> QED
  BY <1>1, <1>2, <1>4, <1>5, <1>6, RunsOn, ZenonT(40) DEF Running

(* An abort by the user preserves the invariant. *)
LEMMA AbortOp ==
  ASSUME TxnInv, TxnTypes', UNCHANGED workload, NEW c \in Cores, Abort(c)
  PROVE  TxnInv'
<1>1. /\ tx[c].pc = "run" /\ UNCHANGED <<clockVars, dbVars, gc>> /\ abort_impl(c, tx[c])
  BY DEF Abort, May, At
<1>2. PICK t : t = tx[c]
  BY Zenon
<1>3. t \in TxRec /\ t.todo = <<>> /\ t.head = None
  <2>1. tx[c] \in TxRec /\ tx[c].pc \in Running
    BY <1>1, Zenon DEF TxnInv, TxnTypes, Running
  <2> QED BY <1>1, <1>2, <2>1, Ready, Zenon
<1> QED
  BY <1>1, <1>2, <1>3, Aborts, ZenonT(40) DEF Running

(* A running transaction goes on to read, or is done with it. *)
LEMMA GoesOn ==
  ASSUME TxnInv, TxnTypes', UNCHANGED <<clockVars, dbVars, gc, workload>>, NEW c \in Cores,
         \A d \in Cores : d # c => tx'[d] = tx[d],
         tx[c].pc \in {"run", "read"}, tx'[c].pc \in {"run", "read"},
         tx'[c].pc = "read" <=> tx'[c].todo # <<>>,
         tx'[c].write_set = tx[c].write_set, tx'[c].order = tx[c].order, tx'[c].i = tx[c].i,
         tx'[c].head = tx[c].head, tx'[c].snap = tx[c].snap,
         IsSnapshot(c) => tx'[c].read_set = <<>>,
         \A j \in DOMAIN tx'[c].read_set : Safe(c, tx'[c].read_set[j].tuple),
         \A j \in DOMAIN tx'[c].todo :
            Safe(c, tx'[c].todo[j].tuple) /\ Leads(tx'[c].todo[j].key, tx'[c].todo[j].tuple)
  PROVE  TxnInv'
<1>2. SnapOK(c)
  BY Zenon DEF TxnInv
<1>3. PcOK(c)'
  <2>1. tx[c].pc \in Running /\ tx'[c].pc \in Running /\ tx'[c].pc \notin {"find", "insert"}
    BY Zenon DEF Running
  <2> QED BY <2>1, Ready, StaysReady, Zenon
<1>4. SnapOK(c)'
  BY <1>2, Zenon DEF SnapOK, IsSnapshot, clockVars, Running
<1>5. PtrsOK(c)'
  BY PtrsKnown, LocalPtrs, ZenonT(40)
<1> QED
  BY <1>3, <1>4, <1>5, RunsOn, ZenonT(40) DEF Running

(* A read of a running transaction goes on with the tuples q. *)
LEMMA Reads ==
  ASSUME TxnInv, TxnTypes', UNCHANGED <<clockVars, dbVars, gc, workload>>, NEW c \in Cores,
         NEW t \in TxRec, NEW q, Become(c, Read(t, q)), tx[c].pc \in {"run", "read"},
         t.write_set = tx[c].write_set, t.order = tx[c].order, t.i = tx[c].i,
         t.head = tx[c].head, t.snap = tx[c].snap,
         IsSnapshot(c) => t.read_set = <<>>,
         \A j \in DOMAIN t.read_set : Safe(c, t.read_set[j].tuple),
         \A j \in DOMAIN q : Safe(c, q[j].tuple) /\ Leads(q[j].key, q[j].tuple)
  PROVE  TxnInv'
<1>1. /\ tx'[c].pc \in {"run", "read"} /\ (tx'[c].pc = "read" <=> q # <<>>)
      /\ tx'[c].write_set = tx[c].write_set /\ tx'[c].read_set = t.read_set
      /\ tx'[c].order = tx[c].order /\ tx'[c].i = tx[c].i /\ tx'[c].head = tx[c].head
      /\ tx'[c].snap = tx[c].snap /\ tx'[c].todo = q
      /\ \A d \in Cores : d # c => tx'[d] = tx[d]
  BY ZenonT(40) DEF TxnTypes, Become, Read, TxRec
<1> QED
  BY <1>1, GoesOn, Zenon

(* do_node_read goes on reading or aborts. *)
LEMMA NodeReads ==
  ASSUME TxnInv, TxnTypes', UNCHANGED <<clockVars, dbVars, gc, workload>>, NEW c \in Cores,
         NEW t \in TxRec, NEW q, do_node_read(c, t, q), tx[c].pc = "run",
         t.write_set = tx[c].write_set, t.order = tx[c].order, t.i = tx[c].i,
         t.head = tx[c].head, t.snap = tx[c].snap, t.read_set = tx[c].read_set,
         t.todo = tx[c].todo,
         \A j \in DOMAIN q : Safe(c, q[j].tuple) /\ Leads(q[j].key, q[j].tuple)
  PROVE  TxnInv'
<1>1. t.todo = <<>> /\ t.head = None /\ (IsSnapshot(c) => t.read_set = <<>>)
  <2>1. tx[c].pc \in Running
    BY Zenon DEF Running
  <2> QED BY <2>1, Ready, Zenon
<1>2. CASE IsSnapshot(c)
  BY <1>1, <1>2, PtrsKnown, Reads, ZenonT(40) DEF do_node_read
<1>3. CASE ~IsSnapshot(c) /\ t.absent \in {None, leaf_version}
  <2>1. PICK u : u = [t EXCEPT !.absent = leaf_version]
    BY Zenon
  <2>2. leaf_version \in Nat
    BY Zenon DEF TxnInv, TxnTypes
  <2>3. u \in TxRec /\ u.write_set = t.write_set /\ u.order = t.order /\ u.i = t.i
        /\ u.head = t.head /\ u.snap = t.snap /\ u.read_set = t.read_set
    BY <2>1, <2>2, ZenonT(40) DEF TxRec
  <2>4. Become(c, Read(u, q))
    BY <1>3, <2>1, ZenonT(40) DEF do_node_read
  <2>5. \A j \in DOMAIN u.read_set : Safe(c, u.read_set[j].tuple)
    BY <2>3, PtrsKnown, ZenonT(40)
  <2> QED
    BY <1>1, <1>3, <2>3, <2>4, <2>5, Reads, ZenonT(40)
<1>4. CASE ~IsSnapshot(c) /\ ~(t.absent \in {None, leaf_version})
  <2>1. abort_impl(c, t)
    BY <1>4 DEF do_node_read
  <2> QED
    BY <1>1, <2>1, Aborts, ZenonT(40) DEF Running
<1> QED BY <1>2, <1>3, <1>4, ZenonT(40)

(* do_search preserves the invariant: what the tree leads to is safe. *)
LEMMA SearchStep ==
  ASSUME TxnInv, TxnTypes', UNCHANGED workload, NEW c \in Cores, NEW k \in Keys, do_search(c, k)
  PROVE  TxnInv'
<1>1. tx[c].pc = "run" /\ UNCHANGED <<clockVars, dbVars, gc>> /\ tx[c] \in TxRec
  BY ZenonT(40) DEF do_search, May, At, TxnInv, TxnTypes
<1>2. PICK t : t = [tx[c] EXCEPT !.ops = @ + 1]
  BY Zenon
<1>3. t \in TxRec /\ t.obs \subseteq [key : Keys, val : Values]
  <2>1. tx[c].ops + 1 \in Nat /\ tx[c].obs \subseteq [key : Keys, val : Values]
    <3>1. tx[c].ops \in Nat /\ tx[c].obs \in SUBSET [key : Keys, val : Values]
      BY <1>1, Zenon DEF TxRec
    <3>2. \A n \in Nat : n + 1 \in Nat
      OBVIOUS
    <3> QED BY <3>1, <3>2, Zenon
  <2> QED BY <1>1, <1>2, <2>1, ZenonT(40) DEF TxRec
<1>4. PICK s : s = Saw(t, k, None)
  OBVIOUS
<1>5. s \in TxRec
  <2>1. t.obs \cup {[key |-> k, val |-> None]} \in SUBSET [key : Keys, val : Values]
    BY <1>3, SMTT(40) DEF Values
  <2> QED BY <1>3, <1>4, <2>1, ZenonT(40) DEF Saw, TxRec
<1>6. /\ t.write_set = tx[c].write_set /\ t.order = tx[c].order /\ t.i = tx[c].i
      /\ t.head = tx[c].head /\ t.snap = tx[c].snap /\ t.read_set = tx[c].read_set
      /\ t.todo = tx[c].todo
  BY <1>1, <1>2, ZenonT(40) DEF TxRec
<1>7. /\ s.write_set = t.write_set /\ s.order = t.order /\ s.i = t.i
      /\ s.head = t.head /\ s.snap = t.snap /\ s.read_set = t.read_set /\ s.todo = t.todo
  BY <1>4, SMTT(40) DEF Saw, TxRec
<1>8. CASE tree[k] # None
  <2>1. PICK q : q = << [key |-> k, tuple |-> tree[k]] >>
    BY Zenon
  <2>2. \A j \in DOMAIN q : q[j].key = k /\ q[j].tuple = tree[k]
    BY <2>1
  <2>3. Become(c, Read(t, q))
    BY <1>2, <1>8, <2>1, ZenonT(40) DEF do_search
  <2>4. IsSnapshot(c) => t.read_set = <<>>
    <3>1. tx[c].pc \in Running
      BY <1>1, Zenon DEF Running
    <3> QED BY <1>6, <3>1, Ready, Zenon
  <2>5. \A j \in DOMAIN q : Safe(c, q[j].tuple) /\ Leads(q[j].key, q[j].tuple)
    BY <1>8, <2>2, TreePointer, Zenon
  <2> QED
    BY <1>1, <1>3, <1>6, <2>3, <2>4, <2>5, PtrsKnown, Reads, ZenonT(40)
<1>9. CASE tree[k] = None
  <2>1. do_node_read(c, s, <<>>)
    BY <1>2, <1>4, <1>9, SMTT(40) DEF do_search
  <2>2. \A j \in DOMAIN <<>> : FALSE
    OBVIOUS
  <2> QED
    BY <1>1, <1>5, <1>6, <1>7, <2>1, <2>2, NodeReads, Zenon
<1> QED BY <1>8, <1>9, SMTT(40)

(* The scan of the leaf preserves the invariant, given that it lists the   *)
(* keys there.                                                             *)
LEMMA ScanStep ==
  ASSUME TxnInv, TxnTypes', UNCHANGED workload, NEW c \in Cores, do_search_range_call(c),
         \A S \in SUBSET Keys :
           LET f == CHOOSE f \in [1 .. Cardinality(S) -> S] :
                      \A a, b \in DOMAIN f : a # b => f[a] # f[b]
           IN  f \in [1 .. Cardinality(S) -> S]
  PROVE  TxnInv'
<1>1. tx[c].pc = "run" /\ UNCHANGED <<clockVars, dbVars, gc>> /\ tx[c] \in TxRec
  BY Zenon DEF do_search_range_call, May, At, TxnInv, TxnTypes
<1> DEFINE here == {k \in Keys : tree[k] # None}
           pick == CHOOSE f \in [1 .. Cardinality(here) -> here] :
                     \A a, b \in DOMAIN f : a # b => f[a] # f[b]
<1>2. PICK gone : gone = {[key |-> k, val |-> None] : k \in Keys \ here}
  BY Zenon
<1>3. pick \in [1 .. Cardinality(here) -> here]
  BY Zenon
<1>4. PICK present : present = pick
  BY Zenon
<1>5. PICK t : t = [tx[c] EXCEPT !.ops = @ + 1, !.obs = @ \cup gone]
  OBVIOUS
<1>6. PICK q : q = [j \in DOMAIN present |-> [key |-> present[j], tuple |-> tree[present[j]]]]
  BY Zenon
<1>7. do_node_read(c, t, q)
  <2>1. do_node_read(c, [tx[c] EXCEPT !.ops = @ + 1,
                            !.obs = @ \cup {[key |-> k, val |-> None] : k \in Keys \ here}],
                     [j \in DOMAIN pick |-> [key |-> pick[j], tuple |-> tree[pick[j]]]])
    BY Zenon DEF do_search_range_call
  <2> HIDE DEF here, pick
  <2> QED BY <1>2, <1>4, <1>5, <1>6, <2>1, Zenon
<1>8. \A j \in DOMAIN q : Safe(c, q[j].tuple) /\ Leads(q[j].key, q[j].tuple)
  <2>1. \A j \in DOMAIN q : q[j].key \in here /\ q[j].tuple = tree[q[j].key]
    <3> HIDE DEF here
    <3> QED BY <1>3, <1>4, <1>6, SMTT(40)
  <2> QED BY <2>1, TreePointer, ZenonT(40)
<1>9. t \in TxRec
  <2>1. gone \in SUBSET [key : Keys, val : Values]
    BY <1>2 DEF Values
  <2>2. tx[c].ops + 1 \in Nat /\ tx[c].obs \in SUBSET [key : Keys, val : Values]
    <3>1. tx[c].ops \in Nat /\ tx[c].obs \in SUBSET [key : Keys, val : Values]
      BY <1>1, Zenon DEF TxRec
    <3>2. \A n \in Nat : n + 1 \in Nat
      OBVIOUS
    <3> QED BY <3>1, <3>2, Zenon
  <2>3. tx[c].obs \cup gone \in SUBSET [key : Keys, val : Values]
    BY <2>1, <2>2, ZenonT(40)
  <2> QED BY <1>1, <1>5, <2>2, <2>3, ZenonT(40) DEF TxRec
<1>10. /\ t.write_set = tx[c].write_set /\ t.order = tx[c].order /\ t.i = tx[c].i
       /\ t.head = tx[c].head /\ t.snap = tx[c].snap /\ t.read_set = tx[c].read_set
       /\ t.todo = tx[c].todo
  BY <1>1, <1>5, ZenonT(40) DEF TxRec
<1> QED
  BY <1>1, <1>7, <1>8, <1>9, <1>10, NodeReads, ZenonT(40)

(* A tid that is above a snapshot is of its read-only tick or a later one. *)
AfterSnapshot ==
  \A g \in Nat : /\ ComputeReadOnlyTid(g) \in Nat
                 /\ \A v \in Nat : ComputeReadOnlyTid(g) < v =>
                      to_read_only_tick(g) <= to_read_only_tick(EpochId(v))

(* A snapshot that goes on from x to the version before it. *)
LEMMA ChainPointer ==
  ASSUME TxnInv, NEW c \in Cores, NEW x \in Tuples, IsSnapshot(c), tx[c].pc = "read",
         heap[x].alive, heap[x].next # None, ~(heap[x].version <= tx[c].snap),
         AfterSnapshot
  PROVE  Safe(c, heap[x].next) /\ ~heap[heap[x].next].latest
<1> DEFINE v == heap[x].version
           y == heap[x].next
           E == EpochId(v)
<1>1. v \in Nat
  BY DEF TxnInv, TxnTypes, HeapRec
<1>2. PICK g \in 0 .. MaxTick : tx[c].snap = ComputeReadOnlyTid(g) /\ pinned[c] <= g + 1
  BY Zenon DEF TxnInv, SnapOK, Running
<1>3. g \in Nat /\ ComputeReadOnlyTid(g) < v
  <2>1. g \in Nat /\ ComputeReadOnlyTid(g) \in Nat
    BY DEF AfterSnapshot
  <2> QED BY <1>1, <1>2, <2>1, SMTT(40)
<1>4. to_read_only_tick(g) <= to_read_only_tick(E) /\ E \in Nat
  BY <1>1, <1>3, EpochNat, ZenonT(40) DEF AfterSnapshot
<1>5. pinned[c] - 1 \in Nat /\ last_tick_inclusive \in Nat
      /\ last_tick_inclusive <= pinned[c] - 1 /\ pinned[c] - 1 <= g
  <2>1. pinned[c] # 0 /\ pinned[c] \in Nat /\ last_tick_inclusive \in Nat
    <3>1. tx[c].pc \in Running
      BY Zenon DEF Running
    <3>2. pinned[c] \in Nat /\ last_tick_inclusive \in Nat
      BY Zenon DEF TxnInv, TxnTypes, ClockTypeOK
    <3> QED BY <3>1, <3>2, Ready, Zenon
  <2>2. last_tick_inclusive < pinned[c]
    BY <2>1, ZenonT(40) DEF TxnInv, PinnedWindow
  <2> QED BY <1>2, <2>1, <2>2, SMTT(40)
<1> DEFINE rl == to_read_only_tick(last_tick_inclusive)
           rp == to_read_only_tick(pinned[c] - 1)
           rE == to_read_only_tick(E)
<1>6. rl \in Nat /\ rp \in Nat /\ rE \in Nat /\ rl <= rp /\ rp <= rE
  <2>1. rl \in Nat /\ rp \in Nat /\ rE \in Nat /\ to_read_only_tick(g) \in Nat
    BY <1>3, <1>4, <1>5, RoMonotone, ZenonT(40)
  <2>2. rl <= rp /\ rp <= to_read_only_tick(g)
    BY <1>3, <1>5, RoMonotone, ZenonT(40)
  <2> QED BY <1>4, <2>1, <2>2, SMTT(40)
<1> HIDE DEF rl, rp, rE
<1>7. Live(x)
  BY <1>6 DEF Live, rl, rE
<1>8. /\ heap[y].alive /\ ~heap[y].latest /\ ~InLimbo(y)
      /\ \A d \in Cores : \A e \in Entries(d) : e.tuple = y /\ e.key = None => rE <= e.tick
  BY <1>7, ZenonT(40) DEF TxnInv, ChainOK, rE
<1>9. \A d \in Cores : \A e \in Entries(d) : e.tick \in Nat
  BY DEF TxnInv, TxnTypes, GcRec, GcEntry, Entries
<1>10. \A d \in Cores : \A e \in gc[d].scratch : e.tick < rl
  BY Zenon DEF TxnInv, GcOK, rl
<1>11. \A d \in Cores : \A e \in gc[d].queue : e.tuple = y /\ e.key = None => rp <= e.tick
  BY <1>6, <1>8, <1>9, SMTT(40) DEF Entries
<1>12. \A d \in Cores : \A e \in gc[d].scratch : e.tuple = y => e.key # None
  BY <1>6, <1>8, <1>9, <1>10, SMTT(40) DEF Entries
<1> QED
  BY <1>8, <1>11, <1>12, ZenonT(40) DEF Safe, InLimbo, rp

(* do_tuple_read preserves the invariant: the next tuple of the chain is   *)
(* safe for a snapshot.                                                    *)
LEMMA TupleReadStep ==
  ASSUME TxnInv, TxnTypes', UNCHANGED workload, NEW c \in Cores, do_tuple_read(c),
         AfterSnapshot
  PROVE  TxnInv'
<1> DEFINE q == tx[c].todo
           x == q[1].tuple
           rs == tx[c].read_set
<1>1. tx[c].pc = "read" /\ UNCHANGED <<clockVars, dbVars, gc>> /\ tx[c] \in TxRec /\ q # <<>>
  <2>1. tx[c].pc = "read" /\ UNCHANGED <<clockVars, dbVars, gc>> /\ tx[c] \in TxRec
    BY Zenon DEF do_tuple_read, At, TxnInv, TxnTypes
  <2> QED BY <2>1, Ready, Zenon DEF Running
<1>2. q \in Seq(TodoRec) /\ rs \in Seq(ReadRec) /\ Head(q) = q[1] /\ 1 \in DOMAIN q
      /\ q[1] \in TodoRec /\ x \in Tuples /\ q[1].key \in Keys
  <2>1. q \in Seq(TodoRec) /\ rs \in Seq(ReadRec)
    BY <1>1, Zenon DEF TxRec
  <2>2. Head(q) = q[1] /\ 1 \in DOMAIN q /\ q[1] \in TodoRec
    BY <1>1, <2>1, TailAt, ZenonT(40)
  <2> QED BY <2>1, <2>2, ZenonT(40) DEF TodoRec
<1>3. Safe(c, x) /\ (IsSnapshot(c) => rs = <<>>) /\ \A j \in DOMAIN rs : Safe(c, rs[j].tuple)
  <2>1. tx[c].pc \in Running
    BY <1>1, Zenon DEF Running
  <2> QED BY <1>2, <2>1, PtrsKnown, Ready, Zenon
<1>4. /\ Tail(q) \in Seq(TodoRec)
      /\ \A j \in DOMAIN Tail(q) : /\ Safe(c, Tail(q)[j].tuple)
                                   /\ Leads(Tail(q)[j].key, Tail(q)[j].tuple)
  <2>1. Tail(q) \in Seq(TodoRec) /\ \A j \in DOMAIN Tail(q) : j + 1 \in DOMAIN q /\ Tail(q)[j] = q[j + 1]
    BY <1>1, <1>2, TailAt, ZenonT(40)
  <2> QED BY <2>1, PtrsKnown, ZenonT(40)
<1>5. PICK v : v = IF heap[x].deleting THEN None ELSE heap[x].val
  BY Zenon
<1> DEFINE Goes(pc, todo, reads) ==
             /\ tx'[c].pc = pc /\ tx'[c].todo = todo /\ tx'[c].read_set = reads
             /\ tx'[c].write_set = tx[c].write_set /\ tx'[c].order = tx[c].order
             /\ tx'[c].i = tx[c].i /\ tx'[c].head = tx[c].head /\ tx'[c].snap = tx[c].snap
             /\ \A d \in Cores : d # c => tx'[d] = tx[d]
           After(p) == IF Tail(q) = <<>> THEN "run" ELSE "read"
           Noted(tid) == IF IsSnapshot(c) THEN rs ELSE Append(rs, [tuple |-> x, tid |-> tid])
<1>6. ASSUME NEW w, NEW tid,
             Become(c, Read([Saw(tx[c], q[1].key, w) EXCEPT !.read_set =
                               IF IsSnapshot(c) THEN @ ELSE Append(@, [tuple |-> x, tid |-> tid])],
                            Tail(q)))
      PROVE  TxnInv'
  <2>1. Goes(After(c), Tail(q), Noted(tid))
    BY <1>1, <1>6, ZenonT(40) DEF TxnTypes, Become, Read, Saw, TxRec
  <2>2. \A j \in DOMAIN Noted(tid) : Safe(c, Noted(tid)[j].tuple)
    <3>1. CASE IsSnapshot(c)
      BY <1>3, <3>1, Zenon
    <3>2. CASE ~IsSnapshot(c)
      <4>1. PICK r : r = [tuple |-> x, tid |-> tid]
        BY Zenon
      <4>2. Noted(tid) = Append(rs, r) /\ r.tuple = x
        BY <3>2, <4>1, ZenonT(40)
      <4> HIDE DEF Noted, rs, x
      <4> QED BY <1>3, <4>2, SMTT(40)
    <3> QED BY <3>1, <3>2, ZenonT(40)
  <2>3. IsSnapshot(c) => Noted(tid) = <<>>
    BY <1>3, Zenon
  <2> HIDE DEF Noted, q, x, rs
  <2> QED BY <1>1, <1>4, <2>1, <2>2, <2>3, GoesOn, ZenonT(40)
<1>7. CASE read_own_writes /\ Positions(tx[c].write_set, x) # {}
  <2>1. PICK o : Become(c, Read([tx[c] EXCEPT !.own = o], Tail(q)))
    BY <1>2, <1>7, ZenonT(40) DEF do_tuple_read
  <2>2. Goes(After(c), Tail(q), rs)
    BY <1>1, <2>1, ZenonT(40) DEF TxnTypes, Become, Read, TxRec
  <2> HIDE DEF q, x, rs
  <2> QED BY <1>1, <1>3, <1>4, <2>2, GoesOn, ZenonT(40)
<1>8. CASE ~(read_own_writes /\ Positions(tx[c].write_set, x) # {}) /\ heap[x].version = MAX_TID
  <2>1. PICK w, tid : w = None /\ tid = MIN_TID
    BY Zenon
  <2>2. Become(c, Read([Saw(tx[c], q[1].key, w) EXCEPT !.read_set =
                          IF IsSnapshot(c) THEN @ ELSE Append(@, [tuple |-> x, tid |-> tid])],
                       Tail(q)))
    BY <1>2, <1>8, <2>1, ZenonT(40) DEF do_tuple_read
  <2> QED BY <1>6, <2>2, ZenonT(40)
<1>9. CASE ~(read_own_writes /\ Positions(tx[c].write_set, x) # {}) /\ heap[x].version # MAX_TID
  <2> DEFINE at == IF IsSnapshot(c) THEN tx[c].snap ELSE MAX_TID
  <2>1. CASE heap[x].version <= at
    <3>1. PICK tid : tid = heap[x].version
      BY Zenon
    <3>2. Become(c, Read([Saw(tx[c], q[1].key, v) EXCEPT !.read_set =
                            IF IsSnapshot(c) THEN @ ELSE Append(@, [tuple |-> x, tid |-> tid])],
                         Tail(q)))
      BY <1>2, <1>5, <1>9, <2>1, <3>1, ZenonT(40) DEF do_tuple_read
    <3> QED BY <1>6, <3>2, ZenonT(40)
  <2>2. CASE ~(heap[x].version <= at) /\ heap[x].next = None
    <3>1. PICK w, tid : w = None /\ tid = MIN_TID
      BY Zenon
    <3>2. Become(c, Read([Saw(tx[c], q[1].key, w) EXCEPT !.read_set =
                            IF IsSnapshot(c) THEN @ ELSE Append(@, [tuple |-> x, tid |-> tid])],
                         Tail(q)))
      BY <1>2, <1>9, <2>2, <3>1, ZenonT(40) DEF do_tuple_read
    <3> QED BY <1>6, <3>2, ZenonT(40)
  <2>3. CASE ~(heap[x].version <= at) /\ heap[x].next # None
    <3>1. PICK y : y = heap[x].next
      BY Zenon
    <3>2. Become(c, [tx[c] EXCEPT !.todo[1].tuple = y])
      BY <1>2, <1>9, <2>3, <3>1, ZenonT(40) DEF do_tuple_read
    <3>3. IsSnapshot(c)
      <4>1. \A y2 \in Tuples : heap[y2].version \in 0 .. MAX_TID
        BY Zenon DEF TxnInv, TxnTypes, HeapRec
      <4>2. \A y2 \in Tuples : heap[y2].version <= MAX_TID
        BY <4>1, MaxTidNat, SMTT(40)
      <4>3. heap[x].version <= MAX_TID
        BY <1>2, <4>2, ZenonT(40)
      <4> QED BY <2>3, <4>3, ZenonT(40)
    <3>4. Safe(c, y) /\ ~heap[y].latest
      <4>1. heap[x].alive
        BY <1>3, Zenon DEF Safe
      <4>2. heap[x].next # None /\ y = heap[x].next /\ ~(heap[x].version <= tx[c].snap)
        BY <2>3, <3>1, <3>3, Zenon
      <4> HIDE DEF q, x
      <4> QED BY <1>1, <1>2, <3>3, <4>1, <4>2, ChainPointer, Zenon
    <3>5. Goes("read", [q EXCEPT ![1].tuple = y], rs)
      <4>1. PICK z : z = [q EXCEPT ![1].tuple = y]
        BY Zenon
      <4>2. Become(c, [tx[c] EXCEPT !.todo = z])
        BY <3>2, <4>1, Zenon
      <4>3. Goes("read", z, rs)
        BY <1>1, <4>2, ZenonT(40) DEF TxnInv, TxnTypes, Become, TxRec
      <4> QED BY <4>1, <4>3, Zenon
    <3>6. DOMAIN tx'[c].todo = DOMAIN q /\ tx'[c].todo # <<>> /\ tx'[c].todo[1].tuple = y
          /\ \A j \in DOMAIN q : j # 1 => tx'[c].todo[j] = q[j]
      <4>1. PICK s, u : s = q /\ u = [s EXCEPT ![1].tuple = y]
        BY Zenon
      <4>2. s \in Seq(TodoRec) /\ 1 \in DOMAIN s /\ s[1] \in [key : Keys, tuple : Tuples]
        BY <1>2, <4>1, Zenon DEF TodoRec
      <4>3. DOMAIN u = DOMAIN s /\ u[1].tuple = y /\ \A j \in DOMAIN s : j # 1 => u[j] = s[j]
        BY <4>1, <4>2, Zenon
      <4>4. u # <<>>
        BY <4>2, <4>3
      <4>5. tx'[c].todo = u
        BY <3>5, <4>1, Zenon
      <4> QED BY <4>1, <4>3, <4>4, <4>5, Zenon
    <3>7. \A j \in DOMAIN tx'[c].todo :
             Safe(c, tx'[c].todo[j].tuple) /\ Leads(tx'[c].todo[j].key, tx'[c].todo[j].tuple)
      BY <3>4, <3>6, PtrsKnown, ZenonT(40) DEF Leads
    <3> HIDE DEF q, x, rs
    <3> QED BY <1>1, <1>3, <3>5, <3>6, <3>7, GoesOn, ZenonT(40)
  <2> QED BY <2>1, <2>2, <2>3, SMTT(40)
<1> QED BY <1>7, <1>8, <1>9, ZenonT(40)

(* The start of a put, an insert or a remove preserves the invariant. *)
LEMMA TreePutStep ==
  ASSUME TxnInv, TxnTypes', UNCHANGED workload, NEW c \in Cores, NEW k \in Keys, NEW op,
         do_tree_put(c, k, op)
  PROVE  TxnInv'
<1>1. tx[c].pc = "run" /\ UNCHANGED <<clockVars, dbVars, gc>> /\ tx[c] \in TxRec /\ TxnTypes
  BY ZenonT(40) DEF do_tree_put, May, At, TxnInv, TxnTypes
<1>2. PICK v : v = IF op = "remove" THEN None
                   ELSE [id |-> Id(c), pos |-> Len(tx[c].write_set) + 1]
  BY Zenon
<1>3. tx[c].todo = <<>> /\ tx[c].head = None /\ tx[c].pc \in Running
  <2>1. tx[c].pc \in Running
    BY <1>1, Zenon DEF Running
  <2> QED BY <1>1, <2>1, Ready, Zenon
<1>4. CASE IsSnapshot(c)
  <2>1. abort_impl(c, [tx[c] EXCEPT !.ops = @ + 1, !.key = k, !.val = v])
    BY <1>2, <1>4, ZenonT(40) DEF do_tree_put
  <2>2. /\ tx'[c].pc = "undo" /\ tx'[c].write_set = tx[c].write_set
        /\ tx'[c].read_set = tx[c].read_set
        /\ tx'[c].order = [j \in DOMAIN tx[c].write_set |-> tx[c].write_set[j].tuple]
        /\ tx'[c].todo = tx[c].todo /\ tx'[c].head = tx[c].head
        /\ \A d \in Cores : d # c => tx'[d] = tx[d]
    BY <1>1, <2>1, ZenonT(40) DEF TxnTypes, abort_impl, Become, TxRec
  <2> QED BY <1>1, <1>3, <2>2, GoesBack, ZenonT(40)
<1>5. CASE ~IsSnapshot(c)
  <2>1. Become(c, [[tx[c] EXCEPT !.ops = @ + 1, !.key = k, !.val = v]
                     EXCEPT !.pc = IF op = "insert" THEN "insert" ELSE "find"])
    BY <1>2, <1>5, SMTT(40) DEF do_tree_put
  <2>2. /\ tx'[c].pc \in {"find", "insert"} /\ tx'[c].write_set = tx[c].write_set
        /\ tx'[c].read_set = tx[c].read_set /\ tx'[c].key = k
        /\ tx'[c].order = tx[c].order /\ tx'[c].i = tx[c].i
        /\ tx'[c].todo = tx[c].todo /\ tx'[c].head = tx[c].head
        /\ \A d \in Cores : d # c => tx'[d] = tx[d]
    BY <1>1, <2>1, ZenonT(40) DEF TxnTypes, Become, TxRec
  <2>3. PcOK(c)'
    <3>1. tx'[c].pc \in Running /\ tx'[c].pc # "read"
      BY <2>2, Zenon DEF Running
    <3> QED BY <1>1, <1>3, <1>5, <2>2, <3>1, Ready, StaysReady, Zenon
  <2>4. SnapOK(c)'
    BY <1>5, ZenonT(40) DEF SnapOK, IsSnapshot
  <2>5. PtrsOK(c)'
    BY <1>1, <2>2, PtrsKnown, LocalPtrs, ZenonT(40)
  <2> QED
    BY <1>1, <2>2, <2>3, <2>4, <2>5, RunsOn, ZenonT(40) DEF Running
<1> QED BY <1>4, <1>5, SMTT(40)

(* The search of a put preserves the invariant. *)
LEMMA PutFindStep ==
  ASSUME TxnInv, TxnTypes', UNCHANGED workload, NEW c \in Cores, PutFind(c)
  PROVE  TxnInv'
<1>1. /\ tx[c].pc = "find" /\ UNCHANGED <<clockVars, dbVars, gc>> /\ tx[c] \in TxRec /\ TxnTypes
      /\ tx[c].write_set \in Seq(WriteRec)
  BY ZenonT(40) DEF PutFind, At, TxnInv, TxnTypes, TxRec
<1>2. /\ tx[c].todo = <<>> /\ tx[c].head = None /\ tx[c].key \in Keys /\ ~IsSnapshot(c)
      /\ tx[c].pc \in Running
  <2>1. tx[c].pc \in Running /\ tx[c].pc # "read"
    BY <1>1, Zenon DEF Running
  <2> QED BY <1>1, <2>1, Ready, Zenon
<1>3. SnapOK(c)'
  BY <1>2 DEF SnapOK, IsSnapshot
<1>4. CASE tree[tx[c].key] = None
  <2>1. Become(c, [tx[c] EXCEPT !.pc = "insert"])
    BY <1>4, SMTT(40) DEF PutFind
  <2>2. /\ tx'[c].pc = "insert" /\ tx'[c].write_set = tx[c].write_set
        /\ tx'[c].read_set = tx[c].read_set /\ tx'[c].key = tx[c].key
        /\ tx'[c].order = tx[c].order /\ tx'[c].i = tx[c].i
        /\ tx'[c].todo = tx[c].todo /\ tx'[c].head = tx[c].head
        /\ \A d \in Cores : d # c => tx'[d] = tx[d]
    BY <1>1, <2>1, ZenonT(40) DEF TxnTypes, Become, TxRec
  <2>3. PcOK(c)'
    <3>1. tx'[c].pc \in Running /\ tx'[c].pc # "read"
      BY <2>2, Zenon DEF Running
    <3> QED BY <1>1, <1>2, <2>2, <3>1, Ready, StaysReady, Zenon
  <2>5. PtrsOK(c)'
    BY <1>1, <2>2, PtrsKnown, LocalPtrs, ZenonT(40)
  <2> QED
    BY <1>1, <1>3, <2>2, <2>3, <2>5, RunsOn, ZenonT(40) DEF Running
<1>5. CASE tree[tx[c].key] # None
  <2>1. PICK w : w = Entry(tx[c], tree[tx[c].key], FALSE)
    BY Zenon
  <2>2. /\ ~w.insert /\ w.key = tx[c].key /\ w.tuple = tree[tx[c].key]
        /\ Safe(c, w.tuple) /\ Leads(w.key, w.tuple)
    BY <1>2, <1>5, <2>1, TreePointer, ZenonT(40) DEF Entry
  <2>3. Become(c, [tx[c] EXCEPT !.pc = "run", !.write_set = Append(@, w)])
    BY <1>5, <2>1, ZenonT(40) DEF PutFind, Written
  <2>4. PICK s : s = Append(tx[c].write_set, w)
    BY Zenon
  <2>5. /\ tx'[c].pc = "run" /\ tx'[c].write_set = s
        /\ tx'[c].read_set = tx[c].read_set
        /\ tx'[c].order = tx[c].order /\ tx'[c].i = tx[c].i
        /\ tx'[c].todo = tx[c].todo /\ tx'[c].head = tx[c].head
        /\ \A d \in Cores : d # c => tx'[d] = tx[d]
    BY <1>1, <2>3, <2>4, ZenonT(40) DEF TxnTypes, Become, TxRec
  <2>6. /\ \A j \in DOMAIN tx[c].write_set : j \in DOMAIN s /\ s[j] = tx[c].write_set[j]
        /\ \A j \in DOMAIN s : \/ j \in DOMAIN tx[c].write_set
                               \/ s[j] = w /\ \A i \in DOMAIN tx[c].write_set : i <= j
    BY <1>1, <2>4, SMTT(40)
  <2>7. InsertsFirst(s)
    <3>1. InsertsFirst(tx[c].write_set)
      BY <1>2, Ready, Zenon
    <3> QED BY <2>2, <2>6, <3>1, ZenonT(40) DEF InsertsFirst
  <2>8. PcOK(c)'
    <3>1. tx'[c].pc \in Running /\ tx'[c].pc \notin {"find", "insert", "read"}
      BY <2>5, Zenon DEF Running
    <3> QED BY <1>1, <1>2, <2>5, <2>7, <3>1, Ready, StaysReady, Zenon
  <2>9. PtrsOK(c)'
    BY <1>1, <2>2, <2>5, <2>6, PtrsKnown, LocalPtrs, ZenonT(40)
  <2> QED
    BY <1>1, <1>3, <2>2, <2>5, <2>6, <2>8, <2>9, SameInserts, ZenonT(40) DEF Running
<1> QED BY <1>4, <1>5, SMTT(40)

(* A transaction that owns nothing any more comes to its end. *)
LEMMA Ended ==
  ASSUME TxnInv, TxnTypes', UNCHANGED <<clockVars, dbVars, gc, workload>>, NEW c \in Cores,
         \A d \in Cores : d # c => tx'[d] = tx[d],
         tx[c].pc \in Running \cup {"write", "undo"}, tx'[c].pc = "end",
         tx'[c].write_set = tx[c].write_set, tx'[c].read_set = tx[c].read_set,
         tx[c].todo = <<>>, tx'[c].todo = <<>>, tx'[c].head = tx[c].head,
         \A x \in Tuples : heap[x].owner # c
  PROVE  TxnInv'
<1>1. PcOK(c)'
  <2>1. PcOK(c)
    BY Zenon DEF TxnInv
  <2>2. PICK t, u : t = tx[c] /\ u = tx'[c]
    OBVIOUS
  <2>3. /\ Fits(t, pinned[c], IsSnapshot(c)) /\ t.pc \in Running \cup {"write", "undo"}
        /\ u.pc = "end" /\ u.write_set = t.write_set /\ u.read_set = t.read_set
        /\ u.todo = <<>> /\ u.head = t.head
    BY <2>1, <2>2, Zenon DEF PcOK
  <2>4. Fits(u, pinned[c], IsSnapshot(c))
    BY <2>3, ZenonT(40) DEF Fits, Deciding, Running, InTxn
  <2>5. pinned' = pinned /\ workload' = workload
    BY Zenon DEF clockVars
  <2> QED BY <2>2, <2>4, <2>5, Zenon DEF PcOK, IsSnapshot
<1>2. EpochOK(c)' /\ SnapOK(c)'
  BY Zenon DEF EpochOK, SnapOK, Running
<1>3. OwnsOK(c)'
  BY Zenon DEF OwnsOK, OwnsInserts, OwnsLocked, OwnsWrites, OwnsUndone, OwnsReplaced, OwnsRemoved,
     Running
<1>4. tx[c].pc \notin {"replace", "removed"}
  BY Zenon DEF Running
<1>5. PtrsOK(c)'
  BY <1>4, PtrsKnown, LocalPtrs, ZenonT(40)
<1> QED
  BY <1>1, <1>2, <1>3, <1>4, <1>5, LocalStep, ZenonT(40)

(* What dbtuple_write_info_vec::sort gives. *)
SortFacts(ws) ==
  LET s == SortedTuples(ws) IN
  /\ \A a, b \in DOMAIN s : a < b => s[a] < s[b]
  /\ {s[j] : j \in DOMAIN s} = {ws[j].tuple : j \in DOMAIN ws}

(* The start of commit preserves the invariant, given that the tuples are  *)
(* sorted.                                                                 *)
LEMMA CommitStep ==
  ASSUME TxnInv, TxnTypes', UNCHANGED workload, NEW c \in Cores, commit(c),
         SortFacts(tx[c].write_set)
  PROVE  TxnInv'
<1>1. tx[c].pc = "run" /\ UNCHANGED <<clockVars, dbVars, gc>> /\ tx[c] \in TxRec /\ TxnTypes
  BY Zenon DEF commit, At, TxnInv, TxnTypes
<1>2. /\ tx[c].todo = <<>> /\ tx[c].head = None /\ tx[c].order = <<>> /\ tx[c].i = 1
      /\ (IsSnapshot(c) => tx[c].write_set = <<>>) /\ tx[c].pc \in Running
      /\ pinned[c] # 0 /\ InsertsFirst(tx[c].write_set)
  <2>1. tx[c].pc \in Running /\ tx[c].pc # "read"
    BY <1>1, Zenon DEF Running
  <2> QED BY <2>1, Ready, Zenon
<1>3. CASE IsSnapshot(c)
  <2>1. Become(c, [tx[c] EXCEPT !.pc = "end"])
    BY <1>3 DEF commit
  <2>2. /\ tx'[c].pc = "end" /\ tx'[c].write_set = tx[c].write_set
        /\ tx'[c].read_set = tx[c].read_set
        /\ tx'[c].todo = tx[c].todo /\ tx'[c].head = tx[c].head
        /\ \A d \in Cores : d # c => tx'[d] = tx[d]
    BY <1>1, <2>1, ZenonT(40) DEF TxnTypes, Become, TxRec
  <2>3. \A x \in Tuples : heap[x].owner # c
    BY <1>1, <1>2, <1>3, NothingOwned, ZenonT(40)
  <2> QED BY <1>1, <1>2, <2>2, <2>3, Ended, ZenonT(40) DEF Running
<1>4. CASE ~IsSnapshot(c) /\ tx[c].write_set = <<>>
  <2>1. Become(c, [tx[c] EXCEPT !.pc = "validate"])
    BY <1>4 DEF commit
  <2>2. /\ tx'[c].pc = "validate" /\ tx'[c].write_set = <<>>
        /\ tx'[c].read_set = tx[c].read_set /\ tx'[c].order = <<>>
        /\ tx'[c].todo = <<>> /\ tx'[c].head = None
        /\ \A d \in Cores : d # c => tx'[d] = tx[d]
    BY <1>2, <1>4, <2>1, SMTT(40) DEF TxnTypes, Become
  <2>3. \A x \in Tuples : heap[x].owner # c
    BY <1>1, <1>4, NothingOwned, ZenonT(40)
  <2>4. PcOK(c)'
    <3>1. PICK o, w : o = <<>> /\ w = <<>>
      OBVIOUS
    <3>2. Covers(o, w) /\ InsertsFirst(w)
      BY <3>1 DEF InsertsFirst, Covers
    <3>3. /\ Covers(tx'[c].order, tx'[c].write_set) /\ InsertsFirst(tx'[c].write_set)
          /\ tx'[c].pc \in {"lock", "validate", "undo"} /\ tx'[c].pc # "lock"
      BY <2>2, <3>1, <3>2, Zenon
    <3> QED BY <1>1, <1>2, <1>4, <2>2, <3>3, Decides, Zenon
  <2>5. EpochOK(c)' /\ SnapOK(c)'
    BY <2>2, Zenon DEF EpochOK, SnapOK, Running
  <2>6. OwnsOK(c)'
    <3>1. \A j \in DOMAIN tx'[c].write_set : FALSE
      BY <2>2
    <3> QED BY <2>2, <3>1, Zenon DEF OwnsOK, OwnsInserts, OwnsLocked, OwnsWrites, OwnsUndone,
          OwnsReplaced, OwnsRemoved, Running
  <2>7. PtrsOK(c)'
    <3>1. (\A j \in DOMAIN tx'[c].todo : FALSE) /\ \A j \in DOMAIN tx'[c].write_set : FALSE
      BY <2>2
    <3> QED BY <1>1, <2>2, <3>1, PtrsKnown, LocalPtrs, Zenon
  <2> QED
    BY <1>1, <2>2, <2>3, <2>4, <2>5, <2>6, <2>7, LocalStep, ZenonT(40)
<1>5. CASE ~IsSnapshot(c) /\ tx[c].write_set # <<>>
  <2>1. Become(c, [tx[c] EXCEPT !.pc = "lock", !.order = SortedTuples(tx[c].write_set)])
    BY <1>5 DEF commit
  <2>2. /\ tx'[c].pc = "lock" /\ tx'[c].write_set = tx[c].write_set
        /\ tx'[c].read_set = tx[c].read_set /\ tx'[c].order = SortedTuples(tx[c].write_set)
        /\ tx'[c].todo = <<>> /\ tx'[c].head = None /\ tx'[c].i = 1
        /\ \A d \in Cores : d # c => tx'[d] = tx[d]
    BY <1>2, <2>1, SMTT(40) DEF TxnTypes, Become
  <2>3. PcOK(c)'
    <3>1. PICK w, s : w = tx[c].write_set /\ s = SortedTuples(w)
      OBVIOUS
    <3>2. Ascends(s) /\ Covers(s, w)
      BY <3>1, ZenonT(40) DEF SortFacts, Ascends, Covers
    <3>3. /\ Covers(tx'[c].order, tx'[c].write_set) /\ Ascends(tx'[c].order)
          /\ InsertsFirst(tx'[c].write_set) /\ tx'[c].pc \in {"lock", "validate", "undo"}
      BY <1>2, <2>2, <3>1, <3>2, Zenon
    <3> QED BY <1>1, <1>2, <1>5, <2>2, <3>3, Decides, Zenon
  <2>4. EpochOK(c)' /\ SnapOK(c)'
    BY <2>2, Zenon DEF EpochOK, SnapOK, Running
  <2>5. OwnsOK(c)'
    <3>1. \A w : Pending(c, w)' = Pending(c, w)
      BY <1>1, ZenonT(40) DEF Pending, Owns, Tentative, Unqueued, Entries, dbVars
    <3>2. OwnsInserts(c)'
      BY <1>1, <2>2, <3>1, ZenonT(40) DEF TxnInv, OwnsOK, OwnsInserts, Running
    <3>3. OwnsLocked(c)'
      <4>1. tx'[c].order \in Seq(Tuples)
        BY DEF TxnTypes, TxRec
      <4>2. \A j \in DOMAIN tx'[c].order : ~(j < 1)
        BY <4>1, SMTT(40)
      <4> QED BY <2>2, <4>2, Zenon DEF OwnsLocked
    <3> QED BY <2>2, <3>2, <3>3, ZenonT(40) DEF OwnsOK, OwnsWrites, OwnsUndone, OwnsReplaced,
       OwnsRemoved
  <2>6. PtrsOK(c)'
    <3>1. \A j \in DOMAIN tx'[c].todo : FALSE
      BY <2>2
    <3> QED BY <1>1, <2>2, <3>1, PtrsKnown, LocalPtrs, Zenon
  <2>7. ASSUME NEW x \in Tuples, heap[x].owner = c PROVE LockOK(x)'
    <3>1. LockOK(x) /\ c # None
      BY NoneApart, Zenon DEF TxnInv
    <3>2. DidInsert(tx[c], x) /\ Tentative(x) /\ heap[x].alive /\ heap[x].write_intent
      BY <1>1, <2>7, <3>1, ZenonT(40) DEF LockOK, Removing
    <3>3. DidInsert(tx'[c], x)
      BY <2>2, <3>2, ZenonT(40) DEF DidInsert
    <3> QED
      BY <1>1, <2>2, <2>7, <3>2, <3>3, ZenonT(40) DEF LockOK, dbVars, Tentative
  <2> QED
    BY <1>1, <2>2, <2>3, <2>4, <2>5, <2>6, <2>7, LocalStep, ZenonT(40)
<1> QED BY <1>3, <1>4, <1>5, SMTT(40)

(* What a deciding transaction owns is in its write set. *)
LEMMA OrderCovers ==
  ASSUME TxnInv, NEW c \in Cores, tx[c].pc \in Deciding, NEW x
  PROVE  (\E j \in DOMAIN tx[c].order : tx[c].order[j] = x)
           <=> (\E j \in DOMAIN tx[c].write_set : tx[c].write_set[j].tuple = x)
<1>1. {tx[c].order[j] : j \in DOMAIN tx[c].order}
        = {tx[c].write_set[j].tuple : j \in DOMAIN tx[c].write_set}
  BY ZenonT(40) DEF TxnInv, PcOK, Fits
<1>2. x \in {tx[c].order[j] : j \in DOMAIN tx[c].order}
        <=> x \in {tx[c].write_set[j].tuple : j \in DOMAIN tx[c].write_set}
  BY <1>1, Zenon
<1> QED BY <1>2, Zenon

(* do_abort without a change of the database. *)
LEMMA DoAborts ==
  ASSUME TxnInv, TxnTypes', UNCHANGED <<clockVars, dbVars, gc, workload>>, NEW c \in Cores,
         tx[c].pc \in {"lock", "validate"}, do_abort(c)
  PROVE  TxnInv'
<1>1. tx[c] \in TxRec /\ TxnTypes /\ PcOK(c) /\ OwnsOK(c)
  BY Zenon DEF TxnInv, TxnTypes
<1>2. /\ tx'[c].pc = "undo" /\ tx'[c].write_set = tx[c].write_set
      /\ tx'[c].read_set = tx[c].read_set /\ tx'[c].order = tx[c].order
      /\ tx'[c].todo = tx[c].todo /\ tx'[c].head = tx[c].head
      /\ \A d \in Cores : d # c => tx'[d] = tx[d]
  BY <1>1, ZenonT(40) DEF TxnTypes, do_abort, Become, TxRec
<1>3. PcOK(c)'
  <2>1. tx[c].head = None /\ (tx[c].pc = "lock" => ~IsSnapshot(c))
    BY <1>1, Zenon DEF PcOK, Fits
  <2> QED BY <1>1, <1>2, <2>1, DecidesOn, ZenonT(40) DEF PcOK, Deciding, IsSnapshot, clockVars
<1>4. EpochOK(c)' /\ SnapOK(c)'
  BY <1>2, Zenon DEF EpochOK, SnapOK, Running
<1>5. OwnsOK(c)'
  <2>1. \A w : Pending(c, w)' = Pending(c, w)
    BY Zenon DEF Pending, Owns, Tentative, Unqueued, Entries, dbVars
  <2>2. \A j \in DOMAIN tx[c].write_set : tx[c].write_set[j].insert => Pending(c, tx[c].write_set[j])
    BY <1>1, Zenon DEF OwnsOK, OwnsInserts, OwnsWrites
  <2>3. OwnsUndone(c)'
    BY <1>2, <2>1, <2>2, Zenon DEF OwnsUndone
  <2> QED
    BY <1>2, <2>3, ZenonT(40) DEF OwnsOK, OwnsInserts, OwnsLocked, OwnsWrites, OwnsReplaced,
       OwnsRemoved, Running
<1>6. PtrsOK(c)'
  BY <1>2, PtrsKnown, LocalPtrs, ZenonT(40)
<1>7. ASSUME NEW x \in Tuples, heap[x].owner = c PROVE LockOK(x)'
  <2>1. LockOK(x) /\ c # None
    BY NoneApart, Zenon DEF TxnInv
  <2>2. heap[x].alive /\ heap[x].write_intent
    BY <1>7, <2>1, ZenonT(40) DEF LockOK, Removing
  <2>3. \E j \in DOMAIN tx[c].order : tx[c].order[j] = x
    <3>1. DidInsert(tx[c], x) => \E j \in DOMAIN tx[c].write_set : tx[c].write_set[j].tuple = x
      BY Zenon DEF DidInsert, Positions
    <3>2. DidInsert(tx[c], x) => \E j \in DOMAIN tx[c].order : tx[c].order[j] = x
      BY <3>1, OrderCovers, ZenonT(40) DEF Deciding
    <3> QED BY <1>7, <2>1, <2>2, <3>2, ZenonT(40) DEF LockOK
  <2>4. /\ heap'[x] = heap[x] /\ tx'[c].pc \in {"validate", "write", "undo"}
        /\ \E j \in DOMAIN tx'[c].order : tx'[c].order[j] = x
    BY <1>2, <2>3, Zenon DEF dbVars
  <2>5. heap'[x].owner = c /\ heap'[x].alive /\ heap'[x].write_intent
    BY <1>7, <2>2, <2>4, Zenon
  <2> QED BY <2>4, <2>5, LockedFor, Zenon
<1> QED
  BY <1>2, <1>3, <1>4, <1>5, <1>6, <1>7, LocalStep, ZenonT(40)

(* handle_last_tuple_in_group goes past a tuple of its own. *)
LEMMA LockPasses ==
  ASSUME TxnInv, TxnTypes', UNCHANGED <<clockVars, dbVars, gc, workload>>, NEW c \in Cores,
         tx[c].pc = "lock", tx[c].i <= Len(tx[c].order), DidInsert(tx[c], tx[c].order[tx[c].i]),
         Become(c, [tx[c] EXCEPT !.i = @ + 1])
  PROVE  TxnInv'
<1>1. tx[c] \in TxRec /\ TxnTypes /\ PcOK(c) /\ OwnsOK(c)
  BY Zenon DEF TxnInv, TxnTypes
<1>2. /\ tx'[c].pc = "lock" /\ tx'[c].write_set = tx[c].write_set
      /\ tx'[c].read_set = tx[c].read_set /\ tx'[c].order = tx[c].order
      /\ tx'[c].todo = tx[c].todo /\ tx'[c].head = tx[c].head /\ tx'[c].i = tx[c].i + 1
      /\ \A d \in Cores : d # c => tx'[d] = tx[d]
  BY <1>1, ZenonT(40) DEF TxnTypes, Become, TxRec
<1>3. PcOK(c)'
  <2>1. tx[c].head = None /\ (tx[c].pc = "lock" => ~IsSnapshot(c))
    BY <1>1, Zenon DEF PcOK, Fits
  <2> QED BY <1>1, <1>2, <2>1, DecidesOn, ZenonT(40) DEF PcOK, Deciding, IsSnapshot, clockVars
<1>4. EpochOK(c)' /\ SnapOK(c)'
  BY <1>2, Zenon DEF EpochOK, SnapOK, Running
<1>5. \A j \in DOMAIN tx[c].order : j < tx[c].i + 1 => j < tx[c].i \/ j = tx[c].i
  <2>1. tx[c].order \in Seq(Tuples) /\ tx[c].i \in Nat
    BY <1>1, Zenon DEF TxRec
  <2> QED BY <2>1, SMTT(40)
<1>6. OwnsOK(c)'
  <2>1. \A w : Pending(c, w)' = Pending(c, w)
    BY Zenon DEF Pending, Owns, Tentative, Unqueued, Entries, dbVars
  <2>2. OwnsInserts(c)'
    BY <1>1, <1>2, <2>1, ZenonT(40) DEF OwnsOK, OwnsInserts
  <2>3. LET h == heap[tx[c].order[tx[c].i]] IN h.owner = c /\ h.write_intent /\ h.latest
    <3>1. PICK j \in DOMAIN tx[c].write_set :
            tx[c].write_set[j].insert /\ tx[c].write_set[j].tuple = tx[c].order[tx[c].i]
      BY Zenon DEF DidInsert, Positions
    <3>2. Pending(c, tx[c].write_set[j])
      BY <1>1, <3>1, ZenonT(40) DEF OwnsOK, OwnsInserts
    <3> QED BY <3>1, <3>2, ZenonT(40) DEF Pending, Owns
  <2>4. OwnsLocked(c)'
    <3>1. \A j \in DOMAIN tx[c].order : j < tx[c].i + 1 =>
            LET h == heap[tx[c].order[j]] IN h.owner = c /\ h.write_intent /\ h.latest
      BY <1>1, <1>5, <2>3, Zenon DEF OwnsOK, OwnsLocked
    <3>2. heap' = heap
      BY Zenon DEF dbVars
    <3> QED BY <1>2, <3>1, <3>2, Zenon DEF OwnsLocked
  <2> QED
    BY <1>2, <2>2, <2>4, ZenonT(40) DEF OwnsOK, OwnsWrites, OwnsUndone, OwnsReplaced, OwnsRemoved
<1>7. PtrsOK(c)'
  BY <1>2, PtrsKnown, LocalPtrs, ZenonT(40)
<1>8. ASSUME NEW x \in Tuples, heap[x].owner = c PROVE LockOK(x)'
  <2>1. LockOK(x) /\ c # None
    BY NoneApart, Zenon DEF TxnInv
  <2>2. heap[x].alive /\ heap[x].write_intent
    BY <1>8, <2>1, Zenon DEF LockOK, Removing
  <2>3. DidInsert(tx[c], x) => DidInsert(tx'[c], x)
    BY <1>2, Zenon DEF DidInsert
  <2>4. \A j \in DOMAIN tx[c].order : j < tx[c].i => j < tx[c].i + 1
    <3>1. tx[c].order \in Seq(Tuples) /\ tx[c].i \in Nat
      BY <1>1, Zenon DEF TxRec
    <3> QED BY <3>1
  <2>5. \/ DidInsert(tx[c], x) /\ Tentative(x)
        \/ \E j \in DOMAIN tx[c].order : j < tx[c].i /\ tx[c].order[j] = x
    BY <1>8, <2>1, <2>2, ZenonT(40) DEF LockOK
  <2>6. heap' = heap /\ Tentative(x)' = Tentative(x)
    BY Zenon DEF dbVars, Tentative
  <2>7. \/ DidInsert(tx'[c], x) /\ Tentative(x)'
        \/ \E j \in DOMAIN tx'[c].order : j < tx'[c].i /\ tx'[c].order[j] = x
    BY <1>2, <2>3, <2>4, <2>5, <2>6, Zenon
  <2> QED BY <1>2, <1>8, <2>2, <2>6, <2>7, LockedFor, Zenon
<1> QED
  BY <1>2, <1>3, <1>4, <1>6, <1>7, <1>8, LocalStep, ZenonT(40)

(* A transaction with all its locks has its writes where the tree leads. *)
LEMMA AllLocked ==
  ASSUME TxnInv, NEW c \in Cores, tx[c].pc = "lock", tx[c].i > Len(tx[c].order),
         NEW j \in DOMAIN tx[c].write_set
  PROVE  Pending(c, tx[c].write_set[j])
<1>1. PICK w : w = tx[c].write_set[j]
  OBVIOUS
<1>2. tx[c].order \in Seq(Tuples) /\ tx[c].i \in Nat /\ w.tuple \in Tuples /\ OwnsOK(c)
  <2>1. TxnTypes /\ tx[c].order \in Seq(Tuples) /\ tx[c].i \in Nat /\ OwnsOK(c)
    BY Zenon DEF TxnInv, TxnTypes, TxRec
  <2> QED BY <1>1, <2>1, SetTypes, ZenonT(40)
<1>3. PICK m \in DOMAIN tx[c].order : tx[c].order[m] = w.tuple
  BY <1>1, OrderCovers, ZenonT(40) DEF Deciding
<1>4. m < tx[c].i
  BY <1>2
<1>5. heap[w.tuple].owner = c /\ heap[w.tuple].write_intent /\ heap[w.tuple].latest
  BY <1>2, <1>3, <1>4, ZenonT(40) DEF OwnsOK, OwnsLocked
<1>6. tree[w.key] = w.tuple
  <2>1. Leads(w.key, w.tuple)
    BY <1>1, PtrsKnown, ZenonT(40)
  <2>2. ASSUME NEW d \in Cores, Removing(d, w.tuple) PROVE FALSE
    <3>1. OwnsRemoved(d)
      BY DEF TxnInv, OwnsOK
    <3> QED BY <1>5, <2>2, <3>1, ZenonT(40) DEF Removing, OwnsRemoved
  <2> QED BY <1>5, <2>1, <2>2, ZenonT(40) DEF Leads
<1>7. w.insert => Pending(c, w)
  BY <1>1, <1>2, ZenonT(40) DEF OwnsOK, OwnsInserts
<1> QED
  BY <1>1, <1>5, <1>6, <1>7, ZenonT(40) DEF Pending, Owns

(* Drawing the tid preserves the invariant: its epoch is the current tick. *)
LEMMA GenStep ==
  ASSUME TxnInv, TxnTypes', UNCHANGED <<clockVars, dbVars, gc, workload>>, NEW c \in Cores,
         tx[c].pc = "lock", tx[c].i > Len(tx[c].order), NEW tid,
         Become(c, [tx[c] EXCEPT !.pc = "validate", !.tid = tid, !.i = 1]),
         EpochId(tid) = current_tick
  PROVE  TxnInv'
<1>1. tx[c] \in TxRec /\ TxnTypes /\ PcOK(c) /\ OwnsOK(c)
  BY Zenon DEF TxnInv, TxnTypes
<1>2. /\ tx'[c].pc = "validate" /\ tx'[c].write_set = tx[c].write_set
      /\ tx'[c].read_set = tx[c].read_set /\ tx'[c].order = tx[c].order
      /\ tx'[c].todo = tx[c].todo /\ tx'[c].head = tx[c].head /\ tx'[c].tid = tid
      /\ \A d \in Cores : d # c => tx'[d] = tx[d]
  BY <1>1, ZenonT(40) DEF TxnTypes, Become, TxRec
<1>3. PcOK(c)'
  <2>1. tx[c].head = None /\ ~IsSnapshot(c)
    BY <1>1, ZenonT(40) DEF PcOK, Fits
  <2> QED BY <1>1, <1>2, <2>1, DecidesOn, ZenonT(40) DEF PcOK, Deciding, IsSnapshot, clockVars
<1>4. EpochOK(c)' /\ SnapOK(c)'
  <2>1. current_tick \in Nat /\ pinned[c] <= current_tick
    BY DEF TxnInv, TxnTypes, ClockTypeOK, PinnedWindow
  <2>2. \A e \in gc[c].queue : e.tick <= to_read_only_tick(current_tick)
    BY ZenonT(40) DEF TxnInv, GcOK, Entries
  <2> QED BY <1>2, <2>1, <2>2, SMTT(40) DEF EpochOK, SnapOK, Running, clockVars
<1>5. OwnsOK(c)'
  <2>1. \A w : Pending(c, w)' = Pending(c, w)
    BY DEF Pending, Owns, Tentative, Unqueued, Entries, dbVars
  <2>2. OwnsWrites(c)'
    BY <1>2, <2>1, AllLocked, ZenonT(40) DEF OwnsWrites
  <2> QED
    BY <1>2, <2>2, ZenonT(40) DEF OwnsOK, OwnsInserts, OwnsLocked, OwnsUndone, OwnsReplaced,
       OwnsRemoved, Running
<1>6. PtrsOK(c)'
  BY <1>2, PtrsKnown, LocalPtrs, ZenonT(40)
<1>7. ASSUME NEW x \in Tuples, heap[x].owner = c PROVE LockOK(x)'
  <2>1. LockOK(x) /\ c # None
    BY NoneApart, Zenon DEF TxnInv
  <2>2. heap[x].alive /\ heap[x].write_intent
    BY <1>7, <2>1, ZenonT(40) DEF LockOK, Removing
  <2>3. \E j \in DOMAIN tx[c].order : tx[c].order[j] = x
    <3>1. DidInsert(tx[c], x) => \E j \in DOMAIN tx[c].write_set : tx[c].write_set[j].tuple = x
      BY Zenon DEF DidInsert, Positions
    <3>2. DidInsert(tx[c], x) => \E j \in DOMAIN tx[c].order : tx[c].order[j] = x
      BY <3>1, OrderCovers, ZenonT(40) DEF Deciding
    <3> QED BY <1>7, <2>1, <2>2, <3>2, ZenonT(40) DEF LockOK
  <2>4. /\ heap'[x] = heap[x] /\ tx'[c].pc \in {"validate", "write", "undo"}
        /\ \E j \in DOMAIN tx'[c].order : tx'[c].order[j] = x
    BY <1>2, <2>3, Zenon DEF dbVars
  <2>5. heap'[x].owner = c /\ heap'[x].alive /\ heap'[x].write_intent
    BY <1>7, <2>2, <2>4, Zenon
  <2> QED BY <2>4, <2>5, LockedFor, Zenon
<1> QED
  BY <1>2, <1>3, <1>4, <1>5, <1>6, <1>7, LocalStep, ZenonT(40)

(* The validation goes on, or is passed. *)
LEMMA ValidatesOn ==
  ASSUME TxnInv, TxnTypes', UNCHANGED <<clockVars, dbVars, gc, workload>>, NEW c \in Cores,
         \A d \in Cores : d # c => tx'[d] = tx[d],
         tx[c].pc = "validate", tx'[c].pc \in {"validate", "write"},
         tx'[c].write_set = tx[c].write_set, tx'[c].read_set = tx[c].read_set,
         tx'[c].order = tx[c].order, tx'[c].todo = tx[c].todo, tx'[c].head = tx[c].head,
         tx'[c].tid = tx[c].tid
  PROVE  TxnInv'
<1>1. tx[c] \in TxRec /\ TxnTypes /\ PcOK(c) /\ OwnsOK(c) /\ EpochOK(c)
  BY Zenon DEF TxnInv, TxnTypes
<1>2. PcOK(c)'
  <2>1. tx[c].head = None /\ ~IsSnapshot(c)
    BY <1>1, Zenon DEF PcOK, Fits
  <2> QED BY <1>1, <2>1, DecidesOn, ZenonT(40) DEF PcOK, Deciding, IsSnapshot, clockVars
<1>3. EpochOK(c)' /\ SnapOK(c)'
  BY <1>1, Zenon DEF EpochOK, SnapOK, Running, clockVars
<1>4. OwnsOK(c)'
  <2>1. \A w : Pending(c, w)' = Pending(c, w)
    BY Zenon DEF Pending, Owns, Tentative, Unqueued, Entries, dbVars
  <2>2. Ahead(tx'[c]) \subseteq DOMAIN tx[c].write_set
    BY Zenon DEF Ahead, DoWrite
  <2>3. OwnsWrites(c)'
    BY <1>1, <2>1, <2>2, ZenonT(40) DEF OwnsOK, OwnsWrites
  <2> QED
    BY <2>3, ZenonT(40) DEF OwnsOK, OwnsInserts, OwnsLocked, OwnsUndone, OwnsReplaced,
       OwnsRemoved, Running
<1>5. PtrsOK(c)'
  BY PtrsKnown, LocalPtrs, ZenonT(40)
<1>6. ASSUME NEW x \in Tuples, heap[x].owner = c PROVE LockOK(x)'
  <2>1. LockOK(x) /\ c # None
    BY NoneApart, Zenon DEF TxnInv
  <2>2. heap[x].alive /\ heap[x].write_intent /\ \E j \in DOMAIN tx[c].order : tx[c].order[j] = x
    BY <1>6, <2>1, Zenon DEF LockOK, Running, Removing
  <2>3. /\ heap'[x] = heap[x] /\ tx'[c].pc \in {"validate", "write", "undo"}
        /\ \E j \in DOMAIN tx'[c].order : tx'[c].order[j] = x
    BY <2>2, Zenon DEF dbVars
  <2>4. heap'[x].owner = c /\ heap'[x].alive /\ heap'[x].write_intent
    BY <1>6, <2>2, <2>3, Zenon
  <2> QED BY <2>3, <2>4, LockedFor, Zenon
<1> QED
  BY <1>2, <1>3, <1>4, <1>5, <1>6, LocalStep, ZenonT(40)

(* Validating a read preserves the invariant. *)
LEMMA ValidateReadStep ==
  ASSUME TxnInv, TxnTypes', UNCHANGED workload, NEW c \in Cores, ValidateRead(c)
  PROVE  TxnInv'
<1>1. tx[c].pc = "validate" /\ UNCHANGED <<clockVars, dbVars, gc>> /\ tx[c] \in TxRec /\ TxnTypes
  BY SMTT(40) DEF ValidateRead, At, TxnInv, TxnTypes
<1>2. do_abort(c) \/ Become(c, [tx[c] EXCEPT !.i = @ + 1])
  BY Zenon DEF ValidateRead
<1>3. CASE Become(c, [tx[c] EXCEPT !.i = @ + 1])
  <2>1. /\ tx'[c].pc = "validate" /\ tx'[c].write_set = tx[c].write_set
        /\ tx'[c].read_set = tx[c].read_set /\ tx'[c].order = tx[c].order
        /\ tx'[c].todo = tx[c].todo /\ tx'[c].head = tx[c].head /\ tx'[c].tid = tx[c].tid
        /\ \A d \in Cores : d # c => tx'[d] = tx[d]
    BY <1>1, <1>3, ZenonT(40) DEF TxnTypes, Become, TxRec
  <2> QED BY <1>1, <2>1, ValidatesOn, ZenonT(40)
<1> QED BY <1>1, <1>2, <1>3, DoAborts, ZenonT(40)

(* Validating the leaf preserves the invariant. *)
LEMMA ValidateAbsentStep ==
  ASSUME TxnInv, TxnTypes', UNCHANGED workload, NEW c \in Cores, ValidateAbsent(c)
  PROVE  TxnInv'
<1>1. tx[c].pc = "validate" /\ UNCHANGED <<clockVars, dbVars, gc>> /\ tx[c] \in TxRec /\ TxnTypes
  BY ZenonT(40) DEF ValidateAbsent, At, TxnInv, TxnTypes
<1>2. do_abort(c) \/ Become(c, [tx[c] EXCEPT !.pc = "write", !.i = 1])
  BY DEF ValidateAbsent
<1>3. CASE Become(c, [tx[c] EXCEPT !.pc = "write", !.i = 1])
  <2>1. /\ tx'[c].pc = "write" /\ tx'[c].write_set = tx[c].write_set
        /\ tx'[c].read_set = tx[c].read_set /\ tx'[c].order = tx[c].order
        /\ tx'[c].todo = tx[c].todo /\ tx'[c].head = tx[c].head /\ tx'[c].tid = tx[c].tid
        /\ \A d \in Cores : d # c => tx'[d] = tx[d]
    BY <1>1, <1>3, ZenonT(40) DEF TxnTypes, Become, TxRec
  <2> QED BY <1>1, <2>1, ValidatesOn, ZenonT(40)
<1> QED BY <1>1, <1>2, <1>3, DoAborts, SMTT(40)

(* With nothing held any more, the transaction is over. *)
LEMMA LastUnlocked ==
  ASSUME TxnInv, TxnTypes', UNCHANGED <<clockVars, dbVars, gc, workload>>, NEW c \in Cores,
         tx[c].pc \in {"write", "undo"}, Held(c) = {},
         Become(c, [tx[c] EXCEPT !.pc = "end"])
  PROVE  TxnInv'
<1>1. tx[c] \in TxRec /\ TxnTypes /\ PcOK(c)
  BY DEF TxnInv, TxnTypes
<1>2. /\ tx'[c].pc = "end" /\ tx'[c].write_set = tx[c].write_set
      /\ tx'[c].read_set = tx[c].read_set
      /\ tx'[c].todo = tx[c].todo /\ tx'[c].head = tx[c].head
      /\ \A d \in Cores : d # c => tx'[d] = tx[d]
  BY <1>1, ZenonT(40) DEF TxnTypes, Become, TxRec
<1>3. tx[c].todo = <<>>
  BY <1>1, ZenonT(40) DEF PcOK, Fits
<1>4. ASSUME NEW x \in Tuples, heap[x].owner = c PROVE FALSE
  <2>1. LockOK(x) /\ c # None
    BY NoneApart, Zenon DEF TxnInv
  <2>2. \E j \in DOMAIN tx[c].order : tx[c].order[j] = x
    BY <1>4, <2>1, ZenonT(40) DEF LockOK, Removing, Running
  <2> QED BY <1>4, <2>2, ZenonT(40) DEF Held
<1> QED
  BY <1>2, <1>3, <1>4, Ended, ZenonT(40)

(* Taking a lock preserves the invariant, be the tuple the latest or not. *)
LEMMA LockTakes ==
  ASSUME TxnInv, TxnTypes', UNCHANGED workload, NEW c \in Cores, handle_last_tuple_in_group(c),
         ~DidInsert(tx[c], tx[c].order[tx[c].i]), ~Tentative(tx[c].order[tx[c].i])
  PROVE  TxnInv'
<1>1. PICK x : x = tx[c].order[tx[c].i]
  BY Zenon
<1>2. /\ tx[c].pc = "lock" /\ tx[c].i <= Len(tx[c].order)
      /\ UNCHANGED <<clockVars, tree, limbo, gc>>
      /\ heap[x].owner = None /\ heap' = [heap EXCEPT ![x] = Acquire(c, x, TRUE)]
      /\ IF heap[x].latest THEN Become(c, [tx[c] EXCEPT !.i = @ + 1]) ELSE do_abort(c)
  BY <1>1, Zenon DEF handle_last_tuple_in_group, At
<1>3. TxnTypes /\ tx[c] \in TxRec /\ PcOK(c) /\ OwnsOK(c) /\ c # None
  BY NoneApart, Zenon DEF TxnInv, TxnTypes
<1>4. tx[c].order \in Seq(Tuples) /\ tx[c].i \in Nat \ {0}
  BY <1>3, Zenon DEF TxRec
<1>5. tx[c].i \in DOMAIN tx[c].order /\ x \in Tuples
  BY <1>1, <1>2, <1>4
<1>6. heap[x].alive
  <2>1. \E j \in DOMAIN tx[c].order : tx[c].order[j] = x
    BY <1>1, <1>5, ZenonT(40)
  <2>2. tx[c].pc \in Deciding
    BY <1>2, Zenon DEF Deciding
  <2>3. PICK j \in DOMAIN tx[c].write_set : tx[c].write_set[j].tuple = x
    BY <2>1, <2>2, OrderCovers, ZenonT(40)
  <2> QED BY <2>3, PtrsKnown, ZenonT(40) DEF Safe
<1>7. /\ heap'[x].owner = c /\ heap'[x].write_intent
      /\ heap'[x].alive = heap[x].alive /\ heap'[x].latest = heap[x].latest
      /\ heap'[x].deleting = heap[x].deleting /\ heap'[x].version = heap[x].version
      /\ heap'[x].next = heap[x].next
      /\ \A y \in Tuples : y # x => heap'[y] = heap[y]
  BY <1>2, <1>5, ZenonT(40) DEF Acquire, TxnTypes, HeapRec
<1>8. /\ \A d \in Cores : d # c => tx'[d] = tx[d]
      /\ tx'[c].write_set = tx[c].write_set /\ tx'[c].read_set = tx[c].read_set
      /\ tx'[c].order = tx[c].order /\ tx'[c].todo = tx[c].todo /\ tx'[c].head = tx[c].head
      /\ \/ tx'[c].pc = "lock" /\ tx'[c].i = tx[c].i + 1 /\ heap[x].latest
         \/ tx'[c].pc = "undo"
  <2>1. CASE heap[x].latest
    <3>1. Become(c, [tx[c] EXCEPT !.i = @ + 1])
      BY <1>2, <2>1, ZenonT(40)
    <3> QED BY <1>2, <1>3, <2>1, <3>1, ZenonT(40) DEF TxnTypes, Become, TxRec
  <2>2. CASE ~heap[x].latest
    <3>1. Become(c, [tx[c] EXCEPT !.pc = "undo"])
      BY <1>2, <2>2, ZenonT(40) DEF do_abort
    <3> QED BY <3>1, ZenonT(40) DEF TxnTypes, Become, TxRec
  <2> QED BY <2>1, <2>2, ZenonT(40)
<1>9. PcOK(c)'
  <2>1. tx[c].head = None /\ ~IsSnapshot(c)
    BY <1>2, <1>3, ZenonT(40) DEF PcOK, Fits
  <2> QED BY <1>2, <1>3, <1>8, <2>1, DecidesOn, ZenonT(40) DEF PcOK, Deciding, IsSnapshot,
     clockVars
<1>10. EpochOK(c)' /\ SnapOK(c)'
  BY <1>8, ZenonT(40) DEF EpochOK, SnapOK, Running
<1>11. \A j \in DOMAIN tx[c].write_set : tx[c].write_set[j].insert =>
          Pending(c, tx[c].write_set[j])'
  <2> SUFFICES ASSUME NEW j \in DOMAIN tx[c].write_set, tx[c].write_set[j].insert
               PROVE  Pending(c, tx[c].write_set[j])'
    BY Zenon
  <2>1. PICK w : w = tx[c].write_set[j]
    BY Zenon
  <2>2. Pending(c, w) /\ w.tuple \in Tuples /\ w.insert
    BY <1>2, <1>3, <2>1, SetTypes, ZenonT(40) DEF OwnsOK, OwnsInserts
  <2>3. w.tuple # x
    BY <1>1, <2>1, ZenonT(40) DEF DidInsert, Positions
  <2>4. Pending(c, w)'
    BY <1>2, <1>7, <2>2, <2>3, PendingStays, ZenonT(40)
  <2>5. \A v : v = w => Pending(c, v)'
    BY <2>4, Zenon DEF Pending, Owns, Tentative, Unqueued
  <2>6. tx'[c].write_set[j] = w
    BY <1>8, <2>1, Zenon
  <2> QED BY <2>5, <2>6, Zenon
<1>12. OwnsOK(c)'
  <2>1. OwnsInserts(c)' /\ OwnsUndone(c)'
    BY <1>8, <1>11, ZenonT(40) DEF OwnsInserts, OwnsUndone
  <2>2. OwnsLocked(c)'
    <3>1. \A j \in DOMAIN tx[c].order : j < tx[c].i + 1 => j < tx[c].i \/ j = tx[c].i
      BY <1>4, SMTT(40)
    <3> DEFINE Held1(y) == heap[y].owner = c /\ heap[y].write_intent /\ heap[y].latest
               Held2(y) == heap'[y].owner = c /\ heap'[y].write_intent /\ heap'[y].latest
    <3>2. \A j \in DOMAIN tx[c].order : j < tx[c].i => Held1(tx[c].order[j])
      BY <1>2, <1>3, Zenon DEF OwnsOK, OwnsLocked
    <3>3. \A y \in Tuples : Held1(y) => Held2(y)
      <4> SUFFICES ASSUME NEW y \in Tuples, Held1(y) PROVE Held2(y)
        BY Zenon
      <4>1. y # x
        BY <1>2, <1>3, Zenon
      <4>2. heap'[y] = heap[y]
        BY <1>7, <4>1, Zenon
      <4> QED BY <4>2, Zenon
    <3>4. \A j \in DOMAIN tx[c].order : tx[c].order[j] \in Tuples
      BY <1>4
    <3>5. heap[x].latest => Held2(x)
      BY <1>7, Zenon
    <3>6. tx'[c].pc = "lock" => \A j \in DOMAIN tx'[c].order : j < tx'[c].i => Held2(tx'[c].order[j])
      <4> HIDE DEF Held1, Held2
      <4>1. \A j \in DOMAIN tx[c].order : j < tx[c].i => Held2(tx[c].order[j])
        BY <3>2, <3>3, <3>4, Zenon
      <4>2. heap[x].latest => \A j \in DOMAIN tx[c].order : j < tx[c].i + 1 => Held2(tx[c].order[j])
        BY <1>1, <3>1, <3>5, <4>1, Zenon
      <4>3. tx'[c].pc = "lock" => tx'[c].i = tx[c].i + 1 /\ heap[x].latest
        BY <1>8, Zenon
      <4> QED BY <1>8, <4>2, <4>3, Zenon
    <3> QED BY <3>6, Zenon DEF OwnsLocked
  <2> QED
    BY <1>8, <2>1, <2>2, ZenonT(40) DEF OwnsOK, OwnsWrites, OwnsReplaced, OwnsRemoved
<1>13. PtrsOK(c)'
  BY <1>2, <1>7, <1>8, OwnerPtrs, ZenonT(40)
<1>14. ASSUME NEW y \in Tuples, heap'[y].owner = c PROVE LockOK(y)'
  <2>1. \A j \in DOMAIN tx[c].order : j <= tx[c].i => j < tx[c].i + 1
    BY <1>4, SMTT(40)
  <2>2. \A j \in DOMAIN tx[c].order : j < tx[c].i => j <= tx[c].i
    BY <1>4, SMTT(40)
  <2>3. CASE y = x
    <3>1. tx[c].i <= tx[c].i
      BY <1>4, SMTT(40)
    <3>2. \E j \in DOMAIN tx'[c].order :
            tx'[c].order[j] = x /\ (tx'[c].pc = "lock" => j < tx'[c].i)
      BY <1>1, <1>5, <1>8, <2>1, <3>1, ZenonT(40)
    <3>3. tx'[c].pc \in {"lock", "undo"}
      BY <1>8, Zenon
    <3>4. \/ /\ tx'[c].pc = "lock"
             /\ \E j \in DOMAIN tx'[c].order : j < tx'[c].i /\ tx'[c].order[j] = x
          \/ /\ tx'[c].pc \in {"validate", "write", "undo"}
             /\ \E j \in DOMAIN tx'[c].order : tx'[c].order[j] = x
      BY <3>2, <3>3, Zenon
    <3>5. heap'[x].alive
      BY <1>6, <1>7, Zenon
    <3> QED BY <1>7, <2>3, <3>4, <3>5, LockedFor, Zenon
  <2>4. CASE y # x
    <3>1. LockOK(y) /\ heap'[y] = heap[y]
      BY <1>7, <2>4, ZenonT(40) DEF TxnInv
    <3>2. heap[y].alive /\ heap[y].write_intent
      BY <1>2, <1>3, <1>14, <3>1, ZenonT(40) DEF LockOK, Removing
    <3>3. \/ DidInsert(tx[c], y) /\ Tentative(y)
          \/ \E j \in DOMAIN tx[c].order : j < tx[c].i /\ tx[c].order[j] = y
      BY <1>2, <1>3, <1>14, <3>1, <3>2, ZenonT(40) DEF LockOK
    <3>4. DidInsert(tx[c], y) => DidInsert(tx'[c], y)
      BY <1>8, Zenon DEF DidInsert
    <3>5. DidInsert(tx[c], y) => \E j \in DOMAIN tx[c].order : tx[c].order[j] = y
      <4>1. DidInsert(tx[c], y) => \E j \in DOMAIN tx[c].write_set : tx[c].write_set[j].tuple = y
        BY Zenon DEF DidInsert, Positions
      <4>2. tx[c].pc \in Deciding
        BY <1>2, Zenon DEF Deciding
      <4> QED BY <4>1, <4>2, OrderCovers, Zenon
    <3>6. Tentative(y)' = Tentative(y) /\ heap'[y].owner = c /\ heap'[y].alive /\ heap'[y].write_intent
      BY <1>14, <3>1, <3>2, Zenon DEF Tentative
    <3>7. \/ DidInsert(tx'[c], y) /\ Tentative(y)'
          \/ \E j \in DOMAIN tx[c].order : j < tx[c].i + 1 /\ tx[c].order[j] = y
      BY <2>1, <2>2, <3>3, <3>4, <3>6, Zenon
    <3>8. \E j \in DOMAIN tx'[c].order : tx'[c].order[j] = y
      BY <1>8, <3>3, <3>5, Zenon
    <3>9. CASE tx'[c].pc = "lock" /\ tx'[c].i = tx[c].i + 1
      <4>1. \/ DidInsert(tx'[c], y) /\ Tentative(y)'
            \/ \E j \in DOMAIN tx'[c].order : j < tx'[c].i /\ tx'[c].order[j] = y
        BY <1>8, <3>7, <3>9, Zenon
      <4> QED BY <3>6, <3>9, <4>1, LockedFor, Zenon
    <3>10. CASE tx'[c].pc = "undo"
      <4>1. tx'[c].pc \in {"validate", "write", "undo"}
        BY <3>10, Zenon
      <4> QED BY <3>6, <3>8, <4>1, LockedFor, Zenon
    <3> QED BY <1>8, <3>9, <3>10, Zenon
  <2> QED BY <2>3, <2>4, ZenonT(40)
<1> QED
  <2>1. \A y \in Tuples :
           /\ heap'[y].alive = heap[y].alive /\ heap'[y].latest = heap[y].latest
           /\ heap'[y].deleting = heap[y].deleting /\ heap'[y].version = heap[y].version
           /\ heap'[y].next = heap[y].next
           /\ heap'[y] = heap[y] \/ /\ heap[y].owner \in {None, c} /\ heap'[y].owner \in {None, c}
                                    /\ heap[y].alive
    BY <1>2, <1>6, <1>7, ZenonT(40)
  <2> QED
    BY <1>2, <1>8, <1>9, <1>10, <1>12, <1>13, <1>14, <2>1, OwnerStep, ZenonT(40)

(* handle_last_tuple_in_group preserves the invariant. *)
LEMMA LockStep ==
  ASSUME TxnInv, TxnTypes', UNCHANGED workload, NEW c \in Cores, handle_last_tuple_in_group(c)
  PROVE  TxnInv'
<1>1. tx[c].pc = "lock" /\ tx[c].i <= Len(tx[c].order)
  BY Zenon DEF handle_last_tuple_in_group, At
<1>2. CASE DidInsert(tx[c], tx[c].order[tx[c].i])
  <2>1. /\ UNCHANGED <<clockVars, dbVars, gc>>
        /\ Become(c, [tx[c] EXCEPT !.i = @ + 1])
    BY <1>2, Zenon DEF handle_last_tuple_in_group, dbVars
  <2> QED BY <1>1, <1>2, <2>1, LockPasses, ZenonT(40)
<1>3. CASE ~DidInsert(tx[c], tx[c].order[tx[c].i]) /\ Tentative(tx[c].order[tx[c].i])
  <2>1. UNCHANGED <<clockVars, dbVars, gc>> /\ do_abort(c)
    BY <1>3, Zenon DEF handle_last_tuple_in_group, dbVars
  <2> QED BY <1>1, <2>1, DoAborts, SMTT(40)
<1> QED BY <1>2, <1>3, LockTakes, ZenonT(40)

(* Letting go of one lock preserves the invariant. *)
LEMMA UnlockStep ==
  ASSUME TxnInv, TxnTypes', UNCHANGED workload, NEW c \in Cores, Unlock(c),
         Held(c) # {} => FirstHeld(c) \in Tuples /\ heap[FirstHeld(c)].owner = c
  PROVE  TxnInv'
<1>1. tx[c].pc = "write" /\ Ahead(tx[c]) = {} /\ UNCHANGED <<clockVars, tree, limbo, gc>>
  BY DEF Unlock, At, WriteNext, Ahead
<1>2. CASE Held(c) # {}
  <2>1. PICK x : x = FirstHeld(c)
    OBVIOUS
  <2>2. x \in Tuples /\ heap[x].owner = c /\ UNCHANGED tx /\ heap' = [heap EXCEPT ![x] = Release(@)]
    BY <1>2, <2>1, SMTT(40) DEF Unlock
  <2> QED BY <1>1, <2>2, Releases, ZenonT(40)
<1>3. CASE Held(c) = {}
  <2>1. UNCHANGED dbVars /\ Become(c, [tx[c] EXCEPT !.pc = "end"])
    BY <1>3, SMTT(40) DEF Unlock, dbVars
  <2> QED BY <1>1, <1>3, <2>1, LastUnlocked, SMTT(40)
<1> QED BY <1>2, <1>3, SMTT(40)

(* The end of an abort preserves the invariant. *)
LEMMA UndoEndStep ==
  ASSUME TxnInv, TxnTypes', UNCHANGED workload, NEW c \in Cores, UndoEnd(c)
  PROVE  TxnInv'
BY LastUnlocked DEF UndoEnd, At

(* try_insert_new_tuple preserves the invariant. *)
LEMMA InsertStep ==
  ASSUME TxnInv, TxnTypes', UNCHANGED workload, NEW c \in Cores, try_insert_new_tuple(c),
         CanAlloc => Fresh \in Tuples /\ ~heap[Fresh].alive
  PROVE  TxnInv'
<1>1. /\ tx[c].pc = "insert" /\ UNCHANGED <<clockVars, gc>> /\ tx[c] \in TxRec /\ TxnTypes
  BY ZenonT(40) DEF try_insert_new_tuple, At, TxnInv, TxnTypes
<1>2. tx[c].key \in Keys /\ tx[c].todo = <<>> /\ tx[c].head = None /\ ~IsSnapshot(c)
  <2>1. tx[c].pc \in Running /\ tx[c].pc # "read"
    BY <1>1, Zenon DEF Running
  <2> QED BY <1>1, <2>1, Ready, Zenon
<1>3. CASE tree[tx[c].key] # None
  <2>1. Become(c, [tx[c] EXCEPT !.pc = "find"]) /\ UNCHANGED dbVars
    BY <1>3, Zenon DEF try_insert_new_tuple
  <2>2. /\ tx'[c].pc = "find" /\ tx'[c].write_set = tx[c].write_set
        /\ tx'[c].read_set = tx[c].read_set /\ tx'[c].key = tx[c].key
        /\ tx'[c].order = tx[c].order /\ tx'[c].i = tx[c].i /\ tx'[c].todo = tx[c].todo
        /\ tx'[c].head = tx[c].head
        /\ \A d \in Cores : d # c => tx'[d] = tx[d]
    BY <1>1, <2>1, ZenonT(40) DEF TxnTypes, Become, TxRec
  <2>3. PcOK(c)'
    <3>1. tx[c].pc \in Running /\ tx'[c].pc \in Running /\ tx'[c].pc # "read"
      BY <1>1, <2>2, Zenon DEF Running
    <3> QED BY <1>1, <1>2, <2>2, <3>1, Ready, StaysReady, Zenon
  <2>4. SnapOK(c)'
    BY <1>2, Zenon DEF SnapOK, IsSnapshot
  <2>5. PtrsOK(c)'
    BY <1>1, <2>1, <2>2, PtrsKnown, LocalPtrs, ZenonT(40)
  <2> QED BY <1>1, <2>1, <2>2, <2>3, <2>4, <2>5, RunsOn, ZenonT(40) DEF Running
<1>4. CASE tree[tx[c].key] = None
  <2>1. PICK x \in Tuples : x = Fresh /\ ~heap[x].alive
    BY <1>4, Zenon DEF try_insert_new_tuple
  <2>2. PICK k \in Keys : k = tx[c].key
    BY <1>2
  <2>3. PICK w : w = Entry(tx[c], x, TRUE)
    BY Zenon
  <2>4. w.tuple = x /\ w.key = k /\ w.insert
    BY <2>2, <2>3, SMTT(40) DEF Entry
  <2>5. PICK us : us = Append(tx[c].write_set, w)
    BY Zenon
  <2>6. PICK r : r = [tx[c] EXCEPT !.pc = "run", !.write_set = us]
    OBVIOUS
  <2>7. r = Written(tx[c], x, TRUE)
    BY <2>3, <2>5, <2>6, ZenonT(40) DEF Written
  <2>8. /\ heap' = [heap EXCEPT ![x] =
                      [alive |-> TRUE, owner |-> c, write_intent |-> TRUE,
                       latest |-> TRUE, deleting |-> tx[c].val = None,
                       version |-> MAX_TID, val |-> tx[c].val, next |-> None]]
        /\ tree' = [tree EXCEPT ![k] = x] /\ UNCHANGED limbo
    BY <1>4, <2>1, <2>2, ZenonT(40) DEF try_insert_new_tuple
  <2>9. \/ \E a : Become(c, [r EXCEPT !.absent = a])
        \/ abort_impl(c, r)
    BY <1>4, <2>1, <2>7, ZenonT(40) DEF try_insert_new_tuple
  <2>10. /\ \A y \in Tuples : y # x => heap'[y] = heap[y]
         /\ heap'[x].alive /\ heap'[x].owner = c /\ heap'[x].write_intent /\ heap'[x].latest
         /\ heap'[x].version = MAX_TID /\ heap'[x].next = None
    BY <2>8, Zenon DEF TxnTypes
  <2>11. /\ r.write_set = us /\ r.read_set = tx[c].read_set /\ r.todo = tx[c].todo
         /\ r.head = tx[c].head /\ r.pc = "run" /\ r.order = tx[c].order /\ r.i = tx[c].i
         /\ DOMAIN r = DOMAIN tx[c]
    BY <1>1, <2>6, ZenonT(40) DEF TxRec
  <2>12. /\ \A d \in Cores : d # c => tx'[d] = tx[d]
         /\ tx'[c].write_set = us /\ tx'[c].read_set = tx[c].read_set
         /\ tx'[c].todo = tx[c].todo /\ tx'[c].head = tx[c].head
         /\ \/ tx'[c].pc = "run" /\ tx'[c].order = tx[c].order /\ tx'[c].i = tx[c].i
            \/ tx'[c].pc = "undo" /\ tx'[c].order = [j \in DOMAIN us |-> us[j].tuple]
    <3>2. CASE \E a : Become(c, [r EXCEPT !.absent = a])
      BY <2>11, <3>2, SMTT(40) DEF TxnTypes, Become
    <3>3. CASE abort_impl(c, r)
      <4>1. Become(c, [r EXCEPT !.pc = "undo", !.order = [j \in DOMAIN us |-> us[j].tuple]])
        BY <2>11, <3>3, SMTT(40) DEF abort_impl
      <4> QED BY <1>1, <2>11, <4>1, SMTT(40) DEF TxnTypes, Become
    <3> QED BY <2>9, <3>2, <3>3, ZenonT(40)
  <2>13. Enters(c, k, x, us)
    BY <1>2, <1>4, <2>1, <2>2, <2>4, <2>5, <2>8, <2>10, <2>12, ZenonT(40) DEF Enters
  <2> QED
    BY <1>1, <2>8, <2>13, Inserts, ZenonT(40)
<1> QED BY <1>3, <1>4, ZenonT(40)
=============================================================================

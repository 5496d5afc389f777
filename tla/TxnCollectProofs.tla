-------------------------- MODULE TxnCollectProofs --------------------------
(***************************************************************************)
(* TxnInv is kept by the clock, by the beginning and the end of a region,  *)
(* by an insert and its undoing and by the garbage collector.  Before      *)
(* them, the facts that all steps share: the numbers TxnInv compares, what *)
(* a core keeps when another one moves, what a tuple that nobody touches   *)
(* keeps, and what holds of a free tuple.                                  *)
(***************************************************************************)
EXTENDS TxnInv, TxnCollect, TLAPS

(* None is nothing else. *)
LEMMA NoneApart == None \notin Tuples /\ None \notin Cores /\ None \notin Keys
BY TxnAssumption, SMTT(40) DEF Tuples

(* The clock shows numbers. *)
LEMMA Ticks == TxnTypes => current_tick \in Nat /\ last_tick_inclusive \in Nat
BY Zenon DEF TxnTypes, ClockTypeOK

(* Read-only ticks follow the ticks. *)
LEMMA RoMonotone ==
  /\ \A a \in Nat : to_read_only_tick(a) \in Nat
  /\ \A a, b \in Nat : a <= b => to_read_only_tick(a) <= to_read_only_tick(b)
<1> DEFINE m == ReadOnlyEpochMultiplier
<1>1. m \in Nat \ {0}
  BY TidAssumption
<1> HIDE DEF m
<1>2. \A a \in Nat : a \div m \in Nat /\ m * (a \div m) <= a /\ a < m * (a \div m) + m
  BY <1>1, Z3
<1>3. ASSUME NEW a \in Nat, NEW b \in Nat, a <= b PROVE a \div m <= b \div m
  <2> DEFINE p == a \div m
             q == b \div m
  <2>1. p \in Nat /\ q \in Nat /\ m * p <= a /\ b < m * q + m
    BY <1>2, Zenon
  <2> HIDE DEF p, q
  <2>2. ASSUME q < p PROVE FALSE
    <3>1. PICK k \in Nat : p = q + 1 + k
      BY <2>1, <2>2
    <3>2. m * p = m * q + m + m * k /\ m * k >= 0
      BY <1>1, <2>1, <3>1, Z3
    <3> QED BY <1>1, <1>3, <2>1, <3>2
  <2>3. p <= q
    BY <2>1, <2>2
  <2> QED BY <2>3 DEF p, q
<1> QED BY <1>2, <1>3, Zenon DEF to_read_only_tick, m

(* EpochId takes a tid to a natural number, and the zero tid to epoch 0. *)
LEMMA EpochNat == \A v \in Nat : EpochId(v) \in Nat /\ (v = 0 => EpochId(v) = 0)
<1> DEFINE m == NMAXCORES * NumIds
<1>1. m \in Nat \ {0}
  BY TidAssumption, Z3
<1> HIDE DEF m
<1>2. \A v \in Nat : v \div m \in Nat /\ (v = 0 => v \div m = 0)
  BY <1>1, Z3
<1> QED BY <1>2, Zenon DEF EpochId, m

(* The tid that marks a tentative insert is a number. *)
LEMMA MaxTidNat == MAX_TID \in Nat
<1>1. MaxTick + 1 \in Nat
  BY ClockAssumption
<1>2. PICK m \in Nat : m = MaxTick + 1
  BY <1>1
<1>3. NMAXCORES \in Nat /\ NumIds \in Nat
  BY TidAssumption
<1>4. 0 + NMAXCORES * (0 + NumIds * m) \in Nat
  BY <1>2, <1>3, Z3
<1> QED BY <1>2, <1>4, Zenon DEF MAX_TID, MakeTid

(* A core whose transaction and guard stay as they are stays where it is. *)
LEMMA PcFrame ==
  ASSUME NEW d \in Cores, PcOK(d), UNCHANGED workload,
         tx'[d] = tx[d], pinned'[d] = pinned[d]
  PROVE  PcOK(d)'
BY Zenon DEF PcOK, IsSnapshot

(* The commit epoch of a core that does not move stays within its window,  *)
(* whatever the clock does.                                                *)
LEMMA EpochFrame ==
  ASSUME NEW d \in Cores, EpochOK(d), TxnTypes, TxnTypes', current_tick <= current_tick',
         tx'[d] = tx[d], pinned'[d] = pinned[d], gc'[d].queue = gc[d].queue
  PROVE  EpochOK(d)'
<1>1. EpochId(tx[d].tid) \in Nat /\ current_tick \in Nat /\ current_tick' \in Nat
  <2>1. tx[d].tid \in Nat /\ current_tick \in Nat /\ current_tick' \in Nat
    BY DEF TxnTypes, TxRec, ClockTypeOK
  <2> QED BY <2>1, EpochNat, Zenon
<1>2. CASE tx[d].pc \in {"validate", "write", "replace"} /\ tx[d].write_set # <<>>
  BY <1>1 DEF EpochOK
<1>3. CASE ~(tx[d].pc \in {"validate", "write", "replace"} /\ tx[d].write_set # <<>>)
  BY <1>3, Zenon DEF EpochOK
<1> QED BY <1>2, <1>3, Zenon

(* The snapshot of a core that does not move stays no older than its       *)
(* region.                                                                 *)
LEMMA SnapFrame ==
  ASSUME NEW d \in Cores, SnapOK(d), UNCHANGED workload,
         tx'[d] = tx[d], pinned'[d] = pinned[d]
  PROVE  SnapOK(d)'
BY Zenon DEF SnapOK, IsSnapshot

(* The tuples and keys of a transaction. *)
LEMMA SetTypes ==
  ASSUME TxnTypes, NEW d \in Cores
  PROVE  /\ \A j \in DOMAIN tx[d].write_set : /\ tx[d].write_set[j].tuple \in Tuples
                                              /\ tx[d].write_set[j].key \in Keys
         /\ \A j \in DOMAIN tx[d].order : tx[d].order[j] \in Tuples
         /\ \A j \in DOMAIN tx[d].todo : tx[d].todo[j].tuple \in Tuples
         /\ \A j \in DOMAIN tx[d].read_set : tx[d].read_set[j].tuple \in Tuples
         /\ tx[d].head \in Tuples \cup {None}
         /\ Ahead(tx[d]) \subseteq DOMAIN tx[d].write_set
         /\ Ptrs(d) \subseteq Tuples
<1>1. /\ tx[d].write_set \in Seq(WriteRec) /\ tx[d].order \in Seq(Tuples)
      /\ tx[d].todo \in Seq(TodoRec) /\ tx[d].read_set \in Seq(ReadRec)
      /\ tx[d].head \in Tuples \cup {None}
  BY Zenon DEF TxnTypes, TxRec
<1>2. /\ \A j \in DOMAIN tx[d].write_set : tx[d].write_set[j] \in WriteRec
      /\ \A j \in DOMAIN tx[d].order : tx[d].order[j] \in Tuples
      /\ \A j \in DOMAIN tx[d].todo : tx[d].todo[j] \in TodoRec
      /\ \A j \in DOMAIN tx[d].read_set : tx[d].read_set[j] \in ReadRec
  BY <1>1
<1>3. /\ \A j \in DOMAIN tx[d].write_set : /\ tx[d].write_set[j].tuple \in Tuples
                                           /\ tx[d].write_set[j].key \in Keys
      /\ \A j \in DOMAIN tx[d].todo : tx[d].todo[j].tuple \in Tuples
      /\ \A j \in DOMAIN tx[d].read_set : tx[d].read_set[j].tuple \in Tuples
  BY <1>2, Zenon DEF WriteRec, TodoRec, ReadRec
<1>4. Ahead(tx[d]) \subseteq DOMAIN tx[d].write_set
  BY Zenon DEF Ahead, DoWrite
<1>5. Ptrs(d) \subseteq Tuples
  BY <1>3, Zenon DEF Ptrs
<1> QED BY <1>1, <1>2, <1>3, <1>4, <1>5, Zenon

(* No step of another core changes a tuple that a core owns, takes it out  *)
(* of the tree or queues it.                                               *)
Spared(d) ==
  /\ tx'[d] = tx[d]
  /\ \A x \in Tuples : heap[x].owner = d => heap'[x] = heap[x]
  /\ \A x \in Tuples : heap'[x].owner = d => heap[x].owner = d
  /\ \A x \in Tuples, k \in Keys : heap[x].owner = d => (tree'[k] = x <=> tree[k] = x)
  /\ \A x \in Tuples : heap[x].owner = d /\ InLimbo(x)' => InLimbo(x)
  /\ \A x \in Tuples, b \in Cores : heap[x].owner = d =>
       \A e \in Entries(b)' : e.tuple = x => e \in Entries(b)

(* A write that a spared core has still to install stays so. *)
LEMMA SparedPending ==
  ASSUME TxnTypes, NEW d \in Cores, Spared(d)
  PROVE  \A w \in WriteRec : Pending(d, w) => Pending(d, w)'
<1> SUFFICES ASSUME NEW w \in WriteRec, Pending(d, w) PROVE Pending(d, w)'
  OBVIOUS
<1>1. w.tuple \in Tuples /\ w.key \in Keys /\ heap[w.tuple].owner = d
  BY Zenon DEF Pending, Owns, WriteRec
<1>3. heap'[w.tuple] = heap[w.tuple] /\ (tree[w.key] = w.tuple => tree'[w.key] = w.tuple)
  BY <1>1, Zenon DEF Spared
<1>4. Unqueued(w.tuple) => Unqueued(w.tuple)'
  BY <1>1, Zenon DEF Spared, Unqueued
<1> QED
  BY <1>3, <1>4, Zenon DEF Pending, Owns, Tentative

(* A spared core owns what it owned, in each phase of its transaction. *)
LEMMA SparedOwns ==
  ASSUME TxnTypes, TxnTypes', NEW d \in Cores, Spared(d), PcOK(d), OwnsOK(d)
  PROVE  OwnsOK(d)'
<1>1. tx'[d] = tx[d]
  BY Zenon DEF Spared
<1>2. \A w \in WriteRec : Pending(d, w) => Pending(d, w)'
  BY SparedPending, Zenon
<1>3. \A j \in DOMAIN tx[d].write_set : tx[d].write_set[j] \in WriteRec
  <2>1. tx[d].write_set \in Seq(WriteRec)
    BY Zenon DEF TxnTypes, TxRec
  <2> QED BY <2>1
<1>4. OwnsInserts(d)'
  BY <1>1, <1>2, <1>3, Zenon DEF OwnsOK, OwnsInserts
<1>5. OwnsLocked(d)'
  <2>1. OwnsLocked(d) /\ \A j \in DOMAIN tx[d].order : tx[d].order[j] \in Tuples
    BY SetTypes, Zenon DEF OwnsOK
  <2>2. \A x \in Tuples : heap[x].owner = d => heap'[x] = heap[x]
    BY Zenon DEF Spared
  <2> SUFFICES ASSUME tx[d].pc = "lock", NEW j \in DOMAIN tx[d].order, j < tx[d].i
               PROVE  LET h == heap'[tx[d].order[j]] IN h.owner = d /\ h.write_intent /\ h.latest
    BY <1>1, Zenon DEF OwnsLocked
  <2> QED BY <2>1, <2>2, Zenon DEF OwnsLocked
<1>6. OwnsWrites(d)'
  BY <1>1, <1>2, <1>3, SetTypes, Zenon DEF OwnsOK, OwnsWrites
<1>7. OwnsUndone(d)'
  <2>1. \A x \in Tuples : heap'[x].owner = d => heap[x].owner = d
    BY Zenon DEF Spared
  <2> QED BY <1>1, <1>2, <1>3, <2>1, SetTypes, Zenon DEF OwnsOK, OwnsUndone
<1>8. \A x \in Tuples : heap[x].owner = d =>
         /\ Unqueued(x) => Unqueued(x)'
         /\ InTree(x)' => InTree(x)
         /\ Queued(x)' => Queued(x)
         /\ InLimbo(x)' => InLimbo(x)
         /\ heap'[x] = heap[x]
  BY Zenon DEF Spared, Unqueued, InTree, Queued
<1>9. OwnsReplaced(d)'
  <2> SUFFICES ASSUME tx[d].pc = "replace" PROVE OwnsReplaced(d)'
    BY <1>1, Zenon DEF OwnsReplaced
  <2>1. PICK w : w = Replacing(d)
    BY Zenon
  <2>2. w.tuple \in Tuples /\ w.key \in Keys /\ Replacing(d)' = w
    BY <1>1, <2>1, SetTypes, Zenon DEF Replacing, PcOK, Fits
  <2>3. PICK n \in Tuples : n = tx[d].head
    BY Zenon DEF PcOK, Fits
  <2>4. heap[w.tuple].owner = d /\ heap[n].owner = d /\ tree[w.key] = w.tuple
    BY <2>1, <2>3, Zenon DEF OwnsOK, OwnsReplaced
  <2>5. tree'[w.key] = w.tuple
    BY <2>2, <2>4, Zenon DEF Spared
  <2>6. OwnsReplaced(d) /\ n = tx'[d].head
    BY <1>1, <2>3, Zenon DEF OwnsOK
  <2>7. /\ heap'[w.tuple] = heap[w.tuple] /\ heap'[n] = heap[n]
        /\ Unqueued(w.tuple) => Unqueued(w.tuple)'
        /\ Queued(w.tuple)' => Queued(w.tuple)
        /\ InLimbo(w.tuple)' => InLimbo(w.tuple)
        /\ Unqueued(n) => Unqueued(n)'
        /\ InTree(n)' => InTree(n)
    BY <1>8, <2>2, <2>3, <2>4, Zenon
  <2> QED BY <1>1, <2>1, <2>2, <2>3, <2>5, <2>6, <2>7, ZenonT(40) DEF OwnsReplaced
<1>10. OwnsRemoved(d)'
  <2> SUFFICES ASSUME tx[d].pc = "removed" PROVE OwnsRemoved(d)'
    BY <1>1, Zenon DEF OwnsRemoved
  <2>1. PICK n \in Tuples : n = tx[d].head
    BY Zenon DEF PcOK, Fits
  <2> QED
    BY <1>1, <1>8, <2>1, Zenon DEF OwnsOK, OwnsRemoved
<1> QED
  BY <1>4, <1>5, <1>6, <1>7, <1>9, <1>10, Zenon DEF OwnsOK

(* The owner of a tuple that is left alone still knows of it. *)
LEMMA LockFrame ==
  ASSUME TxnTypes, NEW x \in Tuples, LockOK(x), heap'[x].owner = heap[x].owner,
         heap[x].owner \in Cores => tx'[heap[x].owner] = tx[heap[x].owner],
         heap'[x].alive = heap[x].alive, heap'[x].write_intent = heap[x].write_intent,
         heap'[x].version = heap[x].version
  PROVE  LockOK(x)'
<1>1. CASE heap[x].owner = None
  BY <1>1, Zenon DEF LockOK
<1>2. CASE heap[x].owner # None
  <2>1. PICK d \in Cores : d = heap[x].owner
    BY <1>2, Zenon DEF TxnTypes, HeapRec
  <2>2. tx'[d] = tx[d]
    BY <2>1, Zenon
  <2> QED BY <2>1, <2>2, ZenonT(40) DEF LockOK, Tentative, Removing
<1> QED BY <1>1, <1>2, Zenon

(* A tuple with an owner is one the owner points to. *)
LEMMA OwnedIsPointer ==
  ASSUME TxnTypes, NEW x \in Tuples, LockOK(x), NEW d \in Cores, heap[x].owner = d, PcOK(d)
  PROVE  /\ heap[x].alive
         /\ \/ x \in Ptrs(d)
            \/ tx[d].pc \in {"replace", "removed"} /\ tx[d].head = x
<1>1. heap[x].owner # None
  BY NoneApart, Zenon
<1>2. {tx[d].write_set[j].tuple : j \in DOMAIN tx[d].write_set} \subseteq Ptrs(d)
  BY Zenon DEF Ptrs
<1>3. DidInsert(tx[d], x) => x \in Ptrs(d)
  BY <1>2, Zenon DEF DidInsert, Positions
<1>4. tx[d].pc \in Deciding /\ (\E j \in DOMAIN tx[d].order : tx[d].order[j] = x) => x \in Ptrs(d)
  BY <1>2, ZenonT(40) DEF PcOK, Fits
<1>6. CASE ~heap[x].write_intent
  BY <1>1, <1>6, Zenon DEF LockOK, Removing
<1>7. CASE heap[x].write_intent
  BY <1>1, <1>3, <1>4, <1>7, Zenon DEF LockOK, Deciding
<1> QED BY <1>6, <1>7, Zenon

(* When every core but c is spared, what the invariant says of each of     *)
(* them alone stays true.                                                  *)
LEMMA OthersKeep ==
  ASSUME TxnInv, TxnTypes', UNCHANGED workload, current_tick <= current_tick',
         NEW c, \A d \in Cores : d # c =>
           Spared(d) /\ pinned'[d] = pinned[d] /\ gc'[d].queue = gc[d].queue
  PROVE  \A d \in Cores : d # c => PcOK(d)' /\ EpochOK(d)' /\ SnapOK(d)' /\ OwnsOK(d)'
<1> SUFFICES ASSUME NEW d \in Cores, d # c
             PROVE  PcOK(d)' /\ EpochOK(d)' /\ SnapOK(d)' /\ OwnsOK(d)'
  BY Zenon
<1>1. TxnTypes /\ PcOK(d) /\ EpochOK(d) /\ SnapOK(d) /\ OwnsOK(d)
  BY Zenon DEF TxnInv
<1>2. Spared(d) /\ pinned'[d] = pinned[d] /\ gc'[d].queue = gc[d].queue
  BY Zenon
<1>3. tx'[d] = tx[d]
  BY <1>2, Zenon DEF Spared
<1> QED
  BY <1>1, <1>3, PcFrame, EpochFrame, SnapFrame, SparedOwns, Zenon

(* The queues and what is released, when only other tuples change. *)
LEMMA GcFrame ==
  ASSUME TxnTypes, TxnTypes', GcOK, UNCHANGED gc,
         current_tick <= current_tick', last_tick_inclusive <= last_tick_inclusive',
         limbo' \subseteq limbo,
         \A x \in Tuples : InLimbo(x) \/ ~Unqueued(x) =>
           /\ heap[x].alive => heap'[x].alive \/ (~InLimbo(x)' /\ Unqueued(x))
           /\ heap'[x].latest => heap[x].latest
           /\ InTree(x)' => InTree(x)
           /\ heap'[x].deleting = heap[x].deleting
           /\ \A k \in Keys : heap[x].latest /\ tree[k] = x => tree'[k] = x
  PROVE  GcOK'
<1>1. \A d : Entries(d)' = Entries(d)
  BY Zenon DEF Entries
<1>2. \A d \in Cores : \A e \in Entries(d) :
        /\ e.tuple \in Tuples /\ ~Unqueued(e.tuple) /\ e.tick \in Nat /\ e.key \in Keys \cup {None}
  BY DEF TxnTypes, GcRec, GcEntry, Entries, Unqueued
<1>3. \A l \in limbo' : l \in limbo /\ l.tuple \in Tuples /\ InLimbo(l.tuple) /\ InLimbo(l.tuple)'
  BY Zenon DEF TxnTypes, LimboRec, InLimbo
<1>4. \A x : InLimbo(x)' => InLimbo(x)
  BY Zenon DEF InLimbo
<1> DEFINE r == to_read_only_tick(current_tick)
           s == to_read_only_tick(last_tick_inclusive)
<1>5. /\ r \in Nat /\ s \in Nat /\ r' \in Nat /\ s' \in Nat /\ r <= r' /\ s <= s'
  <2>1. /\ current_tick \in Nat /\ last_tick_inclusive \in Nat
        /\ current_tick' \in Nat /\ last_tick_inclusive' \in Nat
    BY Zenon DEF TxnTypes, ClockTypeOK
  <2> QED BY <2>1, RoMonotone, Zenon
<1> HIDE DEF r, s
<1>6. \A d \in Cores : \A e \in Entries(d) :
       /\ heap'[e.tuple].alive /\ ~InLimbo(e.tuple)'
       /\ e.key = None => ~heap'[e.tuple].latest /\ ~InTree(e.tuple)'
       /\ e.key # None => /\ heap'[e.tuple].deleting
                          /\ heap'[e.tuple].latest => tree'[e.key] = e.tuple
  BY <1>2, <1>4 DEF GcOK
<1>7. \A d \in Cores : \A e \in Entries(d) : e.tick <= r'
  BY <1>2, <1>5 DEF GcOK, r
<1>8. \A d \in Cores : \A e \in gc[d].scratch : e.tick < s'
  <2>1. \A d \in Cores : \A e \in gc[d].scratch : e.tick < s /\ e.tick \in Nat
    BY <1>2, Zenon DEF GcOK, s, Entries
  <2> QED BY <1>5, <2>1
<1>9. \A l \in limbo' : heap'[l.tuple].alive /\ ~heap'[l.tuple].latest /\ ~InTree(l.tuple)'
  BY <1>3, Zenon DEF GcOK
<1>10. \A l, m \in limbo' : l.tuple = m.tuple => l = m
  BY Zenon DEF GcOK
<1>11. \A c, d \in Cores : \A e \in Entries(c)', f \in Entries(d)' :
         e.tuple = f.tuple => c = d /\ e = f
  BY <1>1 DEF GcOK
<1>13. \A c \in Cores : gc'[c].queue \cap gc'[c].scratch = {}
  BY Zenon DEF GcOK
<1>12. \A d \in Cores : \A e \in gc'[d].scratch : e.tick < s'
  BY <1>8, Zenon
<1> QED
  BY <1>1, <1>6, <1>7, <1>9, <1>10, <1>11, <1>12, <1>13, Zenon DEF GcOK, r, s

(* A step of one core that leaves the clock, the tree, what tuples hold    *)
(* and the queues as they are, and takes or lets go of tuples, concerns    *)
(* only this core.                                                         *)
LEMMA OwnerStep ==
  ASSUME TxnInv, TxnTypes', UNCHANGED <<clockVars, tree, limbo, gc, workload>>,
         NEW c \in Cores, \A d \in Cores : d # c => tx'[d] = tx[d],
         \A x \in Tuples :
           /\ heap'[x].alive = heap[x].alive /\ heap'[x].latest = heap[x].latest
           /\ heap'[x].deleting = heap[x].deleting /\ heap'[x].version = heap[x].version
           /\ heap'[x].next = heap[x].next
           /\ heap'[x] = heap[x] \/ /\ heap[x].owner \in {None, c} /\ heap'[x].owner \in {None, c}
                                    /\ heap[x].alive,
         tx[c].pc \notin {"replace", "removed"}, tx'[c].pc \notin {"replace", "removed"},
         PcOK(c)', EpochOK(c)', SnapOK(c)', OwnsOK(c)', PtrsOK(c)',
         \A x \in Tuples : heap'[x].owner = c => LockOK(x)'
  PROVE  TxnInv'
<1> USE DEF clockVars
<1>1. PinnedWindow'
  BY Zenon DEF TxnInv, PinnedWindow
<1>2. \A x : Queued(x)' = Queued(x) /\ InLimbo(x)' = InLimbo(x) /\ InTree(x)' = InTree(x)
  BY Zenon DEF Queued, InLimbo, InTree, Entries
<1>3. \A d : Entries(d)' = Entries(d)
  BY Zenon DEF Entries
<1>4. ASSUME NEW d \in Cores, d # c PROVE Spared(d)
  <2>1. \A x \in Tuples : /\ heap[x].owner = d => heap'[x] = heap[x]
                          /\ heap'[x].owner = d => heap[x].owner = d
    <3>1. d # None
      BY NoneApart, Zenon
    <3> QED BY <1>4, <3>1, Zenon
  <2> QED BY <1>2, <1>3, <1>4, <2>1, Zenon DEF Spared
<1>5. \A d \in Cores : PcOK(d)' /\ EpochOK(d)' /\ SnapOK(d)' /\ OwnsOK(d)'
  <2>1. current_tick <= current_tick'
    BY DEF TxnTypes, ClockTypeOK
  <2> QED BY <1>4, <2>1, OthersKeep, Zenon
<1>6. ASSUME NEW d \in Cores PROVE PtrsOK(d)'
  <2>1. CASE d # c
    <3>1. tx'[d] = tx[d] /\ PtrsOK(d) /\ TxnTypes
      BY <2>1, Zenon DEF TxnInv
    <3>2. Ptrs(d)' = Ptrs(d)
      <4>1. PICK t : t = tx[d] /\ tx'[d] = t
        BY <3>1, Zenon
      <4> QED BY <4>1, SMT DEF Ptrs
    <3>5. Ptrs(d) \subseteq Tuples
      BY <3>1, SetTypes, Zenon
    <3>3. \A k : \A x \in Tuples : Leads(k, x) => Leads(k, x)'
      BY ZenonT(40) DEF Leads, Removing
    <3>4. \A x \in Tuples : Safe(d, x) => Safe(d, x)'
      BY Zenon DEF Safe
    <3> QED BY <3>1, <3>2, <3>3, <3>4, <3>5, SetTypes, Zenon DEF PtrsOK
  <2> QED BY <2>1, Zenon
<1>7. ASSUME NEW x \in Tuples PROVE LockOK(x)' /\ TupleOK(x)' /\ ChainOK(x)'
  <2>1. LockOK(x) /\ TupleOK(x) /\ ChainOK(x) /\ TxnTypes /\ heap[x].next \in Tuples \cup {None}
    BY Zenon DEF TxnInv, TxnTypes, HeapRec
  <2>2. LockOK(x)'
    <3>2. CASE heap'[x] # heap[x] /\ heap'[x].owner # c
      <4>1. heap'[x].owner = None
        BY <3>2, Zenon
      <4> QED BY <4>1, Zenon DEF LockOK
    <3>3. CASE heap'[x] = heap[x] /\ heap'[x].owner # c
      BY <2>1, <3>3, LockFrame
    <3> QED BY <3>2, <3>3, Zenon
  <2>3. TupleOK(x)'
    BY <2>1, <1>2, Zenon DEF TupleOK
  <2>4. ChainOK(x)'
    <3>1. Live(x)' = Live(x)
      BY Zenon DEF Live
    <3>2. CASE Live(x)
      <4>1. PICK y \in Tuples : y = heap[x].next
        BY <2>1, <3>2, Zenon DEF Live
      <4>2. heap'[x].next = y /\ heap'[x].version = heap[x].version
            /\ heap'[y].alive = heap[y].alive /\ heap'[y].latest = heap[y].latest
        BY <4>1, Zenon
      <4> QED BY <1>2, <1>3, <2>1, <3>1, <4>1, <4>2, Zenon DEF ChainOK
    <3> QED BY <3>1, <3>2, Zenon DEF ChainOK
  <2> QED BY <2>2, <2>3, <2>4, Zenon
<1>8. TreeOK'
  <2>1. TreeOK /\ \A k \in Keys : tree[k] \in Tuples \cup {None}
    BY Zenon DEF TxnInv, TxnTypes
  <2> QED BY <2>1 DEF TreeOK, Replacing
<1>9. GcOK'
  <2>1. TxnTypes /\ GcOK
    BY Zenon DEF TxnInv
  <2>2. current_tick <= current_tick' /\ last_tick_inclusive <= last_tick_inclusive'
    BY <2>1 DEF TxnTypes, ClockTypeOK
  <2> QED BY <1>2, <2>1, <2>2, GcFrame, Zenon
<1>10. ChainsApart'
  <2>1. ChainsApart /\ \A x \in Tuples : Live(x)' = Live(x)
    BY Zenon DEF TxnInv, Live
  <2> QED BY <2>1 DEF ChainsApart
<1> QED
  BY <1>1, <1>5, <1>6, <1>7, <1>8, <1>9, <1>10, Zenon DEF TxnInv

(* A core whose transaction has no writes, or is over, owns nothing. *)
LEMMA NothingOwned ==
  ASSUME TxnInv, NEW c \in Cores, tx[c].pc \notin {"replace", "removed"},
         \/ tx[c].write_set = <<>>
         \/ tx[c].pc \notin Running \cup {"lock", "validate", "write", "undo"},
         NEW x \in Tuples
  PROVE  heap[x].owner # c
<1> SUFFICES ASSUME heap[x].owner = c PROVE FALSE
  BY Zenon
<1>1. LockOK(x) /\ PcOK(c) /\ c # None
  BY NoneApart, Zenon DEF TxnInv
<1>2. CASE tx[c].write_set = <<>>
  <2>1. ~DidInsert(tx[c], x)
    BY <1>2 DEF DidInsert, Positions
  <2>2. tx[c].pc \in {"lock", "validate", "write", "undo"} =>
          \A j \in DOMAIN tx[c].order : tx[c].order[j] # x
    <3>1. {tx[c].write_set[j].tuple : j \in DOMAIN tx[c].write_set} = {}
      BY <1>2
    <3>2. tx[c].pc \in {"lock", "validate", "write", "undo"} =>
            {tx[c].order[j] : j \in DOMAIN tx[c].order} = {}
      BY <1>1, <3>1, Zenon DEF PcOK, Fits, Deciding
    <3> QED BY <3>2, Zenon
  <2> QED BY <1>1, <2>1, <2>2, Zenon DEF LockOK, Removing
<1>3. CASE tx[c].pc \notin Running \cup {"lock", "validate", "write", "undo"}
  BY <1>1, <1>3, Zenon DEF LockOK, Removing
<1> QED BY <1>2, <1>3, Zenon

(* A transaction that has begun to commit goes on, or turns back. *)
LEMMA DecidesOn ==
  ASSUME NEW t, NEW u, NEW p, NEW r, Fits(t, p, r), t.pc \in Deciding,
         u.pc \in {"lock", "validate", "write", "undo"}, u.pc = "lock" => t.pc = "lock",
         r => u.pc = "undo",
         u.write_set = t.write_set, u.read_set = t.read_set, u.order = t.order,
         u.todo = t.todo, u.head = None
  PROVE  Fits(u, p, r)
<1> DEFINE Same(v) == {v.order[j] : j \in DOMAIN v.order}
                        = {v.write_set[j].tuple : j \in DOMAIN v.write_set}
<1>1. Same(t)
  BY Zenon DEF Fits
<1>2. Same(u)
  BY <1>1, ZenonT(40)
<1>4. /\ \A a, b \in DOMAIN u.write_set :
           u.write_set[b].insert /\ u.write_set[a].tuple = u.write_set[b].tuple => b <= a
      /\ u.pc = "lock" => \A a, b \in DOMAIN u.order : a < b => u.order[a] < u.order[b]
      /\ r => u.write_set = <<>> /\ u.read_set = <<>>
      /\ p # 0
  BY ZenonT(40) DEF Fits, InTxn, Deciding
<1> QED
  BY <1>2, <1>4, Zenon DEF Fits, Deciding, Running

(* The pointers of a core that takes or lets go of a tuple. *)
LEMMA OwnerPtrs ==
  ASSUME TxnInv, UNCHANGED <<clockVars, tree, limbo, gc>>, NEW c \in Cores,
         \A d \in Cores : d # c => tx'[d] = tx[d],
         \A x \in Tuples : heap'[x].alive = heap[x].alive /\ heap'[x].latest = heap[x].latest,
         tx[c].pc # "removed", tx'[c].pc # "removed", tx'[c].todo = tx[c].todo,
         tx'[c].read_set = tx[c].read_set, tx'[c].write_set = tx[c].write_set
  PROVE  PtrsOK(c)'
<1>1. PtrsOK(c) /\ TxnTypes
  BY Zenon DEF TxnInv
<1>2. \A k : \A x \in Tuples : Leads(k, x) => Leads(k, x)'
  BY Zenon DEF Leads, Removing
<1>3. \A x \in Tuples : Safe(c, x) => Safe(c, x)'
  BY Zenon DEF Safe, clockVars
<1>4. Ptrs(c)' = Ptrs(c)
  BY DEF Ptrs
<1> QED
  BY <1>1, <1>2, <1>3, <1>4, SetTypes, Zenon DEF PtrsOK

(* Of a tuple that is left as it is, everything stays owed. *)
LEMMA PendingStays ==
  ASSUME UNCHANGED <<tree, gc>>, NEW c, NEW w, heap'[w.tuple] = heap[w.tuple], Pending(c, w)
  PROVE  Pending(c, w)'
BY Zenon DEF Pending, Owns, Tentative, Unqueued, Entries

(* A tuple is let go of that is not owed any more. *)
LEMMA Releases ==
  ASSUME TxnInv, TxnTypes', UNCHANGED <<clockVars, tree, limbo, gc, tx, workload>>,
         NEW c \in Cores, NEW x \in Tuples, heap[x].owner = c,
         heap' = [heap EXCEPT ![x] = Release(@)],
         \/ tx[c].pc = "write" /\ Ahead(tx[c]) = {}
         \/ tx[c].pc = "undo" /\ ~DidInsert(tx[c], x)
  PROVE  TxnInv'
<1>1. TxnTypes /\ PcOK(c) /\ OwnsOK(c) /\ EpochOK(c) /\ SnapOK(c) /\ LockOK(x) /\ c # None
  BY NoneApart, Zenon DEF TxnInv
<1>2. /\ heap'[x].owner = None
      /\ heap'[x].alive = heap[x].alive /\ heap'[x].latest = heap[x].latest
      /\ heap'[x].deleting = heap[x].deleting /\ heap'[x].version = heap[x].version
      /\ heap'[x].next = heap[x].next
      /\ \A y \in Tuples : y # x => heap'[y] = heap[y]
  BY <1>1, Zenon DEF Release, TxnTypes, HeapRec
<1>3. PcOK(c)' /\ SnapOK(c)'
  BY <1>1, PcFrame, SnapFrame, Zenon DEF clockVars
<1>4. EpochOK(c)'
  BY <1>1, Zenon DEF EpochOK, clockVars
<1>5. OwnsOK(c)'
  <2>1. OwnsWrites(c)'
    <3>2. tx[c].pc # "validate" /\ (tx[c].pc \in {"write", "replace"} => Ahead(tx[c]) = {})
      BY Zenon
    <3> QED BY <3>2, Zenon DEF OwnsWrites
  <2>2. OwnsUndone(c)'
    <3> SUFFICES ASSUME tx[c].pc = "undo", NEW j \in DOMAIN tx[c].write_set,
                        tx[c].write_set[j].insert, heap'[tx[c].write_set[j].tuple].owner = c
                 PROVE  Pending(c, tx[c].write_set[j])'
      BY Zenon DEF OwnsUndone
    <3>1. PICK w : w = tx[c].write_set[j]
      BY Zenon
    <3>2. w.tuple # x /\ w.tuple \in Tuples
      BY <1>1, <3>1, SetTypes, Zenon DEF DidInsert, Positions
    <3>3. heap'[w.tuple] = heap[w.tuple]
      BY <1>2, <3>2, Zenon
    <3>4. Pending(c, w)
      BY <1>1, <3>1, <3>3, Zenon DEF OwnsOK, OwnsUndone
    <3>5. Pending(c, w)'
      BY <3>3, <3>4, PendingStays, Zenon
    <3> QED BY <3>1, <3>5, Zenon DEF Owns, Tentative, Unqueued
  <2> QED
    BY <2>1, <2>2, Zenon DEF OwnsOK, OwnsInserts, OwnsLocked, OwnsReplaced, OwnsRemoved, Running
<1>6. PtrsOK(c)'
  BY <1>2, OwnerPtrs, Zenon
<1>7. ASSUME NEW y \in Tuples, heap'[y].owner = c PROVE LockOK(y)'
  <2>1. y # x /\ LockOK(y)
    BY <1>1, <1>2, <1>7, Zenon DEF TxnInv
  <2> QED BY <1>1, <1>2, <2>1, LockFrame, Zenon
<1> QED
  <2>1. heap[x].alive
    BY <1>1, Zenon DEF LockOK
  <2>2. \A y \in Tuples :
           /\ heap'[y].alive = heap[y].alive /\ heap'[y].latest = heap[y].latest
           /\ heap'[y].deleting = heap[y].deleting /\ heap'[y].version = heap[y].version
           /\ heap'[y].next = heap[y].next
           /\ heap'[y] = heap[y] \/ /\ heap[y].owner \in {None, c} /\ heap'[y].owner \in {None, c}
                                    /\ heap[y].alive
    BY <1>2, <2>1, Zenon
  <2> QED
    BY <1>3, <1>4, <1>5, <1>6, <1>7, <2>2, OwnerStep, Zenon

(* Nobody knows of a tuple that is free. *)
LEMMA FreeFacts ==
  ASSUME TxnInv, NEW x \in Tuples, ~heap[x].alive
  PROVE  /\ heap[x].owner = None /\ ~heap[x].latest
         /\ ~InTree(x) /\ Unqueued(x) /\ ~InLimbo(x)
         /\ \A d \in Cores : x \notin Ptrs(d)
         /\ \A d \in Cores : \A j \in DOMAIN tx[d].write_set : tx[d].write_set[j].tuple # x
         /\ \A d \in Cores : tx[d].pc \in {"replace", "removed"} => tx[d].head # x
         /\ \A d \in Cores : tx[d].pc = "replace" => Replacing(d).tuple # x
         /\ \A y \in Tuples : Live(y) => heap[y].next # x
<1>1. heap[x].owner = None /\ ~heap[x].latest
  BY Zenon DEF TxnInv, TupleOK
<1>2. ~InTree(x)
  <2>1. x # None
    BY NoneApart, Zenon
  <2> QED BY <2>1, Zenon DEF TxnInv, TreeOK, InTree
<1>3. Unqueued(x) /\ ~InLimbo(x)
  BY Zenon DEF TxnInv, GcOK, Unqueued, InLimbo
<1>4. \A d \in Cores : x \notin Ptrs(d)
  BY Zenon DEF TxnInv, PtrsOK, Safe
<1>5. \A d \in Cores : \A j \in DOMAIN tx[d].write_set : tx[d].write_set[j].tuple # x
  BY <1>4, Zenon DEF Ptrs
<1>6. \A d \in Cores : tx[d].pc \in {"replace", "removed"} => tx[d].head # x
  BY Zenon DEF TxnInv, OwnsOK, OwnsReplaced, OwnsRemoved
<1>7. \A d \in Cores : tx[d].pc = "replace" => Replacing(d).tuple # x
  BY Zenon DEF TxnInv, OwnsOK, OwnsReplaced
<1>8. \A y \in Tuples : Live(y) => heap[y].next # x
  BY Zenon DEF TxnInv, ChainOK
<1> QED
  BY <1>1, <1>2, <1>3, <1>4, <1>5, <1>6, <1>7, <1>8, Zenon

(* A tuple that a core may go to stays so when it is neither freed nor     *)
(* queued or released behind its back.                                     *)
LEMMA SafeStep ==
  ASSUME NEW d \in Cores, NEW x, Safe(d, x), pinned'[d] = pinned[d], heap'[x].alive,
         \A b \in Cores : \A e \in gc'[b].queue : e.tuple = x /\ e.key = None =>
            e \in gc[b].queue \/ to_read_only_tick(pinned[d] - 1) <= e.tick,
         \A b \in Cores : \A e \in gc'[b].scratch : e.tuple = x /\ e.key = None =>
            e \in gc[b].scratch,
         \A l \in limbo' : l.tuple = x => l \in limbo \/ d \in l.waits
  PROVE  Safe(d, x)'
BY Zenon DEF Safe

(* The pointers of a core that does not move stay safe, one by one. *)
LEMMA PtrsStep ==
  ASSUME TxnTypes, NEW d \in Cores, PtrsOK(d), tx'[d] = tx[d],
         \A x \in Ptrs(d) : Safe(d, x) => Safe(d, x)',
         \A x \in Ptrs(d), k \in Keys : Leads(k, x) => Leads(k, x)'
  PROVE  PtrsOK(d)'
<1>1. Ptrs(d)' = Ptrs(d)
  BY Zenon DEF Ptrs
<1>2. /\ \A j \in DOMAIN tx[d].todo : tx[d].todo[j].tuple \in Ptrs(d) /\ tx[d].todo[j].key \in Keys
      /\ \A j \in DOMAIN tx[d].write_set :
           tx[d].write_set[j].tuple \in Ptrs(d) /\ tx[d].write_set[j].key \in Keys
  <2>1. tx[d].todo \in Seq(TodoRec) /\ tx[d].write_set \in Seq(WriteRec)
    BY Zenon DEF TxnTypes, TxRec
  <2>2. /\ \A j \in DOMAIN tx[d].todo : tx[d].todo[j] \in TodoRec
        /\ \A j \in DOMAIN tx[d].write_set : tx[d].write_set[j] \in WriteRec
    BY <2>1
  <2> QED BY <2>2, Zenon DEF Ptrs, TodoRec, WriteRec
<1> QED
  BY <1>1, <1>2, Zenon DEF PtrsOK

(* What holds of a tuple that keeps its header stays true. *)
LEMMA TupleFrame ==
  ASSUME TxnTypes, TxnTypes', NEW x \in Tuples, TupleOK(x),
         heap'[x].alive = heap[x].alive, heap'[x].latest = heap[x].latest,
         heap'[x].version = heap[x].version, heap'[x].next = heap[x].next,
         ~heap'[x].alive => heap'[x].owner = None,
         current_tick <= current_tick',
         heap[x].latest /\ InTree(x) => InTree(x)',
         heap[x].latest => \A d \in Cores :
           tx[d].pc \in {"replace", "removed"} /\ tx[d].head = x =>
             InTree(x)' \/ (tx'[d].pc \in {"replace", "removed"} /\ tx'[d].head = x)
  PROVE  TupleOK(x)'
<1>1. heap[x].version \in Nat /\ current_tick \in Nat /\ current_tick' \in Nat
  BY DEF TxnTypes, HeapRec, ClockTypeOK
<1>2. EpochId(heap[x].version) \in Nat
  BY <1>1, EpochNat, Zenon
<1>3. heap[x].version # MAX_TID => EpochId(heap[x].version) <= current_tick'
  BY <1>1, <1>2 DEF TupleOK
<1> QED
  BY <1>3, Zenon DEF TupleOK

(* A tuple that keeps its version still leads to the older one when that   *)
(* one stays and is queued no earlier.                                     *)
LEMMA ChainFrame ==
  ASSUME TxnTypes, TxnTypes', NEW x \in Tuples, ChainOK(x), heap'[x].alive => heap[x].alive,
         heap'[x].next = heap[x].next, heap'[x].version = heap[x].version,
         last_tick_inclusive <= last_tick_inclusive',
         Live(x) => /\ heap[heap[x].next].alive => heap'[heap[x].next].alive
                    /\ heap'[heap[x].next].latest => heap[heap[x].next].latest
                    /\ InLimbo(heap[x].next)' => InLimbo(heap[x].next)
                    /\ \A d \in Cores : \A e \in Entries(d)' :
                         e.tuple = heap[x].next /\ e.key = None =>
                           \/ e \in Entries(d)
                           \/ to_read_only_tick(EpochId(heap[x].version)) <= e.tick
  PROVE  ChainOK(x)' /\ (Live(x)' => Live(x))
<1>1. heap[x].version \in Nat /\ last_tick_inclusive \in Nat /\ last_tick_inclusive' \in Nat
  BY DEF TxnTypes, HeapRec, ClockTypeOK
<1> DEFINE E == to_read_only_tick(EpochId(heap[x].version))
<1>2. /\ E \in Nat
      /\ to_read_only_tick(last_tick_inclusive) \in Nat
      /\ to_read_only_tick(last_tick_inclusive') \in Nat
      /\ to_read_only_tick(last_tick_inclusive) <= to_read_only_tick(last_tick_inclusive')
  BY <1>1, EpochNat, RoMonotone, Zenon
<1>3. E = to_read_only_tick(EpochId(heap'[x].version))
  BY Zenon
<1> HIDE DEF E
<1>4. Live(x)' => Live(x)
  <2>1. Live(x)' => heap'[x].alive /\ heap'[x].next # None /\ to_read_only_tick(last_tick_inclusive') <= E
    BY <1>3, Zenon DEF Live
  <2>2. heap[x].alive /\ heap[x].next # None /\ to_read_only_tick(last_tick_inclusive) <= E => Live(x)
    BY Zenon DEF Live, E
  <2> QED BY <1>2, <2>1, <2>2
<1>8. ChainOK(x)'
  BY <1>4, Zenon DEF ChainOK
<1> QED
  BY <1>4, <1>8, Zenon

(* Chains that get no new links stay apart. *)
LEMMA ApartFrame ==
  ASSUME ChainsApart, \A x \in Tuples : Live(x)' => Live(x) /\ heap'[x].next = heap[x].next
  PROVE  ChainsApart'
BY Zenon DEF ChainsApart

(* It is not MIN_TID. *)
LEMMA MaxTidPos == MAX_TID # 0
<1>1. PICK m \in Nat \ {0} : m = MaxTick + 1
  BY ClockAssumption
<1>2. NMAXCORES \in Nat \ {0} /\ NumIds \in Nat \ {0}
  BY TidAssumption
<1>4. PICK p \in Nat \ {0} : p = NumIds * m
  BY <1>2
<1>5. NMAXCORES * p \in Nat \ {0}
  BY <1>2
<1>6. MAX_TID = 0 + NMAXCORES * (0 + NumIds * m)
  BY <1>1 DEF MAX_TID, MakeTid
<1>7. MAX_TID = NMAXCORES * p
  BY <1>4, <1>5, <1>6
<1> QED BY <1>5, <1>7

EntryOK(e) ==
  /\ heap[e.tuple].alive /\ ~InLimbo(e.tuple)
  /\ e.key = None => ~heap[e.tuple].latest /\ ~InTree(e.tuple)
  /\ e.key # None => /\ heap[e.tuple].deleting
                     /\ heap[e.tuple].latest => tree[e.key] = e.tuple

(* The queues when entries es come to those of c and others may go. *)
LEMMA GcStep ==
  ASSUME TxnTypes, TxnTypes', GcOK, NEW c \in Cores, NEW es,
         current_tick <= current_tick', last_tick_inclusive <= last_tick_inclusive',
         \A b \in Cores : \A e \in Entries(b)' : e \in Entries(b) \/ (b = c /\ e \in es),
         \A b \in Cores : gc'[b].queue \cap gc'[b].scratch = {},
         \A b \in Cores : \A e \in gc'[b].scratch :
            e \in gc[b].scratch \/ e.tick < to_read_only_tick(last_tick_inclusive'),
         \A e \in es : /\ EntryOK(e)' /\ e.tick <= to_read_only_tick(current_tick')
                       /\ \A b \in Cores : \A f \in Entries(b)' : f.tuple = e.tuple => b = c /\ f = e,
         \A b \in Cores : \A e \in Entries(b) : EntryOK(e) /\ e \in Entries(b)' => EntryOK(e)',
         \A l, m \in limbo' : l.tuple = m.tuple => l = m,
         \A l \in limbo' : heap'[l.tuple].alive /\ ~heap'[l.tuple].latest /\ ~InTree(l.tuple)'
  PROVE  GcOK'
<1> DEFINE r == to_read_only_tick(current_tick)
           s == to_read_only_tick(last_tick_inclusive)
<1>1. /\ r \in Nat /\ s \in Nat /\ r' \in Nat /\ s' \in Nat /\ r <= r' /\ s <= s'
  <2>1. /\ current_tick \in Nat /\ last_tick_inclusive \in Nat
        /\ current_tick' \in Nat /\ last_tick_inclusive' \in Nat
    BY Zenon DEF TxnTypes, ClockTypeOK
  <2> QED BY <2>1, RoMonotone, Zenon
<1>2. \A d \in Cores : \A e \in Entries(d) : e.tick \in Nat
  BY DEF TxnTypes, GcRec, GcEntry, Entries
<1> HIDE DEF r, s
<1>3. \A b \in Cores : \A e \in Entries(b) : EntryOK(e)
  BY Zenon DEF GcOK, EntryOK
<1>4. \A b \in Cores : \A e \in Entries(b)' : EntryOK(e)'
  BY <1>3, Zenon
<1>5. \A b \in Cores : \A e \in Entries(b) : e.tick <= r'
  BY <1>1, <1>2 DEF GcOK, r
<1>6. \A b \in Cores : \A e \in Entries(b)' : e.tick <= r'
  BY <1>5, Zenon DEF r
<1>7. \A b \in Cores : \A e \in gc'[b].scratch : e.tick < s'
  <2>1. \A b \in Cores : \A e \in gc[b].scratch : e.tick < s /\ e.tick \in Nat
    BY <1>2, Zenon DEF GcOK, s, Entries
  <2> QED BY <1>1, <2>1, SMTT(40) DEF s
<1>8. \A b, d \in Cores : \A e \in Entries(b)', f \in Entries(d)' :
        e.tuple = f.tuple => b = d /\ e = f
  BY DEF GcOK
<1> QED
  BY <1>4, <1>6, <1>7, <1>8, Zenon DEF GcOK, EntryOK, r, s

(* A core with pointers is inside a region. *)
LEMMA PointersPin ==
  ASSUME TxnInv, NEW d \in Cores, Ptrs(d) # {}
  PROVE  pinned[d] # 0
<1>1. PcOK(d) /\ tx[d] \in TxRec
  BY Zenon DEF TxnInv, TxnTypes
<1>2. tx[d].todo # <<>> \/ tx[d].read_set # <<>> \/ tx[d].write_set # <<>>
  BY DEF Ptrs
<1>3. tx[d].pc \in {"end"} \cup Running \cup Deciding
  BY <1>1, <1>2, Zenon DEF PcOK, Fits, Running
<1> QED BY <1>1, <1>3, Zenon DEF PcOK, Fits, InTxn

-----------------------------------------------------------------------------
(* Where a transaction is *)

(* The inserts of a transaction come first among its writes of a tuple. *)
InsertsFirst(ws) ==
  \A a, b \in DOMAIN ws : ws[b].insert /\ ws[a].tuple = ws[b].tuple => b <= a

(* o has the tuples of the writes, and has them in ascending order. *)
Covers(o, ws) == {o[j] : j \in DOMAIN o} = {ws[j].tuple : j \in DOMAIN ws}
Ascends(o) == \A a, b \in DOMAIN o : a < b => o[a] < o[b]

(* What is known of a transaction that runs. *)
LEMMA Ready ==
  ASSUME TxnInv, NEW c \in Cores, tx[c].pc \in {"snapshot"} \cup Running
  PROVE  /\ tx[c].order = <<>> /\ tx[c].i = 1 /\ tx[c].head = None /\ pinned[c] # 0
         /\ tx[c].pc = "read" <=> tx[c].todo # <<>>
         /\ tx[c].pc = "snapshot" => tx[c].write_set = <<>> /\ tx[c].read_set = <<>>
         /\ tx[c].pc \in {"find", "insert"} => tx[c].key \in Keys /\ ~IsSnapshot(c)
         /\ IsSnapshot(c) => tx[c].write_set = <<>> /\ tx[c].read_set = <<>>
         /\ InsertsFirst(tx[c].write_set)
<1>1. PICK t : t = tx[c]
  OBVIOUS
<1>2. Fits(t, pinned[c], IsSnapshot(c))
  BY <1>1, Zenon DEF TxnInv, PcOK
<1>3. t.pc \in {"snapshot"} \cup Running
  BY <1>1, Zenon
<1>4. /\ t.order = <<>> /\ t.i = 1 /\ t.head = None /\ pinned[c] # 0
      /\ t.pc = "read" <=> t.todo # <<>>
      /\ t.pc = "snapshot" => t.write_set = <<>> /\ t.read_set = <<>>
      /\ t.pc \in {"find", "insert"} => t.key \in Keys /\ ~IsSnapshot(c)
      /\ IsSnapshot(c) => t.write_set = <<>> /\ t.read_set = <<>>
  BY <1>2, <1>3, ZenonT(40) DEF Fits, Running, Deciding, InTxn
<1>5. InsertsFirst(t.write_set)
  BY <1>2, Zenon DEF Fits, InsertsFirst
<1> QED
  BY <1>1, <1>4, <1>5, Zenon

(* A transaction that runs on. *)
LEMMA StaysReady ==
  ASSUME UNCHANGED <<clockVars, workload>>, NEW c \in Cores, tx'[c].pc \in Running,
         tx'[c].order = <<>>, tx'[c].i = 1, tx'[c].head = None, pinned[c] # 0,
         tx'[c].pc = "read" <=> tx'[c].todo # <<>>,
         tx'[c].pc \in {"find", "insert"} => tx'[c].key \in Keys /\ ~IsSnapshot(c),
         IsSnapshot(c) => tx'[c].write_set = <<>> /\ tx'[c].read_set = <<>>,
         InsertsFirst(tx'[c].write_set)
  PROVE  PcOK(c)'
<1>1. PICK t : t = tx'[c]
  OBVIOUS
<1>2. /\ t.pc \in Running /\ t.order = <<>> /\ t.i = 1 /\ t.head = None
      /\ t.pc = "read" <=> t.todo # <<>>
      /\ t.pc \in {"find", "insert"} => t.key \in Keys /\ ~IsSnapshot(c)
      /\ IsSnapshot(c) => t.write_set = <<>> /\ t.read_set = <<>>
      /\ InsertsFirst(t.write_set)
  BY <1>1, Zenon
<1>3. Fits(t, pinned[c], IsSnapshot(c))
  BY <1>2, ZenonT(40) DEF Fits, Running, Deciding, InTxn, InsertsFirst
<1>4. pinned' = pinned /\ workload' = workload
  BY Zenon DEF clockVars
<1> QED
  BY <1>1, <1>3, <1>4, Zenon DEF PcOK, IsSnapshot

(* A transaction that begins to commit, or to undo its inserts. *)
LEMMA Decides ==
  ASSUME UNCHANGED <<clockVars, workload>>, NEW c \in Cores,
         tx'[c].pc \in {"lock", "validate", "undo"}, tx'[c].todo = <<>>, tx'[c].head = None,
         pinned[c] # 0, tx'[c].pc = "undo" \/ ~IsSnapshot(c),
         IsSnapshot(c) => tx'[c].write_set = <<>> /\ tx'[c].read_set = <<>>,
         InsertsFirst(tx'[c].write_set), Covers(tx'[c].order, tx'[c].write_set),
         tx'[c].pc = "lock" => Ascends(tx'[c].order)
  PROVE  PcOK(c)'
<1>1. PICK t : t = tx'[c]
  OBVIOUS
<1>2. /\ t.pc \in {"lock", "validate", "undo"} /\ t.todo = <<>> /\ t.head = None
      /\ t.pc = "undo" \/ ~IsSnapshot(c)
      /\ IsSnapshot(c) => t.write_set = <<>> /\ t.read_set = <<>>
      /\ InsertsFirst(t.write_set) /\ Covers(t.order, t.write_set)
      /\ t.pc = "lock" => Ascends(t.order)
  BY <1>1, Zenon
<1>3. {t.order[j] : j \in DOMAIN t.order} = {t.write_set[j].tuple : j \in DOMAIN t.write_set}
  BY <1>2, Zenon DEF Covers
<1>4. Fits(t, pinned[c], IsSnapshot(c))
  BY <1>2, <1>3, ZenonT(40) DEF Fits, Running, Deciding, InTxn, InsertsFirst, Ascends
<1>5. pinned' = pinned /\ workload' = workload
  BY Zenon DEF clockVars
<1> QED
  BY <1>1, <1>4, <1>5, Zenon DEF PcOK, IsSnapshot

(* A tuple that is locked for a write, in the step's end. *)
LEMMA LockedFor ==
  ASSUME NEW c \in Cores, NEW x \in Tuples,
         heap'[x].owner = c, heap'[x].alive, heap'[x].write_intent,
         \/ tx'[c].pc \in Running \cup {"lock"} /\ DidInsert(tx'[c], x) /\ Tentative(x)'
         \/ /\ tx'[c].pc = "lock"
            /\ \E j \in DOMAIN tx'[c].order : j < tx'[c].i /\ tx'[c].order[j] = x
         \/ /\ tx'[c].pc \in {"validate", "write", "undo"}
            /\ \E j \in DOMAIN tx'[c].order : tx'[c].order[j] = x
  PROVE  LockOK(x)'
<1>1. tx'[c].pc \in {"validate", "write", "undo"} =>
        tx'[c].pc \in {"validate", "write", "replace", "undo"}
  BY Zenon
<1> QED BY <1>1, Zenon DEF LockOK

-----------------------------------------------------------------------------
(* The insert *)

(* A new tuple enters the tree, locked, and the transaction's write set. *)
Enters(c, k, x, us) ==
  /\ tree[k] = None /\ ~heap[x].alive
  /\ tree' = [tree EXCEPT ![k] = x]
  /\ \A y \in Tuples : y # x => heap'[y] = heap[y]
  /\ heap'[x].alive /\ heap'[x].owner = c /\ heap'[x].write_intent /\ heap'[x].latest
  /\ heap'[x].version = MAX_TID /\ heap'[x].next = None
  /\ \A d \in Cores : d # c => tx'[d] = tx[d]
  /\ \E w : /\ us = Append(tx[c].write_set, w)
            /\ w.tuple = x /\ w.key = k /\ w.insert
  /\ tx'[c].write_set = us /\ tx'[c].read_set = tx[c].read_set
  /\ tx'[c].todo = <<>> /\ tx'[c].head = None
  /\ \/ tx'[c].pc = "run" /\ tx'[c].order = tx[c].order /\ tx'[c].i = tx[c].i
     \/ tx'[c].pc = "undo" /\ tx'[c].order = [j \in DOMAIN us |-> us[j].tuple]

(* A new tuple in the tree, owned and tentative, preserves the invariant. *)
LEMMA Inserts ==
  ASSUME TxnInv, TxnTypes', UNCHANGED <<clockVars, limbo, gc, workload>>, NEW c \in Cores,
         tx[c].pc = "insert", NEW k \in Keys, NEW x \in Tuples, NEW us, Enters(c, k, x, us)
  PROVE  TxnInv'
<1> DEFINE ws == tx[c].write_set
<1>a. /\ tree[k] = None /\ ~heap[x].alive
      /\ heap'[x].alive /\ heap'[x].owner = c /\ heap'[x].write_intent /\ heap'[x].latest
      /\ heap'[x].version = MAX_TID /\ heap'[x].next = None
  BY Zenon DEF Enters
<1>b. \A y \in Tuples : y # x => heap'[y] = heap[y]
  BY Zenon DEF Enters
<1>c. \A d \in Cores : d # c => tx'[d] = tx[d]
  BY Zenon DEF Enters
<1>d. /\ tx'[c].write_set = us /\ tx'[c].read_set = tx[c].read_set
      /\ tx'[c].todo = <<>> /\ tx'[c].head = None
      /\ tx'[c].pc \in {"run", "undo"}
      /\ tx'[c].pc = "run" => tx'[c].order = tx[c].order /\ tx'[c].i = tx[c].i
      /\ tx'[c].pc = "undo" => tx'[c].order = [j \in DOMAIN us |-> us[j].tuple]
  BY Zenon DEF Enters
<1>e. PICK w : us = Append(ws, w) /\ w.tuple = x /\ w.key = k /\ w.insert
  BY Zenon DEF Enters
<1>f. /\ current_tick' = current_tick /\ last_tick_inclusive' = last_tick_inclusive
      /\ pinned' = pinned /\ limbo' = limbo /\ gc' = gc
  BY DEF clockVars
<1>1. /\ TxnTypes /\ PcOK(c) /\ OwnsOK(c) /\ PtrsOK(c) /\ x # None /\ c # None
      /\ ws \in Seq(WriteRec) /\ current_tick \in Nat /\ last_tick_inclusive \in Nat
  <2>1. TxnTypes /\ PcOK(c) /\ OwnsOK(c) /\ PtrsOK(c)
    BY DEF TxnInv
  <2>2. x # None /\ c # None
    BY NoneApart, Zenon
  <2>3. ws \in Seq(WriteRec)
    BY <2>1, ZenonT(40) DEF TxnTypes, TxRec
  <2> QED BY <2>1, <2>2, <2>3, ZenonT(40) DEF TxnTypes, ClockTypeOK
<1>g. current_tick <= current_tick' /\ last_tick_inclusive <= last_tick_inclusive'
  BY <1>1, <1>f, SMTT(40)
<1>2. /\ heap[x].owner = None /\ ~heap[x].latest
      /\ ~InTree(x) /\ Unqueued(x) /\ ~InLimbo(x)
      /\ \A d \in Cores : x \notin Ptrs(d)
      /\ \A j \in DOMAIN ws : ws[j].tuple # x
      /\ \A d \in Cores : tx[d].pc \in {"replace", "removed"} => tx[d].head # x
      /\ \A d \in Cores : tx[d].pc = "replace" => Replacing(d).tuple # x
      /\ \A y \in Tuples : Live(y) => heap[y].next # x
  BY <1>a, FreeFacts, ZenonT(40)
<1>3. /\ tree'[k] = x /\ \A j \in Keys : j # k => tree'[j] = tree[j]
      /\ \A j \in Keys, y \in Tuples : tree[j] = y => tree'[j] = y
      /\ \A j \in Keys, y \in Tuples : y # x /\ tree'[j] = y => tree[j] = y
  <2>1. \A y \in Tuples : y # None
    BY NoneApart, Zenon
  <2>2. tree' = [tree EXCEPT ![k] = x]
    BY Zenon DEF Enters
  <2> QED BY <1>1, <1>a, <2>1, <2>2, ZenonT(40) DEF TxnTypes
<1>4. /\ DOMAIN ws = 1 .. Len(ws) /\ Len(ws) \in Nat
      /\ \A j \in DOMAIN ws : j \in DOMAIN us /\ us[j] = ws[j]
      /\ Len(ws) + 1 \in DOMAIN us /\ us[Len(ws) + 1] = w
      /\ \A j \in DOMAIN us : \/ j \in DOMAIN ws /\ us[j] = ws[j]
                              \/ j = Len(ws) + 1 /\ us[j] = w
  BY <1>1, <1>e, SMTT(40)
<1>h. tx'[c].pc = "undo" =>
        DOMAIN tx'[c].order = DOMAIN us /\ \A j \in DOMAIN us : tx'[c].order[j] = us[j].tuple
  BY <1>d, Zenon
<1>5. \A b \in Cores : Entries(b)' = Entries(b)
  BY Zenon DEF Entries
<1>6. \A y \in Tuples : y # x => /\ InTree(y)' = InTree(y) /\ Unqueued(y)' = Unqueued(y)
                                 /\ InLimbo(y)' = InLimbo(y)
  <2> SUFFICES ASSUME NEW y \in Tuples, y # x
               PROVE  /\ InTree(y)' = InTree(y) /\ Unqueued(y)' = Unqueued(y)
                      /\ InLimbo(y)' = InLimbo(y)
    BY Zenon
  <2>1. \A j \in Keys : tree'[j] = y <=> tree[j] = y
    BY <1>3, Zenon
  <2>2. InTree(y)' = InTree(y)
    BY <2>1, Zenon DEF InTree
  <2>3. Unqueued(y)' = Unqueued(y)
    BY <1>5, Zenon DEF Unqueued
  <2>4. InLimbo(y)' = InLimbo(y)
    BY <1>f, Zenon DEF InLimbo
  <2> QED BY <2>2, <2>3, <2>4, Zenon
<1>7. \A d \in Cores : d # c => PcOK(d)' /\ EpochOK(d)' /\ SnapOK(d)' /\ OwnsOK(d)'
  <2>1. ASSUME NEW d \in Cores, d # c PROVE Spared(d)
    <3>1. \A y \in Tuples : heap[y].owner = d => y # x
      BY <1>2, NoneApart, Zenon
    <3>2. \A y \in Tuples : heap'[y].owner = d => y # x
      BY <1>a, <2>1, ZenonT(40)
    <3>3. /\ tx'[d] = tx[d]
          /\ \A y \in Tuples : heap[y].owner = d => heap'[y] = heap[y]
          /\ \A y \in Tuples : heap'[y].owner = d => heap[y].owner = d
      BY <1>b, <1>c, <2>1, <3>1, <3>2, Zenon
    <3>4. \A y \in Tuples, j \in Keys : heap[y].owner = d => (tree'[j] = y <=> tree[j] = y)
      BY <1>3, <3>1, Zenon
    <3>5. \A y \in Tuples : heap[y].owner = d /\ InLimbo(y)' => InLimbo(y)
      BY <1>6, <3>1, Zenon
    <3>6. \A y \in Tuples, b \in Cores : heap[y].owner = d =>
            \A e \in Entries(b)' : e.tuple = y => e \in Entries(b)
      BY <1>5, Zenon
    <3> QED BY <3>3, <3>4, <3>5, <3>6, Zenon DEF Spared
  <2> QED BY <1>f, <1>g, <2>1, OthersKeep, ZenonT(40)
<1>8. PcOK(c)'
  <2>1. /\ tx'[c].pc \in {"run", "undo"} /\ ~IsSnapshot(c) /\ IsSnapshot(c)' = IsSnapshot(c)
        /\ pinned'[c] = pinned[c] /\ pinned[c] # 0 /\ tx'[c].todo = <<>> /\ tx'[c].head = None
        /\ tx'[c].pc = "run" => tx'[c].order = <<>> /\ tx'[c].i = 1
    <3>1. tx[c].pc \in Running
      BY Zenon DEF Running
    <3>2. ~IsSnapshot(c) /\ pinned[c] # 0 /\ tx[c].order = <<>> /\ tx[c].i = 1
      BY <3>1, Ready, Zenon
    <3> QED BY <1>d, <1>f, <3>2, Zenon DEF IsSnapshot
  <2>2. InsertsFirst(us)
    <3>1. \A a, b \in DOMAIN ws : ws[b].insert /\ ws[a].tuple = ws[b].tuple => b <= a
      <4>1. tx[c].pc \in Running
        BY Zenon DEF Running
      <4>2. InsertsFirst(tx[c].write_set)
        BY <4>1, Ready, Zenon
      <4> QED BY <4>2, Zenon DEF InsertsFirst
    <3>2. \A a, b \in DOMAIN us : us[b].insert /\ us[a].tuple = us[b].tuple =>
            \/ a \in DOMAIN ws /\ b \in DOMAIN ws /\ us[a] = ws[a] /\ us[b] = ws[b]
            \/ a = Len(ws) + 1 /\ b = Len(ws) + 1
      <4>1. w.tuple = x /\ \A j \in DOMAIN ws : ws[j].tuple # x
        BY <1>2, <1>e, Zenon
      <4>2. \A a \in DOMAIN us : \/ a \in DOMAIN ws /\ us[a] = ws[a] /\ us[a].tuple # x
                                 \/ a = Len(ws) + 1 /\ us[a].tuple = x
        BY <1>4, <4>1, Zenon
      <4> QED BY <4>2, Zenon
    <3>3. Len(ws) + 1 <= Len(ws) + 1
      BY SMTT(40)
    <3> QED BY <3>1, <3>2, <3>3, ZenonT(40) DEF InsertsFirst
  <2>3. tx'[c].pc = "undo" => Covers(tx'[c].order, us)
    <3>1. \A o : DOMAIN o = DOMAIN us /\ (\A j \in DOMAIN us : o[j] = us[j].tuple) => Covers(o, us)
      BY DEF Covers
    <3> QED BY <1>h, <3>1, Zenon
  <2>4. UNCHANGED <<clockVars, workload>> /\ InsertsFirst(tx'[c].write_set)
    BY <1>d, <2>2, Zenon
  <2>5. CASE tx'[c].pc = "run"
    <3>1. tx'[c].pc \in Running /\ tx'[c].pc \notin {"find", "insert", "read"}
      BY <2>5, Zenon DEF Running
    <3> QED BY <2>1, <2>4, <2>5, <3>1, StaysReady, Zenon
  <2>6. CASE tx'[c].pc = "undo"
    <3>1. /\ Covers(tx'[c].order, tx'[c].write_set) /\ tx'[c].pc # "lock"
          /\ tx'[c].pc \in {"lock", "validate", "undo"}
      BY <1>d, <2>3, <2>6, Zenon
    <3> QED BY <2>1, <2>4, <3>1, Decides, Zenon
  <2> QED BY <2>1, <2>5, <2>6, Zenon
<1>9. EpochOK(c)' /\ SnapOK(c)'
  <2>1. ~IsSnapshot(c) /\ IsSnapshot(c)' = IsSnapshot(c)
    BY Ready, Zenon DEF IsSnapshot, Running
  <2> QED BY <1>d, <2>1, ZenonT(40) DEF EpochOK, SnapOK
<1>10. \A j \in DOMAIN us : us[j].insert => Pending(c, us[j])'
  <2> SUFFICES ASSUME NEW j \in DOMAIN us, us[j].insert PROVE Pending(c, us[j])'
    BY Zenon
  <2>1. CASE j \in DOMAIN ws /\ us[j] = ws[j]
    <3>1. PICK v : v = ws[j]
      BY Zenon
    <3>2. v.tuple \in Tuples /\ v.key \in Keys /\ v.tuple # x
      BY <1>1, <1>2, <2>1, <3>1, SetTypes, Zenon
    <3>3. Pending(c, v)
      <4>1. tx[c].pc \in Running
        BY Zenon DEF Running
      <4> QED BY <1>1, <2>1, <3>1, <4>1, Zenon DEF OwnsOK, OwnsInserts
    <3>4. heap'[v.tuple] = heap[v.tuple] /\ tree'[v.key] = v.tuple /\ Unqueued(v.tuple)' = Unqueued(v.tuple)
      <4>1. tree[v.key] = v.tuple
        BY <3>3, Zenon DEF Pending, Owns
      <4> QED BY <1>3, <1>6, <1>b, <3>2, <4>1, Zenon
    <3>5. Pending(c, v)'
      BY <3>3, <3>4, ZenonT(40) DEF Pending, Owns, Tentative
    <3>6. \A u : u = v => Pending(c, u)'
      BY <3>5, Zenon DEF Pending, Owns, Tentative, Unqueued
    <3> QED BY <2>1, <3>1, <3>6, Zenon
  <2>2. CASE us[j] = w
    <3>1. Unqueued(x)'
      BY <1>2, <1>5, ZenonT(40) DEF Unqueued
    <3>2. PICK v : v = us[j] /\ v.tuple = x /\ v.key = k /\ v.insert
      BY <1>e, <2>2, Zenon
    <3>3. Pending(c, v)'
      BY <1>3, <1>a, <3>1, <3>2, Zenon DEF Pending, Owns, Tentative
    <3>4. \A u : u = v => Pending(c, u)'
      BY <3>3, Zenon DEF Pending, Owns, Tentative, Unqueued
    <3> QED BY <3>2, <3>4, Zenon
  <2> QED BY <1>4, <2>1, <2>2, ZenonT(40)
<1>11. OwnsOK(c)'
  BY <1>10, <1>d, ZenonT(40) DEF OwnsOK, OwnsInserts, OwnsLocked, OwnsWrites, OwnsUndone,
     OwnsReplaced, OwnsRemoved
<1>12. \A y \in Tuples, j \in Keys : y # x /\ Leads(j, y) => Leads(j, y)'
  <2>1. \A d \in Cores : \A y : Removing(d, y) => Removing(d, y)'
    BY <1>c, Zenon DEF Removing
  <2> QED BY <1>3, <1>b, <2>1, ZenonT(40) DEF Leads
<1>13. \A y \in Tuples, d \in Cores : y # x /\ Safe(d, y) => Safe(d, y)'
  BY <1>b, <1>f, Zenon DEF Safe
<1>14. PtrsOK(c)'
  <2>1. Ptrs(c)' \subseteq Ptrs(c) \cup {x}
    <3>1. \A j \in DOMAIN tx'[c].todo : FALSE
      BY <1>d
    <3>2. \A j \in DOMAIN us : us[j].tuple = x \/ \E i \in DOMAIN ws : us[j].tuple = ws[i].tuple
      BY <1>4, <1>e, Zenon
    <3>3. SUFFICES ASSUME NEW y, y \in Ptrs(c)' PROVE y \in Ptrs(c) \cup {x}
      BY Zenon
    <3>4. \/ \E j \in DOMAIN tx[c].read_set : y = tx[c].read_set[j].tuple
          \/ \E j \in DOMAIN us : y = us[j].tuple
      <4>1. \/ \E j \in DOMAIN tx'[c].todo : y = tx'[c].todo[j].tuple
            \/ \E j \in DOMAIN tx'[c].read_set : y = tx'[c].read_set[j].tuple
            \/ \E j \in DOMAIN tx'[c].write_set : y = tx'[c].write_set[j].tuple
        BY <3>3, Zenon DEF Ptrs
      <4> QED BY <1>d, <3>1, <4>1, Zenon
    <3> QED BY <3>2, <3>4, Zenon DEF Ptrs
  <2>2. Safe(c, x)'
    BY <1>2, <1>a, ZenonT(40) DEF Safe, Unqueued, InLimbo, Entries
  <2>3. Leads(k, x)'
    BY <1>3, ZenonT(40) DEF Leads
  <2>4. \A j \in DOMAIN us : Leads(us[j].key, us[j].tuple)'
    <3> SUFFICES ASSUME NEW j \in DOMAIN us PROVE Leads(us[j].key, us[j].tuple)'
      OBVIOUS
    <3>1. CASE us[j] = w
      BY <2>3, <3>1, <1>e, ZenonT(40)
    <3>2. CASE j \in DOMAIN ws /\ us[j] = ws[j]
      <4>1. PICK a \in Keys, y \in Tuples : a = ws[j].key /\ y = ws[j].tuple
        BY <1>1, <3>2, SetTypes, ZenonT(40)
      <4>2. Leads(a, y)'
        <5>1. Leads(a, y) /\ y # x
          BY <1>1, <1>2, <3>2, <4>1, Zenon DEF PtrsOK
        <5> QED BY <1>12, <5>1, Zenon
      <4>3. \A a1, y1 : a1 = a /\ y1 = y => Leads(a1, y1)'
        BY <4>2, Zenon DEF Leads
      <4> QED BY <3>2, <4>1, <4>3, Zenon
    <3> QED BY <1>4, <3>1, <3>2, ZenonT(40)
  <2>5. \A y \in Ptrs(c) : Safe(c, y)'
    BY <1>1, <1>2, <1>13, SetTypes, ZenonT(40) DEF PtrsOK
  <2>6. \A y \in Ptrs(c)' : Safe(c, y)'
    <3>1. \A y : y = x => Safe(c, y)'
      BY <2>2, Zenon DEF Safe
    <3> QED BY <2>1, <2>5, <3>1, Zenon
  <2>7. \A j \in DOMAIN tx'[c].todo : FALSE
    BY <1>d
  <2>8. tx'[c].write_set = us
    BY <1>d, Zenon
  <2> QED BY <2>4, <2>6, <2>7, <2>8, Zenon DEF PtrsOK
<1>15. ASSUME NEW d \in Cores, d # c PROVE PtrsOK(d)'
  <2>1. PtrsOK(d) /\ tx'[d] = tx[d] /\ Ptrs(d) \subseteq Tuples /\ x \notin Ptrs(d)
    BY <1>1, <1>2, <1>15, <1>c, SetTypes, ZenonT(40) DEF TxnInv
  <2>2. \A y \in Ptrs(d) : y \in Tuples /\ y # x
    BY <2>1, Zenon
  <2> QED BY <1>1, <1>12, <1>13, <2>1, <2>2, PtrsStep, ZenonT(40)
<1>16. ASSUME NEW y \in Tuples PROVE LockOK(y)'
  <2>1. LockOK(y)
    BY Zenon DEF TxnInv
  <2>2. CASE y = x
    <3>0. PICK m \in DOMAIN us : us[m].tuple = x /\ us[m].insert
      BY <1>4, <1>e, Zenon
    <3>1. DidInsert(tx'[c], x)
      BY <1>d, <3>0, Zenon DEF DidInsert, Positions
    <3>2. tx'[c].pc = "undo" => \E j \in DOMAIN tx'[c].order : tx'[c].order[j] = x
      BY <1>h, <3>0, Zenon
    <3> QED BY <1>a, <1>d, <2>2, <3>1, <3>2, LockedFor, ZenonT(40) DEF Tentative, Running
  <2>3. CASE y # x /\ heap[y].owner # c
    BY <1>1, <1>b, <1>c, <2>1, <2>3, LockFrame, ZenonT(40)
  <2>4. CASE y # x /\ heap[y].owner = c
    <3>1. heap[y].alive /\ heap[y].write_intent /\ DidInsert(tx[c], y) /\ Tentative(y)
      BY <1>1, <2>1, <2>4, ZenonT(40) DEF LockOK, Removing
    <3>2. PICK j \in DOMAIN ws : ws[j].tuple = y /\ ws[j].insert
      BY <3>1, ZenonT(40) DEF DidInsert, Positions
    <3>3. DidInsert(tx'[c], y)
      BY <1>4, <1>d, <3>2, ZenonT(40) DEF DidInsert, Positions
    <3>4. tx'[c].pc = "undo" => \E a \in DOMAIN tx'[c].order : tx'[c].order[a] = y
      <4>1. j \in DOMAIN us /\ us[j].tuple = y
        BY <1>4, <3>2, Zenon
      <4> QED BY <1>h, <4>1, Zenon
    <3>5. heap'[y] = heap[y] /\ Tentative(y)'
      BY <1>b, <2>4, <3>1, Zenon DEF Tentative
    <3> QED BY <1>d, <2>4, <3>1, <3>3, <3>4, <3>5, LockedFor, ZenonT(40) DEF Running
  <2> QED BY <2>2, <2>3, <2>4, ZenonT(40)
<1>17. ASSUME NEW y \in Tuples PROVE TupleOK(y)'
  <2>1. CASE y = x
    BY <1>3, <1>a, <2>1, MaxTidPos, ZenonT(40) DEF TupleOK, InTree, MIN_TID
  <2>2. CASE y # x
    <3>1. TupleOK(y) /\ heap'[y] = heap[y]
      BY <1>b, <2>2, ZenonT(40) DEF TxnInv
    <3>2. \A d \in Cores : tx[d].pc \in {"replace", "removed"} => tx'[d] = tx[d]
      BY <1>c, ZenonT(40)
    <3>3. ~heap[y].alive => heap[y].owner = None
      BY <3>1, ZenonT(40) DEF TupleOK
    <3> QED BY <1>1, <1>6, <1>g, <2>2, <3>1, <3>2, <3>3, TupleFrame, ZenonT(40)
  <2> QED BY <2>1, <2>2, ZenonT(40)
<1>18. ASSUME NEW y \in Tuples
       PROVE  ChainOK(y)' /\ (Live(y)' => Live(y) /\ heap'[y].next = heap[y].next)
  <2>1. CASE y = x
    BY <1>a, <2>1, ZenonT(40) DEF ChainOK, Live
  <2>2. CASE y # x
    <3>1. ChainOK(y) /\ heap'[y] = heap[y]
      BY <1>b, <2>2, ZenonT(40) DEF TxnInv
    <3>2. Live(y) => heap[y].next \in Tuples /\ heap[y].next # x
      BY <1>1, <1>2, ZenonT(40) DEF Live, TxnTypes, HeapRec
    <3>3. ASSUME Live(y) PROVE heap'[heap[y].next] = heap[heap[y].next]
      BY <1>b, <3>2, <3>3, ZenonT(40)
    <3>4. InLimbo(heap[y].next)' => InLimbo(heap[y].next)
      BY <3>1, ZenonT(40) DEF InLimbo
    <3> QED BY <1>1, <1>5, <1>g, <3>1, <3>3, <3>4, ChainFrame, ZenonT(40)
  <2> QED BY <2>1, <2>2, ZenonT(40)
<1>19. TreeOK'
  <2>1. TreeOK /\ \A j \in Keys : tree[j] \in Tuples \cup {None}
    BY ZenonT(40) DEF TxnInv, TxnTypes
  <2>2. \A j \in Keys : tree[j] # x
    BY <1>2, ZenonT(40) DEF InTree
  <2>3. \A d \in Cores : tx[d].pc = "replace" => tx'[d] = tx[d]
    BY <1>c, Zenon
  <2>4. ASSUME NEW j \in Keys, tree'[j] # None
        PROVE  /\ heap'[tree'[j]].alive
               /\ \/ heap'[tree'[j]].latest
                  \/ \E d \in Cores : tx'[d].pc = "replace" /\ Replacing(d)'.tuple = tree'[j]
    <3>1. CASE j = k
      BY <1>3, <1>a, <3>1, ZenonT(40)
    <3>2. CASE j # k
      <4>1. PICK y \in Tuples : y = tree[j] /\ y = tree'[j] /\ heap'[y] = heap[y]
        BY <1>3, <1>b, <2>1, <2>2, <2>4, <3>2, ZenonT(40)
      <4>2. \A d \in Cores : tx[d].pc = "replace" => Replacing(d)' = Replacing(d)
        BY <2>3, ZenonT(40) DEF Replacing
      <4>3. heap[y].alive /\ (heap[y].latest \/ \E d \in Cores : tx[d].pc = "replace" /\ Replacing(d).tuple = y)
        BY <2>1, <2>4, <4>1, ZenonT(40) DEF TreeOK
      <4> QED BY <2>3, <4>1, <4>2, <4>3, ZenonT(40)
    <3> QED BY <3>1, <3>2, ZenonT(40)
  <2>5. \A i, j \in Keys : tree'[i] = tree'[j] /\ tree'[i] # None => i = j
    BY <1>3, <2>1, <2>2, SMTT(40) DEF TreeOK
  <2> QED BY <2>4, <2>5, ZenonT(40) DEF TreeOK
<1>20. GcOK'
  <2>1. \A y \in Tuples : InLimbo(y) \/ ~Unqueued(y) =>
          /\ heap'[y] = heap[y] /\ InTree(y)' = InTree(y)
          /\ \A j \in Keys : tree[j] = y => tree'[j] = y
    <3>1. \A y \in Tuples : InLimbo(y) \/ ~Unqueued(y) => y # x
      BY <1>2, Zenon
    <3> QED BY <1>3, <1>6, <1>b, <3>1, Zenon
  <2>2. limbo' \subseteq limbo /\ UNCHANGED gc /\ GcOK
    BY Zenon DEF TxnInv
  <2>3. \A y \in Tuples : InLimbo(y) \/ ~Unqueued(y) =>
          /\ heap[y].alive => heap'[y].alive \/ (~InLimbo(y)' /\ Unqueued(y))
          /\ heap'[y].latest => heap[y].latest
          /\ InTree(y)' => InTree(y)
          /\ heap'[y].deleting = heap[y].deleting
          /\ \A j \in Keys : heap[y].latest /\ tree[j] = y => tree'[j] = y
    BY <2>1, ZenonT(40)
  <2> QED BY <1>1, <1>g, <2>2, <2>3, GcFrame, ZenonT(40)
<1>21. ChainsApart' /\ PinnedWindow'
  <2>1. ChainsApart /\ PinnedWindow
    BY DEF TxnInv
  <2> QED BY <1>18, <1>f, <2>1, ApartFrame, ZenonT(40) DEF PinnedWindow
<1> QED
  BY <1>7, <1>8, <1>9, <1>11, <1>14, <1>15, <1>16, <1>17, <1>18, <1>19, <1>20, <1>21, ZenonT(40)
     DEF TxnInv

-----------------------------------------------------------------------------
(* Regions, the garbage collector and the clock *)

(* c, which holds and points to nothing, begins or ends something.  Others *)
(* may only notice that entries of its queue are due.                      *)
Quiet(c) ==
  /\ tx[c].pc \in {"idle", "end", "collect", "clean"}
  /\ tx'[c].pc \in {"snapshot", "run", "idle", "collect", "clean"}
  /\ tx'[c].pc = "run" => ~IsSnapshot(c)
  /\ tx'[c].read_set = <<>> /\ tx'[c].write_set = <<>> /\ tx'[c].todo = <<>>
  /\ tx'[c].order = <<>> /\ tx'[c].i = 1 /\ tx'[c].head = None
  /\ tx'[c].pc \in {"snapshot", "run"} => pinned'[c] # 0
  /\ tx'[c].pc \in {"idle", "collect"} => pinned'[c] = 0
  /\ pinned'[c] \in {0, current_tick, pinned[c]}
  /\ \A d \in Cores : d # c => tx'[d] = tx[d] /\ pinned'[d] = pinned[d] /\ gc'[d] = gc[d]
  /\ gc'[c].queue \subseteq gc[c].queue
  /\ gc'[c].queue \cap gc'[c].scratch = {}
  /\ \A e \in gc'[c].scratch :
       e \in gc[c].scratch \/ (e \in gc[c].queue /\ e.tick < to_read_only_tick(last_tick_inclusive))
  /\ \A l \in limbo' : \E m \in limbo :
       l.tuple = m.tuple /\ \A d \in Cores : d # c /\ d \in m.waits => d \in l.waits
  /\ \A l, m \in limbo' : l.tuple = m.tuple => l = m

(* A step of a core between transactions, or of its collector, that        *)
(* touches no tuple preserves the invariant.                               *)
LEMMA QuietStep ==
  ASSUME TxnInv, TxnTypes', UNCHANGED <<heap, tree, workload, current_tick, last_tick_inclusive>>,
         NEW c \in Cores, Quiet(c)
  PROVE  TxnInv'
<1>a. /\ tx[c].pc \notin {"replace", "removed"} \cup Running \cup Deciding
      /\ tx'[c].pc \notin {"replace", "removed", "read", "find", "insert"} \cup Deciding
      /\ tx'[c].pc \in Running => tx'[c].pc = "run" /\ ~IsSnapshot(c)
      /\ \A d \in Cores : d # c => tx'[d] = tx[d] /\ pinned'[d] = pinned[d] /\ gc'[d] = gc[d]
  BY Zenon DEF Quiet, Running, Deciding
<1>b. TxnTypes /\ PinnedWindow /\ c # None /\ current_tick \in Nat /\ last_tick_inclusive \in Nat
  <2>1. TxnTypes /\ PinnedWindow
    BY DEF TxnInv
  <2> QED BY <2>1, NoneApart, Ticks, Zenon
<1>c. /\ heap' = heap /\ tree' = tree /\ current_tick' = current_tick
      /\ last_tick_inclusive' = last_tick_inclusive /\ workload' = workload
      /\ current_tick <= current_tick' /\ last_tick_inclusive <= last_tick_inclusive'
  BY <1>b
<1>d. /\ \A y : InLimbo(y)' => InLimbo(y)
      /\ \A y : InTree(y)' = InTree(y)
  BY DEF Quiet, InLimbo, InTree
<1>e. \A b \in Cores : gc'[b].queue \subseteq gc[b].queue /\ \A e \in Entries(b)' : e \in Entries(b)
  BY Zenon DEF Quiet, Entries
<1>f. \A y \in Tuples : heap[y].owner # c
  BY <1>a, NothingOwned, Zenon DEF Running, Deciding
<1>1. PinnedWindow'
  <2>1. \A d \in Cores : pinned'[d] # 0 => pinned'[d] = current_tick \/ pinned'[d] = pinned[d]
    BY Zenon DEF Quiet
  <2> QED BY <1>b, <2>1 DEF PinnedWindow
<1>2. PcOK(c)' /\ EpochOK(c)' /\ SnapOK(c)' /\ OwnsOK(c)'
  <2>1. PcOK(c)'
    BY DEF Quiet, PcOK, Fits, IsSnapshot, Running, Deciding, InTxn
  <2>2. EpochOK(c)' /\ SnapOK(c)'
    BY <1>a, Zenon DEF EpochOK, SnapOK, Deciding, IsSnapshot
  <2>3. DOMAIN tx'[c].write_set = {}
    BY DEF Quiet
  <2>4. OwnsOK(c)'
    BY <1>a, <2>3, Zenon DEF OwnsOK, OwnsInserts, OwnsLocked, OwnsWrites, OwnsUndone,
       OwnsReplaced, OwnsRemoved, Deciding
  <2> QED BY <2>1, <2>2, <2>4
<1>3. ASSUME NEW d \in Cores, d # c PROVE PcOK(d)' /\ EpochOK(d)' /\ SnapOK(d)' /\ OwnsOK(d)'
  <2>1. ASSUME NEW a \in Cores, a # c PROVE Spared(a)
    BY <1>a, <1>d, <1>e, <2>1, Zenon DEF Spared
  <2> QED BY <1>a, <1>c, <1>3, <2>1, OthersKeep, Zenon
<1>4. PtrsOK(c)'
  <2>1. tx'[c].todo = <<>> /\ tx'[c].read_set = <<>> /\ tx'[c].write_set = <<>>
    BY Zenon DEF Quiet
  <2>2. /\ \A a \in DOMAIN tx'[c].write_set : FALSE
        /\ \A a \in DOMAIN tx'[c].read_set : FALSE
        /\ \A a \in DOMAIN tx'[c].todo : FALSE
    BY <2>1, SMTT(40)
  <2> QED BY <2>2, Zenon DEF PtrsOK, Ptrs
<1>5. ASSUME NEW d \in Cores, d # c PROVE PtrsOK(d)'
  <2>1. PtrsOK(d) /\ tx'[d] = tx[d]
    BY <1>5, <1>a, Zenon DEF TxnInv
  <2>2. ASSUME NEW x \in Ptrs(d), Safe(d, x) PROVE Safe(d, x)'
    <3>1. pinned[d] # 0 /\ pinned[d] \in Nat /\ last_tick_inclusive < pinned[d]
      BY <1>b, PointersPin, Zenon DEF PinnedWindow, TxnTypes, ClockTypeOK
    <3>2. /\ to_read_only_tick(last_tick_inclusive) <= to_read_only_tick(pinned[d] - 1)
          /\ to_read_only_tick(last_tick_inclusive) \in Nat
          /\ to_read_only_tick(pinned[d] - 1) \in Nat
      <4>1. pinned[d] - 1 \in Nat /\ last_tick_inclusive <= pinned[d] - 1
        BY <1>b, <3>1
      <4> QED BY <1>b, <4>1, RoMonotone, Zenon
    <3>3. \A e \in gc[c].queue : e.tick \in Nat
      BY <1>b DEF TxnTypes, GcRec, GcEntry
    <3>4. \A b \in Cores : \A e \in gc'[b].scratch : e.tuple = x /\ e.key = None => e \in gc[b].scratch
      <4>1. \A e \in gc'[c].scratch : e.tuple = x /\ e.key = None => e \in gc[c].scratch
        BY <2>2, <3>2, <3>3, SMTT(40) DEF Quiet, Safe
      <4> QED BY <1>a, <4>1, Zenon
    <3>5. \A l \in limbo' : l.tuple = x => d \in l.waits
      BY <1>5, <2>2 DEF Quiet, Safe
    <3> QED BY <1>a, <1>e, <1>5, <2>2, <3>4, <3>5, Zenon DEF Safe
  <2>3. \A x \in Ptrs(d), k \in Keys : Leads(k, x) => Leads(k, x)'
    BY <1>a, Zenon DEF Leads, Removing
  <2> QED BY <1>b, <2>1, <2>2, <2>3, PtrsStep, Zenon
<1>6. ASSUME NEW y \in Tuples PROVE LockOK(y)' /\ TupleOK(y)' /\ ChainOK(y)' /\ (Live(y)' => Live(y))
  <2>1. LockOK(y) /\ TupleOK(y) /\ ChainOK(y)
    BY DEF TxnInv
  <2>2. LockOK(y)'
    BY <1>a, <1>b, <1>f, <2>1, LockFrame, Zenon
  <2>3. TupleOK(y)'
    BY <1>a, <1>d, <2>1, Zenon DEF TupleOK
  <2>4. InLimbo(heap[y].next)' => InLimbo(heap[y].next)
    BY <1>d, Zenon
  <2>5. ChainOK(y)' /\ (Live(y)' => Live(y))
    BY <1>b, <1>c, <1>e, <2>1, <2>4, ChainFrame, Zenon
  <2> QED BY <2>2, <2>3, <2>5
<1>7. ChainsApart'
  BY <1>6, ApartFrame, Zenon DEF TxnInv
<1>8. TreeOK'
  <2>1. TreeOK
    BY DEF TxnInv
  <2> QED BY <1>a, <2>1 DEF TreeOK, Replacing
<1>9. GcOK'
  <2>1. GcOK
    BY DEF TxnInv
  <2>2. \A b \in Cores : \A e \in Entries(b) : EntryOK(e) => EntryOK(e)'
    BY <1>d, Zenon DEF EntryOK
  <2>3. \A b \in Cores : gc'[b].queue \cap gc'[b].scratch = {}
    BY <2>1, Zenon DEF GcOK, Quiet
  <2>4. \A b \in Cores : \A e \in gc'[b].scratch :
          e \in gc[b].scratch \/ e.tick < to_read_only_tick(last_tick_inclusive')
    BY Zenon DEF Quiet
  <2>5. \A l, m \in limbo' : l.tuple = m.tuple => l = m
    BY Zenon DEF Quiet
  <2>6. \A l \in limbo' : heap'[l.tuple].alive /\ ~heap'[l.tuple].latest /\ ~InTree(l.tuple)'
    <3>1. \A l \in limbo' : \E m \in limbo : l.tuple = m.tuple
      BY Zenon DEF Quiet
    <3>2. \A m \in limbo : heap[m.tuple].alive /\ ~heap[m.tuple].latest /\ ~InTree(m.tuple)
      BY <2>1, Zenon DEF GcOK
    <3> QED BY <1>d, <3>1, <3>2, Zenon
  <2> QED BY <1>b, <1>c, <1>e, <2>1, <2>2, <2>3, <2>4, <2>5, <2>6, GcStep, Zenon
<1> QED
  BY <1>1, <1>2, <1>3, <1>4, <1>5, <1>6, <1>7, <1>8, <1>9, Zenon DEF TxnInv

(* Beginning a transaction preserves the invariant. *)
LEMMA BeginStep ==
  ASSUME TxnInv, TxnTypes', UNCHANGED workload, NEW c \in Cores, Begin(c)
  PROVE  TxnInv'
<1>1. /\ tx[c].pc = "idle" /\ UNCHANGED <<heap, tree, limbo, gc, current_tick, last_tick_inclusive>>
      /\ pinned' = [pinned EXCEPT ![c] = current_tick]
      /\ tx' = [tx EXCEPT ![c] = [Embryo EXCEPT !.n = tx[c].n + 1,
                                    !.pc = IF IsSnapshot(c) THEN "snapshot" ELSE "run"]]
  BY DEF Begin, At, Pin, Become, dbVars
<1>2. TxnTypes /\ tx \in [Cores -> TxRec] /\ pinned \in [Cores -> Nat] /\ current_tick # 0
  BY Zenon DEF TxnInv, TxnTypes, ClockTypeOK
<1>3. /\ tx'[c] = [Embryo EXCEPT !.n = tx[c].n + 1, !.pc = IF IsSnapshot(c) THEN "snapshot" ELSE "run"]
      /\ pinned'[c] = current_tick
      /\ \A d \in Cores : d # c => tx'[d] = tx[d] /\ pinned'[d] = pinned[d]
  BY <1>1, <1>2
<1>4. /\ tx'[c].pc = IF IsSnapshot(c) THEN "snapshot" ELSE "run"
      /\ tx'[c].read_set = <<>> /\ tx'[c].write_set = <<>> /\ tx'[c].todo = <<>>
      /\ tx'[c].order = <<>> /\ tx'[c].i = 1 /\ tx'[c].head = None
  BY <1>3 DEF Embryo
<1>5. GcOK
  BY DEF TxnInv
<1>6. /\ \A l \in limbo' : \E m \in limbo :
           l.tuple = m.tuple /\ \A d \in Cores : d # c /\ d \in m.waits => d \in l.waits
      /\ \A l, m \in limbo' : l.tuple = m.tuple => l = m
      /\ gc' = gc /\ gc[c].queue \cap gc[c].scratch = {}
  BY <1>1, <1>5, Zenon DEF GcOK
<1>7. Quiet(c)
  BY <1>1, <1>2, <1>4, <1>6 DEF Quiet
<1> QED
  BY <1>1, <1>7, QuietStep

(* The end of a region releases what only it was waited for. *)
LEMMA RegionEndedFacts ==
  ASSUME TxnInv, NEW c \in Cores, RegionEnded(c) \/ UNCHANGED limbo
  PROVE  /\ \A l \in limbo' : \E m \in limbo :
              l.tuple = m.tuple /\ \A d \in Cores : d # c /\ d \in m.waits => d \in l.waits
         /\ \A l, m \in limbo' : l.tuple = m.tuple => l = m
<1>1. GcOK /\ limbo \subseteq LimboRec
  BY Zenon DEF TxnInv, TxnTypes
<1>2. CASE UNCHANGED limbo
  BY <1>1, <1>2, Zenon DEF GcOK
<1>3. CASE RegionEnded(c)
  <2>1. \A l \in limbo' : \E m \in limbo : l = [m EXCEPT !.waits = m.waits \ {c}]
    BY <1>3 DEF RegionEnded
  <2>2. \A m \in limbo : /\ [m EXCEPT !.waits = m.waits \ {c}].tuple = m.tuple
                         /\ [m EXCEPT !.waits = m.waits \ {c}].waits = m.waits \ {c}
    BY <1>1 DEF LimboRec
  <2>3. \A l \in limbo' : \E m \in limbo :
          l.tuple = m.tuple /\ \A d \in Cores : d # c /\ d \in m.waits => d \in l.waits
    <3> SUFFICES ASSUME NEW l \in limbo'
                 PROVE  \E m \in limbo : l.tuple = m.tuple /\ \A d \in Cores : d # c /\ d \in m.waits => d \in l.waits
      OBVIOUS
    <3>1. PICK m \in limbo : l = [m EXCEPT !.waits = m.waits \ {c}]
      BY <2>1
    <3>2. l.tuple = m.tuple /\ l.waits = m.waits \ {c}
      BY <2>2, <3>1
    <3> QED BY <3>2
  <2>4. ASSUME NEW l \in limbo', NEW m \in limbo', l.tuple = m.tuple PROVE l = m
    <3>1. PICK a \in limbo : l = [a EXCEPT !.waits = a.waits \ {c}]
      BY <2>1
    <3>2. PICK b \in limbo : m = [b EXCEPT !.waits = b.waits \ {c}]
      BY <2>1
    <3>3. a.tuple = b.tuple
      BY <2>4, <3>1, <3>2
    <3> QED BY <1>1, <3>1, <3>2, <3>3, Zenon DEF GcOK
  <2> QED BY <2>3, <2>4
<1> QED BY <1>2, <1>3, Zenon

(* Ending a transaction's region preserves the invariant. *)
LEMMA EndStep ==
  ASSUME TxnInv, TxnTypes', UNCHANGED workload, NEW c \in Cores, End(c)
  PROVE  TxnInv'
<1>1. /\ tx[c].pc = "end" /\ UNCHANGED <<heap, tree, gc, current_tick, last_tick_inclusive>>
      /\ pinned' = [pinned EXCEPT ![c] = 0] /\ RegionEnded(c)
      /\ tx' = [tx EXCEPT ![c] = [Idle(c) EXCEPT !.pc = "collect"]]
  BY DEF End, At, Unpin, Become
<1>2. TxnTypes /\ tx \in [Cores -> TxRec] /\ pinned \in [Cores -> Nat]
  BY Zenon DEF TxnInv, TxnTypes, ClockTypeOK
<1>3. /\ tx'[c] = [Idle(c) EXCEPT !.pc = "collect"] /\ pinned'[c] = 0
      /\ \A d \in Cores : d # c => tx'[d] = tx[d] /\ pinned'[d] = pinned[d]
  BY <1>1, <1>2
<1>4. /\ tx'[c].pc = "collect"
      /\ tx'[c].read_set = <<>> /\ tx'[c].write_set = <<>> /\ tx'[c].todo = <<>>
      /\ tx'[c].order = <<>> /\ tx'[c].i = 1 /\ tx'[c].head = None
  BY <1>3 DEF Idle, Embryo
<1>5. /\ \A l \in limbo' : \E m \in limbo :
           l.tuple = m.tuple /\ \A d \in Cores : d # c /\ d \in m.waits => d \in l.waits
      /\ \A l, m \in limbo' : l.tuple = m.tuple => l = m
  BY <1>1, RegionEndedFacts, Zenon
<1>6. gc' = gc /\ gc[c].queue \cap gc[c].scratch = {}
  BY <1>1, Zenon DEF TxnInv, GcOK
<1>7. Quiet(c)
  BY <1>1, <1>3, <1>4, <1>5, <1>6, Zenon DEF Quiet
<1> QED
  BY <1>1, <1>7, QuietStep

(* Ending a collection preserves the invariant. *)
LEMMA CleanEndStep ==
  ASSUME TxnInv, TxnTypes', UNCHANGED workload, NEW c \in Cores, CleanEnd(c)
  PROVE  TxnInv'
<1>1. /\ tx[c].pc = "clean" /\ UNCHANGED <<heap, tree, gc, current_tick, last_tick_inclusive>>
      /\ \/ pinned' = [pinned EXCEPT ![c] = 0] /\ RegionEnded(c)
         \/ pinned' = pinned /\ pinned[c] = 0 /\ UNCHANGED limbo
      /\ tx' = [tx EXCEPT ![c] = Idle(c)]
  BY Zenon DEF CleanEnd, At, Unpin, Become, clockVars
<1>2. TxnTypes /\ tx \in [Cores -> TxRec] /\ pinned \in [Cores -> Nat]
  BY Zenon DEF TxnInv, TxnTypes, ClockTypeOK
<1>3. /\ tx'[c] = Idle(c) /\ pinned'[c] = 0
      /\ \A d \in Cores : d # c => tx'[d] = tx[d] /\ pinned'[d] = pinned[d]
  BY <1>1, <1>2, Zenon
<1>4. /\ tx'[c].pc = "idle"
      /\ tx'[c].read_set = <<>> /\ tx'[c].write_set = <<>> /\ tx'[c].todo = <<>>
      /\ tx'[c].order = <<>> /\ tx'[c].i = 1 /\ tx'[c].head = None
  BY <1>3 DEF Idle, Embryo
<1>5. /\ \A l \in limbo' : \E m \in limbo :
           l.tuple = m.tuple /\ \A d \in Cores : d # c /\ d \in m.waits => d \in l.waits
      /\ \A l, m \in limbo' : l.tuple = m.tuple => l = m
  BY <1>1, RegionEndedFacts, Zenon
<1>6. gc' = gc /\ gc[c].queue \cap gc[c].scratch = {}
  BY <1>1, Zenon DEF TxnInv, GcOK
<1>7. Quiet(c)
  BY <1>1, <1>3, <1>4, <1>5, <1>6, Zenon DEF Quiet
<1> QED
  BY <1>1, <1>7, QuietStep, Zenon

(* Taking what is due from the queue preserves the invariant: it is older  *)
(* than every region that is open.                                         *)
LEMMA CollectStep ==
  ASSUME TxnInv, TxnTypes', UNCHANGED workload, NEW c \in Cores, on_post_rcu_region_completion(c)
  PROVE  TxnInv'
<1> DEFINE r == to_read_only_tick(last_tick_inclusive)
<1>1. TxnTypes /\ tx \in [Cores -> TxRec] /\ gc \in [Cores -> GcRec] /\ PcOK(c)
      /\ last_tick_inclusive \in Nat /\ GcOK
  BY Zenon DEF TxnInv, TxnTypes, ClockTypeOK
<1>2. ro_tick_ex = r /\ r \in Nat
  <2> QED BY <1>1, RoMonotone DEF ro_tick_ex, global_last_tick_exclusive
<1> HIDE DEF r
<1>3. PICK batch : batch = {e \in gc[c].queue : e.tick <= r - 1}
  BY Zenon
<1>4. /\ tx[c].pc = "collect" /\ UNCHANGED <<heap, tree, limbo>> /\ UNCHANGED clockVars
      /\ tx' = [tx EXCEPT ![c] = Idle(c)] \/ tx' = [tx EXCEPT ![c] = [Idle(c) EXCEPT !.pc = "idle"]]
           \/ tx' = [tx EXCEPT ![c] = [Idle(c) EXCEPT !.pc = "clean"]]
      /\ \/ UNCHANGED gc
         \/ r # 0 /\ gc' = [gc EXCEPT ![c] = [queue |-> gc[c].queue \ batch, scratch |-> batch,
                                              last_reaped_epoch |-> r - 1]]
  BY <1>2, <1>3, Zenon DEF on_post_rcu_region_completion, At, clean_up_to_including, Become,
     dbVars
<1>5. /\ current_tick' = current_tick /\ last_tick_inclusive' = last_tick_inclusive /\ pinned' = pinned
  BY <1>4, Zenon DEF clockVars
<1>6. /\ tx'[c].pc \in {"idle", "clean"}
      /\ tx'[c].read_set = <<>> /\ tx'[c].write_set = <<>> /\ tx'[c].todo = <<>>
      /\ tx'[c].order = <<>> /\ tx'[c].i = 1 /\ tx'[c].head = None
  <2>1. tx'[c] \in {Idle(c), [Idle(c) EXCEPT !.pc = "idle"], [Idle(c) EXCEPT !.pc = "clean"]}
    BY <1>1, <1>4, Zenon
  <2>2. CASE tx'[c] = Idle(c)
    BY <2>2 DEF Idle, Embryo
  <2>3. CASE tx'[c] = [Idle(c) EXCEPT !.pc = "idle"]
    BY <2>3 DEF Idle, Embryo
  <2>4. CASE tx'[c] = [Idle(c) EXCEPT !.pc = "clean"]
    BY <2>4 DEF Idle, Embryo
  <2> QED BY <2>1, <2>2, <2>3, <2>4, Zenon
<1>7. pinned[c] = 0
  BY <1>1, <1>4, Zenon DEF PcOK, Fits
<1>8. \A d \in Cores : d # c => tx'[d] = tx[d] /\ gc'[d] = gc[d]
  BY <1>1, <1>4, Zenon
<1>9. /\ gc'[c].queue \subseteq gc[c].queue
      /\ gc'[c].queue \cap gc'[c].scratch = {}
      /\ \A e \in gc'[c].scratch : e \in gc[c].scratch \/ (e \in gc[c].queue /\ e.tick < r)
  <2>1. CASE UNCHANGED gc
    BY <1>1, <2>1, Zenon DEF GcOK
  <2>2. CASE r # 0 /\ gc' = [gc EXCEPT ![c] = [queue |-> gc[c].queue \ batch, scratch |-> batch,
                                               last_reaped_epoch |-> r - 1]]
    <3>1. gc'[c].queue = gc[c].queue \ batch /\ gc'[c].scratch = batch
      BY <1>1, <2>2, Zenon
    <3>2. \A e \in gc[c].queue : e.tick \in Nat
      BY <1>1 DEF GcRec, GcEntry
    <3> QED BY <1>2, <1>3, <3>1, <3>2
  <2> QED BY <1>4, <2>1, <2>2, Zenon
<1>10. /\ \A l \in limbo' : \E m \in limbo :
           l.tuple = m.tuple /\ \A d \in Cores : d # c /\ d \in m.waits => d \in l.waits
      /\ \A l, m \in limbo' : l.tuple = m.tuple => l = m
  BY <1>4, RegionEndedFacts, Zenon
<1>11. Quiet(c)
  BY <1>4, <1>5, <1>6, <1>7, <1>8, <1>9, <1>10, Zenon DEF Quiet, r
<1> QED
  BY <1>4, <1>5, <1>11, QuietStep, Zenon

(* x, which nobody can reach, is freed. *)
Frees(x) ==
  /\ heap' = [heap EXCEPT ![x] = FreeTuple]
  /\ ~heap[x].latest /\ ~InTree(x)
  /\ \A d \in Cores : x \notin Ptrs(d)
  /\ \A y \in Tuples : Live(y) => heap[y].next # x
  /\ \A l \in limbo' : l \in limbo /\ l.tuple # x
  /\ \A b \in Cores : gc'[b].queue \subseteq gc[b].queue /\ gc'[b].scratch \subseteq gc[b].scratch
  /\ \A b \in Cores : \A e \in gc'[b].queue \cup gc'[b].scratch : e.tuple # x

(* Freeing a tuple that nobody can reach preserves the invariant. *)
LEMMA FreesStep ==
  ASSUME TxnInv, TxnTypes', UNCHANGED <<clockVars, tree, tx, workload>>, NEW x \in Tuples, Frees(x),
         \A d \in Cores : gc'[d].queue = gc[d].queue
  PROVE  TxnInv'
<1>a. TxnTypes /\ PinnedWindow /\ current_tick \in Nat /\ last_tick_inclusive \in Nat
  BY Zenon DEF TxnInv, TxnTypes, ClockTypeOK
<1>b. /\ tree' = tree /\ tx' = tx /\ current_tick' = current_tick /\ pinned' = pinned
      /\ last_tick_inclusive' = last_tick_inclusive
      /\ current_tick <= current_tick' /\ last_tick_inclusive <= last_tick_inclusive'
  BY <1>a DEF clockVars
<1>c. /\ \A y \in Tuples : y # x => heap'[y] = heap[y]
      /\ heap'[x] = FreeTuple
  BY Zenon DEF Frees, TxnTypes
<1>d. ~heap'[x].alive /\ heap'[x].owner = None /\ ~heap'[x].latest /\ heap'[x].version = MIN_TID
      /\ heap'[x].next = None
  BY <1>c DEF FreeTuple
<1>e. /\ \A y : InLimbo(y)' => InLimbo(y) /\ y # x
      /\ \A y : InTree(y)' = InTree(y)
      /\ ~InTree(x)
  BY Zenon DEF Frees, InLimbo, InTree
<1>f. \A b \in Cores : \A e \in Entries(b)' : e \in Entries(b) /\ e.tuple # x
  BY Zenon DEF Frees, Entries
<1>g. \A d \in Cores : heap[x].owner # d
  <2> SUFFICES ASSUME NEW d \in Cores, heap[x].owner = d PROVE FALSE
    OBVIOUS
  <2>1. LockOK(x) /\ PcOK(d) /\ OwnsReplaced(d) /\ OwnsRemoved(d)
    BY Zenon DEF TxnInv, OwnsOK
  <2>2. x \notin Ptrs(d) /\ ~heap[x].latest
    BY Zenon DEF Frees
  <2>3. tx[d].pc \in {"replace", "removed"} /\ tx[d].head = x
    BY <1>a, <2>1, <2>2, OwnedIsPointer, Zenon
  <2> QED BY <2>1, <2>2, <2>3, Zenon DEF OwnsReplaced, OwnsRemoved
<1>1. PinnedWindow'
  BY <1>a, <1>b, Zenon DEF PinnedWindow
<1>2. ASSUME NEW d \in Cores PROVE PcOK(d)' /\ EpochOK(d)' /\ SnapOK(d)' /\ OwnsOK(d)'
  <2>1. ASSUME NEW a \in Cores PROVE Spared(a)
    BY <1>c, <1>d, <1>e, <1>f, <1>g, NoneApart, Zenon DEF Spared
  <2>2. PICK c : c \notin Cores
    BY NoneApart, Zenon
  <2> QED BY <1>b, <2>1, <2>2, OthersKeep, Zenon
<1>3. ASSUME NEW d \in Cores PROVE PtrsOK(d)'
  <2>1. PtrsOK(d) /\ Ptrs(d) \subseteq Tuples /\ x \notin Ptrs(d)
    BY SetTypes, Zenon DEF TxnInv, Frees
  <2>2. ASSUME NEW y \in Ptrs(d), Safe(d, y) PROVE Safe(d, y)'
    <3>1. y \in Tuples /\ y # x
      BY <2>1
    <3>2. heap'[y].alive
      BY <1>c, <2>2, <3>1, Zenon DEF Safe
    <3> QED BY <1>b, <2>2, <3>2, SafeStep, Zenon DEF Frees
  <2>3. \A y \in Ptrs(d), k \in Keys : Leads(k, y) => Leads(k, y)'
    BY <1>c, <2>1, Zenon DEF Leads, Removing
  <2> QED BY <1>a, <2>1, <2>2, <2>3, PtrsStep, Zenon
<1>4. ASSUME NEW y \in Tuples PROVE LockOK(y)' /\ TupleOK(y)' /\ ChainOK(y)' /\ (Live(y)' => Live(y) /\ heap'[y].next = heap[y].next)
  <2>1. LockOK(y) /\ TupleOK(y) /\ ChainOK(y)
    BY Zenon DEF TxnInv
  <2>2. CASE y = x
    <3>1. LockOK(y)' /\ ChainOK(y)' /\ ~Live(y)'
      BY <1>d, <2>2, Zenon DEF LockOK, ChainOK, Live
    <3>2. EpochId(heap'[y].version) <= current_tick'
      BY <1>a, <1>b, <1>d, <2>2, EpochNat DEF MIN_TID
    <3>3. TupleOK(y)'
      BY <1>d, <2>2, <3>2, Zenon DEF TupleOK
    <3> QED BY <3>1, <3>3, Zenon
  <2>3. CASE y # x
    <3>1. heap'[y] = heap[y]
      BY <1>c, <2>3
    <3>2. LockOK(y)'
      BY <1>a, <2>1, <3>1, LockFrame, Zenon
    <3>3. TupleOK(y)'
      BY <1>b, <1>e, <2>1, <3>1, Zenon DEF TupleOK
    <3>4. InLimbo(heap[y].next)' => InLimbo(heap[y].next)
      BY <1>e, <3>1, Zenon
    <3>5. Live(y) => heap[y].next \in Tuples /\ heap[y].next # x
      BY <1>a, Zenon DEF Frees, Live, TxnTypes, HeapRec
    <3>6. ChainOK(y)' /\ (Live(y)' => Live(y))
      BY <1>a, <1>b, <1>c, <1>f, <2>1, <3>1, <3>4, <3>5, ChainFrame, ZenonT(40)
    <3> QED BY <3>1, <3>2, <3>3, <3>6, Zenon
  <2> QED BY <2>2, <2>3, Zenon
<1>5. ChainsApart'
  BY <1>4, ApartFrame, Zenon DEF TxnInv
<1>6. TreeOK'
  <2>1. TreeOK /\ \A k \in Keys : tree[k] # x /\ tree[k] \in Tuples \cup {None}
    BY <1>e, Zenon DEF TxnInv, TxnTypes, InTree
  <2>2. \A k \in Keys : tree[k] # None => heap'[tree[k]] = heap[tree[k]]
    BY <1>c, <2>1, Zenon
  <2> QED BY <2>1, <2>2 DEF TreeOK, Replacing
<1>7. GcOK'
  <2>1. GcOK /\ \A b \in Cores : \A e \in Entries(b) : e.tuple \in Tuples
    BY DEF TxnInv, TxnTypes, GcRec, GcEntry, Entries
  <2>2. \A b \in Cores : \A e \in Entries(b) : EntryOK(e) /\ e \in Entries(b)' => EntryOK(e)'
    BY <1>c, <1>e, <1>f, <2>1, Zenon DEF EntryOK
  <2>3. \A b \in Cores : gc'[b].queue \cap gc'[b].scratch = {}
    BY <2>1, Zenon DEF GcOK, Frees
  <2>4. \A b \in Cores : \A e \in gc'[b].scratch : e \in gc[b].scratch
    BY Zenon DEF Frees
  <2>5. \A l, m \in limbo' : l.tuple = m.tuple => l = m
    BY <2>1, Zenon DEF Frees, GcOK
  <2>6. \A l \in limbo' : heap'[l.tuple].alive /\ ~heap'[l.tuple].latest /\ ~InTree(l.tuple)'
    <3>1. \A l \in limbo' : l \in limbo /\ l.tuple \in Tuples /\ l.tuple # x
      BY Zenon DEF Frees, TxnTypes, LimboRec
    <3> QED BY <1>c, <1>e, <2>1, <3>1, Zenon DEF GcOK
  <2>8. PICK c : c \in Cores
    BY ClockAssumption
  <2> QED BY <1>a, <1>b, <1>f, <2>1, <2>2, <2>3, <2>4, <2>5, <2>6, <2>8, GcStep, ZenonT(40)
<1> QED
  BY <1>1, <1>2, <1>3, <1>4, <1>5, <1>6, <1>7, Zenon DEF TxnInv

(* Freeing a superseded version preserves the invariant: it was due before *)
(* every region that is open, and no chain that a snapshot may follow      *)
(* leads to it.                                                            *)
LEMMA CleanVersionStep ==
  ASSUME TxnInv, TxnTypes', UNCHANGED workload, NEW c \in Cores, NEW e, CleanVersion(c, e)
  PROVE  TxnInv'
<1>1. PICK x : x = e.tuple
  OBVIOUS
<1>2. /\ e \in gc[c].scratch /\ e.key = None /\ UNCHANGED <<clockVars, tree, limbo, tx>>
      /\ heap' = [heap EXCEPT ![x] = FreeTuple]
      /\ gc' = [gc EXCEPT ![c].scratch = gc[c].scratch \ {e}]
  BY <1>1, Zenon DEF CleanVersion
<1>3. /\ TxnTypes /\ GcOK /\ gc \in [Cores -> GcRec] /\ e \in Entries(c)
  BY <1>2, Zenon DEF TxnInv, TxnTypes, Entries
<1>4. x \in Tuples /\ e.tick \in Nat
  BY <1>1, <1>2, <1>3 DEF GcRec, GcEntry
<1>5. /\ ~heap[x].latest /\ ~InTree(x) /\ ~InLimbo(x)
      /\ e.tick < to_read_only_tick(last_tick_inclusive)
  BY <1>1, <1>2, <1>3, Zenon DEF GcOK
<1>6. \A d \in Cores : x \notin Ptrs(d)
  <2> SUFFICES ASSUME NEW d \in Cores, x \in Ptrs(d) PROVE FALSE
    OBVIOUS
  <2>1. Safe(d, x)
    BY Zenon DEF TxnInv, PtrsOK
  <2> QED BY <1>1, <1>2, <2>1, Zenon DEF Safe
<1>7. \A y \in Tuples : Live(y) => heap[y].next # x
  <2> SUFFICES ASSUME NEW y \in Tuples, Live(y), heap[y].next = x PROVE FALSE
    OBVIOUS
  <2>1. ChainOK(y) /\ heap[y].version \in Nat /\ last_tick_inclusive \in Nat
    <3>1. ChainOK(y) /\ heap[y].version \in 0 .. MAX_TID /\ last_tick_inclusive \in Nat
      BY Zenon DEF TxnInv, TxnTypes, HeapRec, ClockTypeOK
    <3> QED BY <3>1, MaxTidNat
  <2>2. to_read_only_tick(EpochId(heap[y].version)) <= e.tick
    BY <1>1, <1>2, <1>3, <2>1, Zenon DEF ChainOK
  <2>3. to_read_only_tick(last_tick_inclusive) <= to_read_only_tick(EpochId(heap[y].version))
    BY DEF Live
  <2>4. /\ to_read_only_tick(last_tick_inclusive) \in Nat
        /\ to_read_only_tick(EpochId(heap[y].version)) \in Nat
    BY <2>1, RoMonotone, EpochNat, Zenon
  <2> QED BY <1>4, <1>5, <2>2, <2>3, <2>4, SMTT(40)
<1>8. /\ gc'[c].queue = gc[c].queue /\ gc'[c].scratch = gc[c].scratch \ {e}
      /\ \A b \in Cores : b # c => gc'[b] = gc[b]
  BY <1>2, <1>3, Zenon DEF GcRec
<1>9. \A b \in Cores : \A f \in Entries(b) : f.tuple = x => b = c /\ f = e
  BY <1>1, <1>3, Zenon DEF GcOK
<1>10. /\ \A b \in Cores : \A f \in gc'[b].queue \cup gc'[b].scratch : f.tuple # x
       /\ \A b \in Cores : gc'[b].queue = gc[b].queue /\ gc'[b].scratch \subseteq gc[b].scratch
  <2>1. gc[c].queue \cap gc[c].scratch = {}
    BY <1>3, Zenon DEF GcOK
  <2>2. e \notin gc[c].queue
    BY <1>2, <2>1, Zenon
  <2> QED BY <1>8, <1>9, <2>2, Zenon DEF Entries
<1>11. \A l \in limbo' : l \in limbo /\ l.tuple # x
  BY <1>2, <1>5, Zenon DEF InLimbo
<1>12. Frees(x)
  BY <1>2, <1>5, <1>6, <1>7, <1>10, <1>11, Zenon DEF Frees
<1> QED
  BY <1>2, <1>4, <1>10, <1>12, FreesStep, Zenon

(* RCU's freeing of a released tuple preserves the invariant: the regions  *)
(* in which somebody may have found it have ended.                         *)
LEMMA RcuFreeStep ==
  ASSUME TxnInv, TxnTypes', UNCHANGED workload, NEW l, RcuFree(l)
  PROVE  TxnInv'
<1>1. PICK x : x = l.tuple
  OBVIOUS
<1>2. /\ l \in limbo /\ l.waits = {} /\ UNCHANGED <<clockVars, tree, tx>> /\ gc' = gc
      /\ heap' = [heap EXCEPT ![x] = FreeTuple] /\ limbo' = limbo \ {l}
  BY <1>1 DEF RcuFree
<1>3. TxnTypes /\ GcOK
  BY DEF TxnInv
<1>4. x \in Tuples /\ InLimbo(x)
  BY <1>1, <1>2, <1>3, Zenon DEF TxnTypes, LimboRec, InLimbo
<1>5. ~heap[x].latest /\ ~InTree(x)
  BY <1>1, <1>2, <1>3, Zenon DEF GcOK
<1>6. \A d \in Cores : x \notin Ptrs(d)
  <2> SUFFICES ASSUME NEW d \in Cores, x \in Ptrs(d) PROVE FALSE
    OBVIOUS
  <2>1. Safe(d, x)
    BY Zenon DEF TxnInv, PtrsOK
  <2> QED BY <1>1, <1>2, <2>1, Zenon DEF Safe
<1>7. \A y \in Tuples : Live(y) => heap[y].next # x
  <2>1. \A y \in Tuples : ChainOK(y)
    BY DEF TxnInv
  <2> QED BY <1>4, <2>1, Zenon DEF ChainOK
<1>8. \A b \in Cores : \A f \in Entries(b) : f.tuple # x
  BY <1>3, <1>4 DEF GcOK
<1>9. /\ \A b \in Cores : \A f \in gc'[b].queue \cup gc'[b].scratch : f.tuple # x
      /\ \A b \in Cores : gc'[b].queue = gc[b].queue /\ gc'[b].scratch \subseteq gc[b].scratch
  BY <1>2, <1>8, Zenon DEF Entries
<1>10. \A m \in limbo' : m \in limbo /\ m.tuple # x
  BY <1>1, <1>2, <1>3, Zenon DEF GcOK
<1>11. Frees(x)
  BY <1>2, <1>5, <1>6, <1>7, <1>9, <1>10, Zenon DEF Frees
<1> QED
  BY <1>2, <1>4, <1>11, FreesStep, Zenon

(* c lets go of x, which is out of the tree, and leaves it to RCU. *)
Retires(c, x) ==
  /\ heap[x].owner = c /\ heap[x].alive /\ heap[x].latest /\ Unqueued(x)
  /\ heap' = [heap EXCEPT ![x] = [Release(heap[x]) EXCEPT !.latest = FALSE]]
  /\ limbo' = limbo \cup {[tuple |-> x, waits |-> {d \in Cores : pinned[d] # 0}]}
  /\ \A k \in Keys : tree'[k] = IF tree[k] = x THEN None ELSE tree[k]
  /\ \A d \in Cores : d # c => tx'[d] = tx[d]
  /\ tx'[c].todo = tx[c].todo /\ tx'[c].read_set = tx[c].read_set
  /\ tx'[c].write_set = tx[c].write_set
  /\ tx[c].pc # "replace" /\ tx'[c].pc \notin {"replace", "removed"}
  /\ tx[c].pc = "removed" => tx[c].head = x

(* Handing a tuple to RCU preserves the invariant. *)
LEMMA RetiresStep ==
  ASSUME TxnInv, TxnTypes', UNCHANGED <<clockVars, gc, workload>>, NEW c \in Cores, NEW x \in Tuples,
         Retires(c, x), PcOK(c)', EpochOK(c)', SnapOK(c)', OwnsOK(c)',
         \A y \in Tuples : y # x /\ heap[y].owner = c => LockOK(y)'
  PROVE  TxnInv'
<1>a. TxnTypes /\ PinnedWindow /\ c # None /\ x # None
      /\ current_tick \in Nat /\ last_tick_inclusive \in Nat
  <2>1. TxnTypes /\ PinnedWindow
    BY Zenon DEF TxnInv
  <2> QED BY <2>1, NoneApart, Ticks, Zenon
<1>b. /\ current_tick' = current_tick /\ pinned' = pinned /\ gc' = gc
      /\ last_tick_inclusive' = last_tick_inclusive
      /\ current_tick <= current_tick' /\ last_tick_inclusive <= last_tick_inclusive'
  BY <1>a DEF clockVars
<1>c. /\ \A y \in Tuples : y # x => heap'[y] = heap[y]
      /\ heap'[x].alive /\ heap'[x].owner = None /\ ~heap'[x].latest
      /\ heap'[x].alive = heap[x].alive
      /\ heap'[x].version = heap[x].version /\ heap'[x].next = heap[x].next
  <2>1. heap \in [Tuples -> HeapRec] /\ heap[x] \in HeapRec
    BY <1>a, Zenon DEF TxnTypes
  <2>2. /\ \A y \in Tuples : y # x => heap'[y] = heap[y]
        /\ heap'[x] = [Release(heap[x]) EXCEPT !.latest = FALSE]
    BY <2>1, Zenon DEF Retires
  <2>3. heap[x].alive
    BY Zenon DEF Retires
  <2> QED BY <2>1, <2>2, <2>3, ZenonT(40) DEF Release, HeapRec
<1>d. /\ heap[x].owner = c /\ heap[x].alive /\ heap[x].latest /\ Unqueued(x)
      /\ \A d \in Cores : d # c => tx'[d] = tx[d]
      /\ tx[c].pc # "replace" /\ tx'[c].pc \notin {"replace", "removed"}
      /\ tx[c].pc = "removed" => tx[c].head = x
      /\ \A k \in Keys : tree'[k] = IF tree[k] = x THEN None ELSE tree[k]
  BY Zenon DEF Retires
<1>e. /\ \A y : InLimbo(y)' => InLimbo(y) \/ y = x
      /\ \A y \in Tuples : InTree(y)' => InTree(y) /\ y # x
      /\ \A y \in Tuples : y # x /\ InTree(y) => InTree(y)'
  <2>1. \A y : InLimbo(y)' => InLimbo(y) \/ y = x
    BY DEF Retires, InLimbo
  <2>2. \A y \in Tuples : y # None
    BY NoneApart, Zenon
  <2> QED BY <1>d, <2>1, <2>2, Zenon DEF InTree
<1>f. \A b \in Cores : Entries(b)' = Entries(b)
  BY Zenon DEF Entries
<1>g. ~InLimbo(x)
  BY <1>d, Zenon DEF TxnInv, GcOK, InLimbo
<1>1. PinnedWindow'
  BY <1>a, <1>b, Zenon DEF PinnedWindow
<1>2. ASSUME NEW d \in Cores, d # c PROVE PcOK(d)' /\ EpochOK(d)' /\ SnapOK(d)' /\ OwnsOK(d)'
  <2>1. ASSUME NEW a \in Cores, a # c PROVE Spared(a)
    <3>1. \A y \in Tuples : heap[y].owner = a \/ heap'[y].owner = a => y # x /\ heap'[y] = heap[y]
      BY <1>c, <1>d, <2>1, NoneApart, Zenon
    <3>2. \A y \in Tuples, k \in Keys : y # x => (tree'[k] = y <=> tree[k] = y)
      BY <1>d, NoneApart, Zenon
    <3>3. tx'[a] = tx[a] /\ \A y \in Tuples : y # x /\ InLimbo(y)' => InLimbo(y)
      BY <1>d, <1>e, <2>1, Zenon
    <3> QED BY <1>f, <3>1, <3>2, <3>3, ZenonT(40) DEF Spared
  <2> QED BY <1>b, <2>1, OthersKeep, Zenon
<1>3. ASSUME NEW d \in Cores PROVE PtrsOK(d)'
  <2>1. PtrsOK(d) /\ Ptrs(d) \subseteq Tuples
    BY SetTypes, Zenon DEF TxnInv
  <2>2. tx'[d].todo = tx[d].todo /\ tx'[d].read_set = tx[d].read_set /\ tx'[d].write_set = tx[d].write_set
    BY Zenon DEF Retires
  <2>3. Ptrs(d)' = Ptrs(d)
    BY <2>2, Zenon DEF Ptrs
  <2>4. ASSUME NEW y \in Ptrs(d) PROVE Safe(d, y)'
    <3>1. Safe(d, y) /\ y \in Tuples /\ pinned[d] # 0
      BY <2>1, PointersPin, Zenon DEF PtrsOK
    <3>2. heap'[y].alive
      BY <1>c, <3>1, Zenon DEF Safe
    <3>3. \A l \in limbo' : l.tuple = y => l \in limbo \/ d \in l.waits
      BY <3>1 DEF Retires
    <3> QED BY <1>b, <3>1, <3>2, <3>3, SafeStep, Zenon
  <2>5. ASSUME NEW y \in Tuples, NEW k \in Keys, Leads(k, y) PROVE Leads(k, y)'
    <3>1. CASE y = x
      BY <1>c, <3>1, Zenon DEF Leads
    <3>2. CASE y # x
      <4>1. heap'[y] = heap[y] /\ (tree[k] = y => tree'[k] = y)
        BY <1>c, <1>d, <3>2, Zenon
      <4>2. \A a \in Cores : Removing(a, y) => Removing(a, y)'
        BY <1>d, <3>2, Zenon DEF Removing
      <4> QED BY <2>5, <4>1, <4>2, Zenon DEF Leads
    <3> QED BY <3>1, <3>2
  <2>6. /\ \A j \in DOMAIN tx[d].todo : tx[d].todo[j].key \in Keys /\ tx[d].todo[j].tuple \in Tuples
        /\ \A j \in DOMAIN tx[d].write_set : tx[d].write_set[j].key \in Keys /\ tx[d].write_set[j].tuple \in Tuples
    <3>1. tx[d].todo \in Seq(TodoRec) /\ tx[d].write_set \in Seq(WriteRec)
      BY <1>a, Zenon DEF TxnTypes, TxRec
    <3>2. /\ \A j \in DOMAIN tx[d].todo : tx[d].todo[j] \in TodoRec
          /\ \A j \in DOMAIN tx[d].write_set : tx[d].write_set[j] \in WriteRec
      BY <3>1
    <3> QED BY <3>2, Zenon DEF TodoRec, WriteRec
  <2> QED BY <2>1, <2>2, <2>3, <2>4, <2>5, <2>6, Zenon DEF PtrsOK
<1>4. ASSUME NEW y \in Tuples PROVE LockOK(y)' /\ TupleOK(y)' /\ ChainOK(y)' /\ (Live(y)' => Live(y) /\ heap'[y].next = heap[y].next)
  <2>1. LockOK(y) /\ TupleOK(y) /\ ChainOK(y)
    BY Zenon DEF TxnInv
  <2>2. heap'[y].next = heap[y].next /\ heap'[y].version = heap[y].version /\ heap'[y].alive = heap[y].alive
    BY <1>c, Zenon
  <2>3. LockOK(y)'
    <3>1. CASE y = x
      BY <1>c, <3>1, Zenon DEF LockOK
    <3>2. CASE y # x /\ heap[y].owner # c
      BY <1>a, <1>c, <1>d, <2>1, <3>2, LockFrame, Zenon
    <3> QED BY <3>1, <3>2
  <2>4. TupleOK(y)'
    <3>1. CASE y = x
      BY <1>b, <1>c, <2>1, <3>1, Zenon DEF TupleOK
    <3>2. CASE y # x
      <4>1. heap'[y] = heap[y]
        BY <1>c, <3>2, Zenon
      <4>2. \A d \in Cores : tx[d].pc \in {"replace", "removed"} /\ tx[d].head = y =>
              tx'[d].pc \in {"replace", "removed"} /\ tx'[d].head = y
        BY <1>d, <3>2, Zenon
      <4> QED BY <1>b, <1>e, <2>1, <3>2, <4>1, <4>2, ZenonT(40) DEF TupleOK
    <3> QED BY <3>1, <3>2, Zenon
  <2>5. Live(y) => heap[y].next \in Tuples /\ heap[y].next # x
    BY <1>a, <1>d, <2>1, Zenon DEF ChainOK, Live, TxnTypes, HeapRec
  <2>6. Live(y) /\ InLimbo(heap[y].next)' => InLimbo(heap[y].next)
    <3>1. InLimbo(heap[y].next)' => \E l \in limbo' : l.tuple = heap[y].next
      BY <2>2, Zenon DEF InLimbo
    <3> QED BY <2>5, <3>1, SMTT(40) DEF InLimbo, Retires
  <2>7. ChainOK(y)' /\ (Live(y)' => Live(y))
    BY <1>a, <1>b, <1>c, <1>f, <2>1, <2>5, <2>6, ChainFrame, ZenonT(40)
  <2> QED BY <2>2, <2>3, <2>4, <2>7, Zenon
<1>5. ChainsApart'
  BY <1>4, ApartFrame, Zenon DEF TxnInv
<1>6. TreeOK'
  <2>1. TreeOK /\ \A k \in Keys : tree[k] \in Tuples \cup {None}
    BY Zenon DEF TxnInv, TxnTypes
  <2>2. \A k \in Keys : tree'[k] # None => tree'[k] = tree[k] /\ tree[k] # x /\ heap'[tree[k]] = heap[tree[k]]
    BY <1>c, <1>d, <2>1, ZenonT(40)
  <2>3. \A d \in Cores : d # c => tx'[d] = tx[d] /\ Replacing(d)' = Replacing(d)
    BY <1>d, Zenon DEF Replacing
  <2>4. ASSUME NEW k \in Keys, tree'[k] # None
        PROVE  /\ heap'[tree'[k]].alive
               /\ heap'[tree'[k]].latest \/ \E d \in Cores : tx'[d].pc = "replace" /\ Replacing(d)'.tuple = tree'[k]
    <3>1. /\ heap[tree[k]].alive
          /\ heap[tree[k]].latest \/ \E d \in Cores : tx[d].pc = "replace" /\ Replacing(d).tuple = tree[k]
      BY <2>1, <2>2, <2>4, Zenon DEF TreeOK
    <3>2. \A d \in Cores : tx[d].pc = "replace" => tx'[d].pc = "replace" /\ Replacing(d)' = Replacing(d)
      BY <1>d, <2>3, Zenon
    <3> QED BY <2>2, <2>4, <3>1, <3>2, Zenon
  <2>5. \A j, k \in Keys : tree'[j] = tree'[k] /\ tree'[j] # None => j = k
    BY <2>1, <2>2, SMTT(40) DEF TreeOK
  <2> QED BY <2>4, <2>5, Zenon DEF TreeOK
<1>7. GcOK'
  <2>1. GcOK /\ \A b \in Cores : \A e \in Entries(b) : e.tuple \in Tuples /\ e.key \in Keys \cup {None}
    BY DEF TxnInv, TxnTypes, GcRec, GcEntry, Entries
  <2>2. \A b \in Cores : \A e \in Entries(b) : EntryOK(e) => EntryOK(e)'
    <3> SUFFICES ASSUME NEW b \in Cores, NEW e \in Entries(b), EntryOK(e) PROVE EntryOK(e)'
      OBVIOUS
    <3>1. e.tuple \in Tuples /\ e.tuple # x /\ e.key \in Keys \cup {None}
      BY <1>d, <2>1, Zenon DEF Unqueued
    <3>2. heap'[e.tuple] = heap[e.tuple] /\ ~InLimbo(e.tuple)' /\ (InTree(e.tuple)' => InTree(e.tuple))
      BY <1>c, <1>e, <3>1, Zenon DEF EntryOK
    <3>3. e.key # None /\ heap[e.tuple].latest => tree'[e.key] = e.tuple
      BY <1>d, <3>1, Zenon DEF EntryOK
    <3> QED BY <3>2, <3>3, Zenon DEF EntryOK
  <2>3. \A b \in Cores : gc'[b].queue \cap gc'[b].scratch = {}
    BY <2>1, Zenon DEF GcOK
  <2>4. \A l, m \in limbo' : l.tuple = m.tuple => l = m
    <3>0. PICK q : q = [tuple |-> x, waits |-> {d \in Cores : pinned[d] # 0}]
      BY Zenon
    <3>1. \A l \in limbo' : l \in limbo \/ (l = q /\ q.tuple = x)
      BY <3>0, Zenon DEF Retires
    <3>2. \A l \in limbo : l.tuple # x
      BY <1>g DEF InLimbo
    <3>3. \A l, m \in limbo : l.tuple = m.tuple => l = m
      BY <2>1, Zenon DEF GcOK
    <3> QED BY <3>1, <3>2, <3>3, Zenon
  <2>5. \A l \in limbo' : heap'[l.tuple].alive /\ ~heap'[l.tuple].latest /\ ~InTree(l.tuple)'
    <3>1. \A l \in limbo' : l.tuple = x \/ (l \in limbo /\ l.tuple \in Tuples /\ l.tuple # x)
      BY DEF Retires, TxnTypes, LimboRec, InLimbo
    <3> QED BY <1>c, <1>e, <2>1, <3>1, Zenon DEF GcOK
  <2>6. PICK es : es = {}
    BY Zenon
  <2>7. /\ \A b \in Cores : \A e \in gc'[b].scratch : e \in gc[b].scratch
        /\ \A b \in Cores : \A e \in Entries(b)' : e \in Entries(b) \/ (b = c /\ e \in es)
    BY <1>f, Zenon
  <2>8. GcOK
    BY <2>1
  <2> QED BY <1>a, <1>b, <2>2, <2>3, <2>4, <2>5, <2>6, <2>7, <2>8, GcStep, ZenonT(40)
<1> QED
  BY <1>1, <1>2, <1>3, <1>4, <1>5, <1>6, <1>7, ZenonT(40) DEF TxnInv

(* Marking a removed tuple and giving it to RCU preserves the invariant. *)
LEMMA CleanRemovedStep ==
  ASSUME TxnInv, TxnTypes', UNCHANGED workload, NEW c \in Cores, CleanRemoved(c)
  PROVE  TxnInv'
<1>1. PICK x : x = tx[c].head
  OBVIOUS
<1>2. /\ tx[c].pc = "removed" /\ UNCHANGED clockVars /\ tree' = tree /\ gc' = gc
      /\ heap' = [heap EXCEPT ![x] = [Release(heap[x]) EXCEPT !.latest = FALSE]]
      /\ limbo' = limbo \cup {[tuple |-> x, waits |-> {d \in Cores : pinned'[d] # 0}]}
      /\ tx' = [tx EXCEPT ![c] = [tx[c] EXCEPT !.pc = "clean", !.head = None]]
  BY <1>1, Zenon DEF CleanRemoved, At, free_with_fn, Become
<1>3. TxnTypes /\ tx \in [Cores -> TxRec] /\ tx[c] \in TxRec /\ PcOK(c) /\ OwnsRemoved(c)
  BY Zenon DEF TxnInv, TxnTypes, OwnsOK
<1>4. x \in Tuples /\ tx[c].read_set = <<>> /\ tx[c].write_set = <<>> /\ tx[c].todo = <<>>
  BY <1>1, <1>2, <1>3, Zenon DEF PcOK, Fits, Running, Deciding
<1>5. /\ heap[x].owner = c /\ heap[x].alive /\ heap[x].latest /\ ~InTree(x) /\ Unqueued(x)
  BY <1>1, <1>2, <1>3, Zenon DEF OwnsRemoved
<1>6. /\ tx'[c] = [tx[c] EXCEPT !.pc = "clean", !.head = None]
      /\ \A d \in Cores : d # c => tx'[d] = tx[d]
  BY <1>2, <1>3, Zenon
<1>7. /\ tx'[c].pc = "clean" /\ tx'[c].head = None /\ tx'[c].todo = tx[c].todo
      /\ tx'[c].read_set = tx[c].read_set /\ tx'[c].write_set = tx[c].write_set
      /\ tx'[c].order = tx[c].order /\ tx'[c].i = tx[c].i
  BY <1>6
<1>8. pinned' = pinned
  BY <1>2 DEF clockVars
<1>9. \A k \in Keys : tree'[k] = IF tree[k] = x THEN None ELSE tree[k]
  BY <1>2, <1>5, Zenon DEF InTree
<1>10. Retires(c, x)
  BY <1>1, <1>2, <1>5, <1>6, <1>7, <1>8, <1>9, ZenonT(40) DEF Retires
<1>11. PcOK(c)'
  <2>1. PICK t : t = tx'[c]
    OBVIOUS
  <2>2. /\ t.pc = "clean" /\ t.head = None /\ t.read_set = <<>> /\ t.write_set = <<>>
        /\ t.todo = <<>>
    BY <1>4, <1>7, <2>1, Zenon
  <2>3. Fits(t, pinned'[c], IsSnapshot(c)')
    BY <2>2 DEF Fits, Running, Deciding, InTxn
  <2> QED BY <2>1, <2>3, Zenon DEF PcOK
<1>12. EpochOK(c)' /\ SnapOK(c)'
  BY <1>7, Zenon DEF EpochOK, SnapOK, Running
<1>13. OwnsOK(c)'
  BY <1>7, Zenon DEF OwnsOK, OwnsInserts, OwnsLocked, OwnsWrites, OwnsUndone, OwnsReplaced,
     OwnsRemoved, Running
<1>14. ASSUME NEW y \in Tuples, y # x PROVE heap[y].owner # c
  <2>1. LockOK(y) /\ c # None
    BY NoneApart, Zenon DEF TxnInv
  <2> QED BY <1>1, <1>2, <1>14, <2>1, Zenon DEF LockOK, Removing, Running
<1> QED
  BY <1>2, <1>4, <1>10, <1>11, <1>12, <1>13, <1>14, RetiresStep, ZenonT(40)

(* Where an inserted tuple is: in the tree under its key, and its first    *)
(* position in the write set is that of the insert.                        *)
LEMMA InsertedFacts ==
  ASSUME TxnInv, NEW c \in Cores, tx[c].pc = "undo", NEW x \in Tuples, heap[x].owner = c,
         DidInsert(tx[c], x)
  PROVE  /\ Min(Positions(tx[c].write_set, x)) \in DOMAIN tx[c].write_set
         /\ LET w == tx[c].write_set[Min(Positions(tx[c].write_set, x))]
            IN w.tuple = x /\ w.key \in Keys /\ Pending(c, w) /\ w.insert
<1>1. PICK ws : ws = tx[c].write_set
  OBVIOUS
<1>2. PICK j \in DOMAIN ws : ws[j].tuple = x /\ ws[j].insert
  BY <1>1, Zenon DEF DidInsert, Positions
<1>3. TxnTypes /\ PcOK(c) /\ OwnsUndone(c)
  BY Zenon DEF TxnInv, OwnsOK
<1>4. ws \in Seq(WriteRec)
  BY <1>1, <1>3, Zenon DEF TxnTypes, TxRec
<1>5. \A a \in DOMAIN ws : ws[a].tuple = x => j <= a
  <2>1. \A a, b \in DOMAIN ws : ws[b].insert /\ ws[a].tuple = ws[b].tuple => b <= a
    BY <1>1, <1>3, Zenon DEF PcOK, Fits
  <2> QED BY <1>2, <2>1, Zenon
<1>6. j \in Positions(ws, x) /\ \A a \in Positions(ws, x) : j <= a
  BY <1>2, <1>5 DEF Positions
<1>7. Positions(ws, x) \subseteq Nat
  BY <1>4 DEF Positions
<1>8. Min(Positions(ws, x)) = j
  <2>1. \A m \in Positions(ws, x) : (\A a \in Positions(ws, x) : m <= a) => m = j
    BY <1>6, <1>7
  <2>2. Min(Positions(ws, x)) = CHOOSE m \in Positions(ws, x) : \A a \in Positions(ws, x) : m <= a
    BY DEF Min
  <2> QED BY <1>6, <2>1, <2>2, Zenon
<1>9. ws[j] \in WriteRec
  BY <1>4
<1>10. ws[j].key \in Keys /\ Pending(c, ws[j])
  BY <1>1, <1>2, <1>3, <1>9, Zenon DEF OwnsUndone, WriteRec
<1> QED
  BY <1>1, <1>2, <1>8, <1>10, Zenon

(* Undoing one step of an aborted transaction preserves the invariant: a   *)
(* lock is released, or an insert is taken out of the tree.                *)
LEMMA UndoStep ==
  ASSUME TxnInv, TxnTypes', UNCHANGED workload, NEW c \in Cores, Undo(c),
         Held(c) # {} => FirstHeld(c) \in Tuples /\ heap[FirstHeld(c)].owner = c
  PROVE  TxnInv'
<1>1. PICK x \in Tuples : x = FirstHeld(c) /\ heap[x].owner = c
  BY Zenon DEF Undo
<1>2. tx[c].pc = "undo" /\ tx' = tx /\ gc' = gc
  BY Zenon DEF Undo, At
<1>3. CASE ~DidInsert(tx[c], x)
  <2>1. heap' = [heap EXCEPT ![x] = Release(@)] /\ UNCHANGED <<clockVars, tree, limbo, gc, tx, workload>>
    BY <1>1, <1>3, Zenon DEF Undo
  <2> QED BY <1>1, <1>2, <1>3, <2>1, Releases, Zenon
<1>4. CASE DidInsert(tx[c], x)
  <2>1. PICK m : m = Min(Positions(tx[c].write_set, x))
    OBVIOUS
  <2>2. PICK k \in Keys : k = tx[c].write_set[m].key /\ tree[k] = x /\ heap[x].latest /\ Unqueued(x)
    <3>1. /\ tx[c].write_set[m].tuple = x /\ tx[c].write_set[m].key \in Keys
          /\ Pending(c, tx[c].write_set[m]) /\ tx[c].write_set[m].insert
      BY <1>1, <1>2, <1>4, <2>1, InsertedFacts, Zenon
    <3> QED BY <3>1, Zenon DEF Pending, Owns
  <2>3. /\ tree' = remove(k) /\ UNCHANGED clockVars /\ free_with_fn(x)
        /\ heap' = [heap EXCEPT ![x] = [Release(heap[x]) EXCEPT !.latest = FALSE]]
    BY <1>1, <1>4, <2>1, <2>2, Zenon DEF Undo
  <2>4. TxnTypes /\ TreeOK /\ LockOK(x) /\ x # None /\ c # None /\ PcOK(c) /\ OwnsUndone(c)
        /\ tree \in [Keys -> Tuples \cup {None}]
    <3>1. TxnTypes /\ TreeOK /\ LockOK(x) /\ PcOK(c) /\ OwnsUndone(c)
      BY Zenon DEF TxnInv, OwnsOK
    <3> QED BY <3>1, NoneApart, Zenon DEF TxnTypes, Tuples
  <2>5. \A j \in Keys : tree'[j] = IF tree[j] = x THEN None ELSE tree[j]
    BY <2>2, <2>3, <2>4, Zenon DEF remove, TreeOK
  <2>6. heap[x].alive
    BY <1>1, <2>4, Zenon DEF LockOK
  <2>7. pinned' = pinned
    BY <2>3 DEF clockVars
  <2>8. limbo' = limbo \cup {[tuple |-> x, waits |-> {d \in Cores : pinned[d] # 0}]}
    BY <2>3, <2>7, Zenon DEF free_with_fn
  <2>9. Retires(c, x)
    BY <1>1, <1>2, <2>2, <2>3, <2>5, <2>6, <2>8, ZenonT(40) DEF Retires
  <2>10. PcOK(c)'
    BY <1>2, <2>4, <2>7, PcFrame, Zenon
  <2>11. EpochOK(c)' /\ SnapOK(c)'
    BY <1>2, Zenon DEF EpochOK, SnapOK, Running
  <2>12. \A y \in Tuples : y # x => heap'[y] = heap[y]
    BY <2>3, Zenon DEF TxnTypes
  <2>13. heap'[x].owner = None
    BY <2>3, Zenon DEF TxnTypes, Release, HeapRec
  <2>14. \A j \in DOMAIN tx[c].write_set : tx[c].write_set[j].tuple \in Tuples /\ tx[c].write_set[j].key \in Keys
    BY <2>4, SetTypes, Zenon
  <2>15. OwnsUndone(c)'
    <3> SUFFICES ASSUME NEW j \in DOMAIN tx[c].write_set, tx[c].write_set[j].insert,
                        heap'[tx[c].write_set[j].tuple].owner = c
                 PROVE  Pending(c, tx[c].write_set[j])'
      BY <1>2, Zenon DEF OwnsUndone
    <3>1. PICK w : w = tx[c].write_set[j]
      BY Zenon
    <3>2. w.tuple \in Tuples /\ w.key \in Keys /\ w.tuple # x /\ heap'[w.tuple] = heap[w.tuple]
      BY <2>4, <2>12, <2>13, <2>14, <3>1, Zenon
    <3>3. Pending(c, w)
      BY <1>2, <2>4, <3>1, <3>2, Zenon DEF OwnsUndone
    <3>4. tree'[w.key] = tree[w.key] /\ Unqueued(w.tuple)' = Unqueued(w.tuple)
      BY <1>2, <2>5, <3>2, <3>3, Zenon DEF Pending, Owns, Unqueued, Entries
    <3>5. Pending(c, w)'
      BY <3>2, <3>3, <3>4, Zenon DEF Pending, Owns, Tentative
    <3> QED BY <1>2, <3>1, <3>5, Zenon
  <2>16. OwnsOK(c)'
    BY <1>2, <2>15, Zenon DEF OwnsOK, OwnsInserts, OwnsLocked, OwnsWrites, OwnsReplaced,
       OwnsRemoved, Running
  <2>17. ASSUME NEW y \in Tuples, y # x, heap[y].owner = c PROVE LockOK(y)'
    <3>1. LockOK(y)
      BY DEF TxnInv
    <3> QED BY <1>2, <2>4, <2>12, <2>17, <3>1, LockFrame, Zenon
  <2>18. UNCHANGED <<clockVars, gc, workload>>
    BY <1>2, <2>3
  <2> QED BY <2>9, <2>10, <2>11, <2>16, <2>17, <2>18, RetiresStep, ZenonT(40)
<1> QED BY <1>3, <1>4

(* Queueing a deletion again that was written over preserves the           *)
(* invariant: its new tick is no older than any region and any version.    *)
LEMMA RequeueStep ==
  ASSUME TxnInv, TxnTypes', UNCHANGED workload, NEW c \in Cores, NEW e, CleanDelete(c, e),
         ~heap[e.tuple].latest
  PROVE  TxnInv'
<1>1. PICK x : x = e.tuple
  OBVIOUS
<1>2. PICK r : r = to_read_only_tick(current_tick)
  OBVIOUS
<1>3. PICK g : g = [tuple |-> x, key |-> None, tick |-> r]
  BY Zenon
<1>4. g.tuple = x /\ g.key = None /\ g.tick = r
  BY <1>3, Zenon
<1>5. /\ tx[c].pc = "clean" /\ e \in gc[c].scratch /\ e.key # None /\ heap[x].owner = None
      /\ gc' = [gc EXCEPT ![c].scratch = @ \ {e}, ![c].queue = @ \cup {g}]
      /\ UNCHANGED <<clockVars, limbo>> /\ heap' = heap /\ tree' = tree /\ tx' = tx /\ ~heap[x].latest
  BY <1>1, <1>2, <1>3, Zenon DEF CleanDelete, At, RequeueTick
<1>6. /\ TxnTypes /\ PinnedWindow /\ GcOK /\ TreeOK /\ gc \in [Cores -> GcRec] /\ e \in Entries(c)
      /\ current_tick \in Nat /\ last_tick_inclusive \in Nat
  BY <1>5, Zenon DEF TxnInv, TxnTypes, ClockTypeOK, Entries
<1>7. x \in Tuples
  BY <1>1, <1>5, <1>6 DEF GcRec, GcEntry
<1>8. r \in Nat
  BY <1>2, <1>6, RoMonotone, Zenon
<1>9. /\ gc'[c].queue = gc[c].queue \cup {g} /\ gc'[c].scratch = gc[c].scratch \ {e}
      /\ \A b \in Cores : b # c => gc'[b] = gc[b]
  BY <1>5, <1>6, Zenon DEF GcRec
<1>10. /\ \A b \in Cores : \A f \in Entries(b)' : f \in Entries(b) \/ (b = c /\ f \in {g})
       /\ \A b \in Cores : \A f \in gc'[b].queue : f \in gc[b].queue \/ f = g
       /\ \A b \in Cores : gc'[b].scratch \subseteq gc[b].scratch
  BY <1>9, Zenon DEF Entries
<1>11. /\ current_tick' = current_tick /\ pinned' = pinned /\ limbo' = limbo
       /\ last_tick_inclusive' = last_tick_inclusive
       /\ current_tick <= current_tick' /\ last_tick_inclusive <= last_tick_inclusive'
  BY <1>5, <1>6 DEF clockVars
<1>12. heap[x].alive /\ ~InLimbo(x) /\ \A b \in Cores : \A f \in Entries(b) : f.tuple = x => b = c /\ f = e
  BY <1>1, <1>6, Zenon DEF GcOK
<1>13. ~InTree(x)
  <2> SUFFICES ASSUME NEW k \in Keys, tree[k] = x PROVE FALSE
    BY DEF InTree
  <2>1. x # None
    BY <1>7, NoneApart, Zenon
  <2>2. PICK d \in Cores : tx[d].pc = "replace" /\ Replacing(d).tuple = x
    BY <1>5, <1>6, <2>1, Zenon DEF TreeOK
  <2>3. OwnsReplaced(d) /\ d # None
    BY NoneApart, Zenon DEF TxnInv, OwnsOK
  <2> QED BY <1>5, <2>2, <2>3, Zenon DEF OwnsReplaced
<1>14. /\ \A y : InLimbo(y)' = InLimbo(y)
       /\ \A y : InTree(y)' = InTree(y)
  BY <1>5, Zenon DEF InLimbo, InTree
<1>15. PinnedWindow'
  BY <1>6, <1>11, Zenon DEF PinnedWindow
<1>16. ASSUME NEW d \in Cores, d # c PROVE PcOK(d)' /\ EpochOK(d)' /\ SnapOK(d)' /\ OwnsOK(d)'
  <2>1. ASSUME NEW a \in Cores, a # c PROVE Spared(a)
    <3>1. \A y \in Tuples : heap[y].owner = a => y # x
      BY <1>5, NoneApart, Zenon
    <3>2. \A y \in Tuples, b \in Cores : heap[y].owner = a =>
            \A f \in Entries(b)' : f.tuple = y => f \in Entries(b)
      BY <1>4, <1>10, <3>1, Zenon
    <3> QED BY <1>5, <1>14, <3>2, Zenon DEF Spared
  <2> QED BY <1>9, <1>11, <1>16, <2>1, OthersKeep, Zenon
<1>17. PcOK(c)' /\ EpochOK(c)' /\ SnapOK(c)' /\ OwnsOK(c)'
  <2>1. PcOK(c)
    BY DEF TxnInv
  <2>2. PcOK(c)'
    BY <1>5, <1>11, <2>1, PcFrame, Zenon
  <2>3. EpochOK(c)' /\ SnapOK(c)'
    BY <1>5, Zenon DEF EpochOK, SnapOK, Running
  <2>4. OwnsOK(c)'
    BY <1>5, Zenon DEF OwnsOK, OwnsInserts, OwnsLocked, OwnsWrites, OwnsUndone, OwnsReplaced,
       OwnsRemoved, Running
  <2> QED BY <2>2, <2>3, <2>4, Zenon
<1>18. ASSUME NEW d \in Cores PROVE PtrsOK(d)'
  <2>1. PtrsOK(d)
    BY DEF TxnInv
  <2>2. ASSUME NEW y \in Ptrs(d), Safe(d, y) PROVE Safe(d, y)'
    <3>1. pinned[d] # 0 /\ pinned[d] \in Nat /\ pinned[d] <= current_tick
      BY <1>6, PointersPin, Zenon DEF PinnedWindow, TxnTypes, ClockTypeOK
    <3>2. pinned[d] - 1 \in Nat /\ pinned[d] - 1 <= current_tick
      BY <1>6, <3>1
    <3>3. to_read_only_tick(pinned[d] - 1) <= r
      BY <1>2, <1>6, <3>2, RoMonotone, Zenon
    <3>4. heap'[y].alive
      BY <1>5, <2>2, Zenon DEF Safe
    <3> QED BY <1>4, <1>10, <1>11, <2>2, <3>3, <3>4, SafeStep, Zenon
  <2>3. \A y \in Ptrs(d), k \in Keys : Leads(k, y) => Leads(k, y)'
    BY <1>5, Zenon DEF Leads, Removing
  <2> QED BY <1>5, <1>6, <2>1, <2>2, <2>3, PtrsStep, Zenon
<1>19. ASSUME NEW y \in Tuples PROVE LockOK(y)' /\ TupleOK(y)' /\ ChainOK(y)' /\ (Live(y)' => Live(y))
  <2>1. LockOK(y) /\ TupleOK(y) /\ ChainOK(y) /\ heap[y].version \in Nat
    <3>1. LockOK(y) /\ TupleOK(y) /\ ChainOK(y) /\ heap[y].version \in 0 .. MAX_TID
      BY Zenon DEF TxnInv, TxnTypes, HeapRec
    <3> QED BY <3>1
  <2>2. LockOK(y)'
    BY <1>5, <1>6, <2>1, LockFrame, Zenon
  <2>3. TupleOK(y)'
    BY <1>5, <1>11, <1>14, <2>1, Zenon DEF TupleOK
  <2>4. InLimbo(heap[y].next)' => InLimbo(heap[y].next)
    BY <1>5, Zenon DEF InLimbo
  <2>5. ASSUME Live(y) PROVE to_read_only_tick(EpochId(heap[y].version)) <= r
    <3>1. EpochId(heap[y].version) <= current_tick /\ EpochId(heap[y].version) \in Nat
      BY <2>1, <2>5, EpochNat, Zenon DEF Live, TupleOK
    <3> QED BY <1>2, <1>6, <3>1, RoMonotone, Zenon
  <2>6. Live(y) => \A d \in Cores : \A f \in Entries(d)' : f.tuple = heap[y].next /\ f.key = None =>
          f \in Entries(d) \/ to_read_only_tick(EpochId(heap[y].version)) <= f.tick
    BY <1>4, <1>10, <2>5, Zenon
  <2>7. ChainOK(y)' /\ (Live(y)' => Live(y))
    BY <1>5, <1>6, <1>11, <2>1, <2>4, <2>6, ChainFrame, ZenonT(40)
  <2> QED BY <2>2, <2>3, <2>7
<1>20. ChainsApart'
  BY <1>5, <1>19, ApartFrame, Zenon DEF TxnInv
<1>21. TreeOK'
  BY <1>5, <1>6, Zenon DEF TreeOK, Replacing
<1>22. GcOK'
  <2>1. \A f \in {g} : /\ EntryOK(f)' /\ f.tick <= to_read_only_tick(current_tick')
                       /\ \A b \in Cores : \A h \in Entries(b)' : h.tuple = f.tuple => b = c /\ h = f
    <3>1. EntryOK(g)'
      BY <1>4, <1>5, <1>12, <1>13, <1>14, Zenon DEF EntryOK
    <3>2. g.tick <= to_read_only_tick(current_tick')
      BY <1>2, <1>4, <1>8, <1>11, SMTT(40)
    <3>3. e \notin gc[c].queue /\ e # g
      BY <1>4, <1>5, <1>6, Zenon DEF GcOK
    <3>4. \A b \in Cores : \A h \in Entries(b)' : h # e \/ b # c
      BY <1>9, <3>3, Zenon DEF Entries
    <3>5. \A b \in Cores : \A h \in Entries(b)' : h.tuple = x => b = c /\ h = g
      BY <1>10, <1>12, <3>4, Zenon
    <3> QED BY <1>4, <3>1, <3>2, <3>5, Zenon
  <2>2. \A b \in Cores : \A f \in Entries(b) : EntryOK(f) => EntryOK(f)'
    BY <1>5, <1>14, Zenon DEF EntryOK
  <2>3. \A b \in Cores : gc'[b].queue \cap gc'[b].scratch = {}
    <3>1. \A b \in Cores : gc[b].queue \cap gc[b].scratch = {}
      BY <1>6, Zenon DEF GcOK
    <3>2. g \notin gc[c].scratch
      BY <1>4, <1>5, <1>12, Zenon DEF Entries
    <3> QED BY <1>9, <3>1, <3>2, SMTT(40)
  <2>4. /\ \A l, m \in limbo' : l.tuple = m.tuple => l = m
        /\ \A l \in limbo' : heap'[l.tuple].alive /\ ~heap'[l.tuple].latest /\ ~InTree(l.tuple)'
    BY <1>5, <1>6, <1>14, Zenon DEF GcOK
  <2>5. PICK es : es = {g}
    BY Zenon
  <2>6. /\ \A b \in Cores : \A f \in Entries(b)' : f \in Entries(b) \/ (b = c /\ f \in es)
        /\ \A b \in Cores : \A f \in gc'[b].scratch : f \in gc[b].scratch
    BY <1>10, <2>5, Zenon
  <2>7. \A f \in es : /\ EntryOK(f)' /\ f.tick <= to_read_only_tick(current_tick')
                      /\ \A b \in Cores : \A h \in Entries(b)' : h.tuple = f.tuple => b = c /\ h = f
    BY <2>1, <2>5, Zenon
  <2> QED BY <1>6, <1>11, <2>2, <2>3, <2>4, <2>6, <2>7, GcStep, ZenonT(40)
<1> QED
  BY <1>15, <1>16, <1>17, <1>18, <1>19, <1>20, <1>21, <1>22, ZenonT(40) DEF TxnInv

(* c takes the latest tuple x of the removed key k out of the tree. *)
Removes(c, k, x, e) ==
  /\ tx[c].pc = "clean" /\ e \in gc[c].scratch /\ e.key = k /\ e.tuple = x /\ k # None
  /\ heap[x].latest /\ heap[x].owner = None
  /\ heap' = [heap EXCEPT ![x] = Acquire(c, x, FALSE)]
  /\ tree' = remove(k)
  /\ tx' = [tx EXCEPT ![c] = [tx[c] EXCEPT !.pc = "removed", !.head = x]]
  /\ gc' = [gc EXCEPT ![c].scratch = @ \ {e}]
  /\ \/ pinned' = [pinned EXCEPT ![c] = current_tick]
     \/ pinned' = pinned /\ pinned[c] # 0
  /\ current_tick' = current_tick /\ last_tick_inclusive' = last_tick_inclusive

(* Taking a removed key out of the tree preserves the invariant. *)
LEMMA RemovesStep ==
  ASSUME TxnInv, TxnTypes', UNCHANGED <<limbo, workload>>, NEW c \in Cores,
         NEW k, NEW x, NEW e, Removes(c, k, x, e)
  PROVE  TxnInv'
<1>a. /\ TxnTypes /\ PinnedWindow /\ GcOK /\ TreeOK /\ PcOK(c) /\ e \in Entries(c)
      /\ gc \in [Cores -> GcRec] /\ tx \in [Cores -> TxRec] /\ pinned \in [Cores -> Nat]
      /\ current_tick \in Nat \ {0} /\ last_tick_inclusive \in Nat
  BY Zenon DEF TxnInv, TxnTypes, ClockTypeOK, Entries, Removes
<1>b. x \in Tuples /\ k \in Keys
  <2>1. e \in GcEntry
    BY <1>a, Zenon DEF Removes, GcRec
  <2> QED BY <2>1, Zenon DEF Removes, GcEntry
<1>c. x # None /\ c # None /\ k # None
  BY <1>b, NoneApart, Zenon
<1>d. /\ tree[k] = x /\ heap[x].alive /\ heap[x].latest /\ heap[x].owner = None /\ tx[c].pc = "clean"
      /\ \A b \in Cores : \A f \in Entries(b) : f.tuple = x => b = c /\ f = e
      /\ \A j \in Keys : tree[j] = x => j = k
  <2>1. /\ heap[x].latest /\ heap[x].owner = None /\ tx[c].pc = "clean"
        /\ e.tuple = x /\ e.key = k
    BY Zenon DEF Removes
  <2>2. /\ heap[x].alive /\ tree[k] = x
        /\ \A b \in Cores : \A f \in Entries(b) : f.tuple = x => b = c /\ f = e
    BY <1>a, <1>c, <2>1, Zenon DEF GcOK
  <2>3. \A i, j \in Keys : tree[i] = tree[j] /\ tree[i] # None => i = j
    BY <1>a, Zenon DEF TreeOK
  <2> QED BY <1>b, <1>c, <2>1, <2>2, <2>3
<1>e. \A j \in Keys : tree'[j] = IF j = k THEN None ELSE tree[j]
  <2>1. tree' = remove(k) /\ tree \in [Keys -> Tuples \cup {None}]
    BY <1>a, Zenon DEF TxnTypes, Removes
  <2> QED BY <1>b, <2>1 DEF remove
<1>f. /\ \A y \in Tuples : y # x => heap'[y] = heap[y]
      /\ heap'[x].owner = c /\ ~heap'[x].write_intent
      /\ \A y \in Tuples : /\ heap'[y].alive = heap[y].alive /\ heap'[y].latest = heap[y].latest
                           /\ heap'[y].deleting = heap[y].deleting
                           /\ heap'[y].version = heap[y].version /\ heap'[y].next = heap[y].next
  <2>1. heap \in [Tuples -> HeapRec] /\ heap[x] \in HeapRec
    BY <1>a, <1>b, Zenon DEF TxnTypes
  <2>2. heap'[x] = Acquire(c, x, FALSE) /\ \A y \in Tuples : y # x => heap'[y] = heap[y]
    BY <1>b, <2>1, Zenon DEF Removes
  <2>3. /\ heap'[x].owner = c /\ ~heap'[x].write_intent
        /\ heap'[x].alive = heap[x].alive /\ heap'[x].latest = heap[x].latest
        /\ heap'[x].deleting = heap[x].deleting
        /\ heap'[x].version = heap[x].version /\ heap'[x].next = heap[x].next
    BY <2>1, <2>2, Zenon DEF Acquire, HeapRec
  <2> QED BY <2>2, <2>3, Zenon
<1>g. /\ tx'[c].pc = "removed" /\ tx'[c].head = x /\ tx'[c].todo = tx[c].todo
      /\ tx'[c].read_set = tx[c].read_set /\ tx'[c].write_set = tx[c].write_set
      /\ \A d \in Cores : d # c => tx'[d] = tx[d]
  <2>1. tx'[c] = [tx[c] EXCEPT !.pc = "removed", !.head = x] /\ \A d \in Cores : d # c => tx'[d] = tx[d]
    BY <1>a, Zenon DEF Removes
  <2> QED BY <2>1 DEF TxRec
<1>h. /\ gc'[c].queue = gc[c].queue /\ gc'[c].scratch = gc[c].scratch \ {e}
      /\ \A b \in Cores : b # c => gc'[b] = gc[b]
  BY <1>a, Zenon DEF Removes, GcRec
<1>i. /\ \A b \in Cores : \A f \in Entries(b)' : f \in Entries(b)
      /\ \A b \in Cores : gc'[b].queue = gc[b].queue /\ gc'[b].scratch \subseteq gc[b].scratch
  BY <1>h, Zenon DEF Entries
<1>j. Unqueued(x)'
  <2>1. gc[c].queue \cap gc[c].scratch = {} /\ e \in gc[c].scratch
    BY <1>a, Zenon DEF GcOK, Removes
  <2>2. e \notin Entries(c)'
    BY <1>h, <2>1, Zenon DEF Entries
  <2> QED BY <1>d, <1>i, <2>2, Zenon DEF Unqueued
<1>k. /\ current_tick' = current_tick /\ last_tick_inclusive' = last_tick_inclusive /\ limbo' = limbo
      /\ current_tick <= current_tick' /\ last_tick_inclusive <= last_tick_inclusive'
      /\ pinned'[c] # 0 /\ \A d \in Cores : d # c => pinned'[d] = pinned[d]
      /\ \A d \in Cores : pinned'[d] = pinned[d] \/ pinned'[d] = current_tick
  BY <1>a DEF Removes
<1>l. /\ \A y : InLimbo(y)' = InLimbo(y)
      /\ ~InTree(x)'
      /\ \A y \in Tuples : InTree(y)' => InTree(y)
      /\ \A y \in Tuples : y # x /\ InTree(y) => InTree(y)'
  <2>1. \A y : InLimbo(y)' = InLimbo(y)
    BY DEF InLimbo
  <2>2. \A y \in Tuples : y # None
    BY NoneApart, Zenon
  <2> QED BY <1>b, <1>d, <1>e, <2>1, <2>2, Zenon DEF InTree
<1>m. \A y \in Tuples : heap[y].owner # c
  BY <1>d, NothingOwned, Zenon DEF Running
<1>1. PinnedWindow'
  <2> QED BY <1>a, <1>k DEF PinnedWindow
<1>2. ASSUME NEW d \in Cores, d # c PROVE PcOK(d)' /\ EpochOK(d)' /\ SnapOK(d)' /\ OwnsOK(d)'
  <2>1. ASSUME NEW a \in Cores, a # c PROVE Spared(a)
    <3>1. \A y \in Tuples : heap[y].owner = a \/ heap'[y].owner = a => y # x /\ heap'[y] = heap[y]
      BY <1>d, <1>f, <2>1, NoneApart, Zenon
    <3>2. \A y \in Tuples, j \in Keys : y # x => (tree'[j] = y <=> tree[j] = y)
      BY <1>d, <1>e, NoneApart, Zenon
    <3> QED BY <1>g, <1>i, <1>l, <2>1, <3>1, <3>2, ZenonT(40) DEF Spared
  <2> QED BY <1>2, <1>i, <1>k, <2>1, OthersKeep, Zenon
<1>3. PcOK(c)' /\ EpochOK(c)' /\ SnapOK(c)' /\ OwnsOK(c)'
  <2>1. PcOK(c)'
    <3>1. PICK t : t = tx'[c]
      OBVIOUS
    <3>2. /\ t.pc = "removed" /\ t.head \in Tuples /\ t.read_set = <<>> /\ t.write_set = <<>>
          /\ t.todo = <<>> /\ pinned'[c] # 0
      BY <1>a, <1>b, <1>d, <1>g, <1>k, <3>1, ZenonT(40) DEF PcOK, Fits, Running, Deciding
    <3>3. /\ \A a \in DOMAIN t.write_set : FALSE
          /\ \A a \in DOMAIN t.read_set : FALSE
          /\ \A a \in DOMAIN t.todo : FALSE
      BY <3>2, SMTT(40)
    <3>4. Fits(t, pinned'[c], IsSnapshot(c)')
      BY <3>2, <3>3, ZenonT(40) DEF Fits, Running, Deciding, InTxn
    <3> QED BY <3>1, <3>4, Zenon DEF PcOK
  <2>2. OwnsRemoved(c)'
    BY <1>b, <1>d, <1>f, <1>g, <1>j, <1>l, Zenon DEF OwnsRemoved
  <2> QED BY <1>g, <2>1, <2>2, Zenon DEF EpochOK, SnapOK, Running, OwnsOK, OwnsInserts,
     OwnsLocked, OwnsWrites, OwnsUndone, OwnsReplaced
<1>4. ASSUME NEW d \in Cores, d # c PROVE PtrsOK(d)'
  <2>1. PtrsOK(d) /\ Ptrs(d) \subseteq Tuples
    BY SetTypes, Zenon DEF TxnInv
  <2>2. ASSUME NEW y \in Ptrs(d), Safe(d, y) PROVE Safe(d, y)'
    <3>1. heap'[y].alive
      BY <1>f, <2>1, <2>2, Zenon DEF Safe
    <3> QED BY <1>4, <1>i, <1>k, <2>2, <3>1, SafeStep, Zenon
  <2>3. ASSUME NEW y \in Ptrs(d), NEW j \in Keys, Leads(j, y) PROVE Leads(j, y)'
    <3>1. CASE y = x
      <4>1. Removing(c, x)'
        BY <1>g, Zenon DEF Removing
      <4> QED BY <3>1, <4>1 DEF Leads
    <3>2. CASE y # x
      <4>1. heap'[y] = heap[y] /\ (tree[j] = y => tree'[j] = y)
        BY <1>d, <1>e, <1>f, <2>1, <3>2, Zenon
      <4>2. \A a \in Cores : Removing(a, y) => Removing(a, y)'
        BY <1>d, <1>g, Zenon DEF Removing
      <4> QED BY <2>3, <4>1, <4>2, Zenon DEF Leads
    <3> QED BY <3>1, <3>2
  <2> QED BY <1>4, <1>a, <1>g, <2>1, <2>2, <2>3, PtrsStep, ZenonT(40)
<1>5. PtrsOK(c)'
  <2>1. tx'[c].todo = <<>> /\ tx'[c].read_set = <<>> /\ tx'[c].write_set = <<>>
    BY <1>a, <1>d, <1>g, ZenonT(40) DEF PcOK, Fits, Running, Deciding
  <2>2. /\ \A a \in DOMAIN tx'[c].write_set : FALSE
        /\ \A a \in DOMAIN tx'[c].read_set : FALSE
        /\ \A a \in DOMAIN tx'[c].todo : FALSE
    BY <2>1, SMTT(40)
  <2> QED BY <2>2, Zenon DEF PtrsOK, Ptrs
<1>6. ASSUME NEW y \in Tuples PROVE LockOK(y)' /\ TupleOK(y)' /\ ChainOK(y)' /\ (Live(y)' => Live(y))
  <2>1. LockOK(y) /\ TupleOK(y) /\ ChainOK(y)
    BY DEF TxnInv
  <2>2. LockOK(y)'
    <3>1. CASE y = x
      BY <1>d, <1>f, <1>g, <3>1, Zenon DEF LockOK, Removing
    <3>2. CASE y # x
      BY <1>a, <1>f, <1>g, <1>m, <2>1, <3>2, LockFrame, ZenonT(40)
    <3> QED BY <3>1, <3>2, Zenon
  <2>3. TupleOK(y)'
    <3>1. CASE y = x
      <4>1. /\ heap'[y].alive /\ heap'[y].version = heap[y].version /\ heap'[y].next = heap[y].next
            /\ tx'[c].pc \in {"replace", "removed"} /\ tx'[c].head = y /\ current_tick' = current_tick
        BY <1>d, <1>f, <1>g, <1>k, <3>1, Zenon
      <4> QED BY <1>d, <2>1, <3>1, <4>1, Zenon DEF TupleOK
    <3>2. CASE y # x
      <4>1. \A d \in Cores : tx[d].pc \in {"replace", "removed"} /\ tx[d].head = y =>
              tx'[d].pc \in {"replace", "removed"} /\ tx'[d].head = y
        BY <1>d, <1>g, Zenon
      <4>2. heap'[y] = heap[y]
        BY <1>f, <3>2, Zenon
      <4> QED BY <1>k, <1>l, <2>1, <3>2, <4>1, <4>2, ZenonT(40) DEF TupleOK
    <3> QED BY <3>1, <3>2, Zenon
  <2>4. InLimbo(heap[y].next)' => InLimbo(heap[y].next)
    BY <1>f, Zenon DEF InLimbo
  <2>5. Live(y) => heap[y].next \in Tuples
    BY <1>a, Zenon DEF Live, TxnTypes, HeapRec
  <2>6. ChainOK(y)' /\ (Live(y)' => Live(y))
    BY <1>a, <1>f, <1>i, <1>k, <2>1, <2>4, <2>5, ChainFrame, ZenonT(40)
  <2> QED BY <2>2, <2>3, <2>6, Zenon
<1>7. ChainsApart'
  BY <1>6, <1>f, ApartFrame, Zenon DEF TxnInv
<1>8. TreeOK'
  <2>1. \A j \in Keys : tree'[j] # None => tree'[j] = tree[j] /\ tree[j] \in Tuples
    BY <1>e, Zenon DEF TxnTypes
  <2>2. \A d \in Cores : d # c => tx'[d] = tx[d] /\ Replacing(d)' = Replacing(d)
    BY <1>g, Zenon DEF Replacing
  <2>3. ASSUME NEW j \in Keys, tree'[j] # None
        PROVE  /\ heap'[tree'[j]].alive
               /\ heap'[tree'[j]].latest \/ \E d \in Cores : tx'[d].pc = "replace" /\ Replacing(d)'.tuple = tree'[j]
    <3>1. /\ heap[tree[j]].alive
          /\ heap[tree[j]].latest \/ \E d \in Cores : tx[d].pc = "replace" /\ Replacing(d).tuple = tree[j]
      BY <1>a, <2>1, <2>3, Zenon DEF TreeOK
    <3>2. \A d \in Cores : tx[d].pc = "replace" => tx'[d].pc = "replace" /\ Replacing(d)' = Replacing(d)
      BY <1>d, <2>2, Zenon
    <3> QED BY <1>f, <2>1, <2>3, <3>1, <3>2, ZenonT(40)
  <2>4. \A i, j \in Keys : tree'[i] = tree'[j] /\ tree'[i] # None => i = j
    BY <1>a, <2>1, SMTT(40) DEF TreeOK
  <2> QED BY <2>3, <2>4, Zenon DEF TreeOK
<1>9. GcOK'
  <2>1. \A b \in Cores : \A f \in Entries(b) : f.tuple \in Tuples /\ f.key \in Keys \cup {None}
    BY <1>a DEF GcRec, GcEntry, Entries
  <2>2. \A b \in Cores : \A f \in Entries(b) : EntryOK(f) /\ f \in Entries(b)' => EntryOK(f)'
    <3> SUFFICES ASSUME NEW b \in Cores, NEW f \in Entries(b), EntryOK(f), f \in Entries(b)'
                 PROVE  EntryOK(f)'
      OBVIOUS
    <3>1. f.tuple \in Tuples /\ f.tuple # x /\ f.key \in Keys \cup {None}
      BY <1>j, <2>1, Zenon DEF Unqueued
    <3>2. heap'[f.tuple] = heap[f.tuple] /\ ~InLimbo(f.tuple)' /\ (InTree(f.tuple)' => InTree(f.tuple))
      BY <1>f, <1>l, <3>1, Zenon DEF EntryOK
    <3>3. f.key # None /\ heap[f.tuple].latest => tree'[f.key] = f.tuple
      BY <1>d, <1>e, <3>1, Zenon DEF EntryOK
    <3> QED BY <3>2, <3>3, Zenon DEF EntryOK
  <2>3. \A b \in Cores : gc'[b].queue \cap gc'[b].scratch = {}
    BY <1>a, <1>i, Zenon DEF GcOK
  <2>4. /\ \A l, m \in limbo' : l.tuple = m.tuple => l = m
        /\ \A l \in limbo' : heap'[l.tuple].alive /\ ~heap'[l.tuple].latest /\ ~InTree(l.tuple)'
    <3>1. \A l \in limbo : l.tuple \in Tuples
      BY Zenon DEF TxnTypes, LimboRec
    <3>2. /\ \A l, m \in limbo : l.tuple = m.tuple => l = m
          /\ \A l \in limbo : heap[l.tuple].alive /\ ~heap[l.tuple].latest /\ ~InTree(l.tuple)
      BY <1>a, Zenon DEF GcOK
    <3> QED BY <1>f, <1>k, <1>l, <3>1, <3>2, ZenonT(40)
  <2> QED BY <1>a, <1>i, <1>k, <2>2, <2>3, <2>4, GcStep, ZenonT(40)
<1> QED
  BY <1>1, <1>2, <1>3, <1>4, <1>5, <1>6, <1>7, <1>8, <1>9, ZenonT(40) DEF TxnInv

(* Coming to a queued deletion preserves the invariant. *)
LEMMA CleanDeleteStep ==
  ASSUME TxnInv, TxnTypes', UNCHANGED workload, NEW c \in Cores, NEW e, CleanDelete(c, e)
  PROVE  TxnInv'
<1>1. CASE ~heap[e.tuple].latest
  BY <1>1, RequeueStep
<1>2. CASE heap[e.tuple].latest
  <2>1. PICK x : x = e.tuple
    OBVIOUS
  <2>2. PICK k : k = e.key
    OBVIOUS
  <2>3. /\ current_tick' = current_tick /\ last_tick_inclusive' = last_tick_inclusive
        /\ \/ pinned' = [pinned EXCEPT ![c] = current_tick]
           \/ pinned' = pinned /\ pinned[c] # 0
        /\ UNCHANGED limbo
    BY <1>2, Zenon DEF CleanDelete, Pin, clockVars
  <2>4. Removes(c, k, x, e)
    BY <1>2, <2>1, <2>2, <2>3, ZenonT(40) DEF CleanDelete, At, Become, Removes
  <2> QED BY <2>3, <2>4, RemovesStep
<1> QED BY <1>1, <1>2

(* The clock's steps preserve the invariant. *)
LEMMA ClockSteps ==
  ASSUME TxnInv, TxnTypes', UNCHANGED workload, ClockStep
  PROVE  TxnInv'
<1>1. /\ heap' = heap /\ tree' = tree /\ limbo' = limbo /\ tx' = tx /\ gc' = gc /\ pinned' = pinned
  BY DEF ClockStep, dbVars, Bump, Publish
<1>2. TxnTypes /\ PinnedWindow /\ GcOK /\ TreeOK /\ pinned \in [Cores -> Nat]
      /\ current_tick \in Nat /\ last_tick_inclusive \in Nat
  BY Zenon DEF TxnInv, TxnTypes, ClockTypeOK
<1>3. current_tick <= current_tick' /\ last_tick_inclusive <= last_tick_inclusive' /\ PinnedWindow'
  <2>1. CASE Bump
    BY <1>2, <2>1, SMTT(40) DEF Bump, PinnedWindow
  <2>2. CASE Publish
    BY <1>2, <2>2 DEF Publish, PinnedWindow
  <2> QED BY <2>1, <2>2 DEF ClockStep
<1>4. /\ \A y : InLimbo(y)' = InLimbo(y)
      /\ \A y : InTree(y)' = InTree(y)
      /\ \A b \in Cores : Entries(b)' = Entries(b)
  BY <1>1 DEF InLimbo, InTree, Entries
<1>5. ASSUME NEW d \in Cores PROVE PcOK(d)' /\ EpochOK(d)' /\ SnapOK(d)' /\ OwnsOK(d)'
  <2>1. ASSUME NEW a \in Cores PROVE Spared(a)
    BY <1>1, <1>4, Zenon DEF Spared
  <2>2. PICK c : c \notin Cores
    BY NoneApart, Zenon
  <2> QED BY <1>1, <1>3, <2>1, <2>2, OthersKeep, Zenon
<1>6. ASSUME NEW d \in Cores PROVE PtrsOK(d)'
  <2>1. PtrsOK(d)
    BY DEF TxnInv
  <2>2. \A y \in Ptrs(d) : Safe(d, y) => Safe(d, y)'
    BY <1>1, Zenon DEF Safe
  <2>3. \A y \in Ptrs(d), k \in Keys : Leads(k, y) => Leads(k, y)'
    BY <1>1, Zenon DEF Leads, Removing
  <2> QED BY <1>1, <1>2, <2>1, <2>2, <2>3, PtrsStep, Zenon
<1>7. ASSUME NEW y \in Tuples PROVE LockOK(y)' /\ TupleOK(y)' /\ ChainOK(y)' /\ (Live(y)' => Live(y))
  <2>1. LockOK(y) /\ TupleOK(y) /\ ChainOK(y)
    BY DEF TxnInv
  <2>2. LockOK(y)'
    BY <1>1, <1>2, <2>1, LockFrame, Zenon
  <2>3. TupleOK(y)'
    BY <1>1, <1>2, <1>3, <1>4, <2>1, TupleFrame, ZenonT(40) DEF TupleOK
  <2>5. ChainOK(y)' /\ (Live(y)' => Live(y))
    BY <1>1, <1>2, <1>3, <1>4, <2>1, ChainFrame, Zenon
  <2> QED BY <2>2, <2>3, <2>5, SMTT(40)
<1>8. ChainsApart'
  BY <1>1, <1>7, ApartFrame, Zenon DEF TxnInv
<1>9. TreeOK'
  BY <1>1, <1>2, Zenon DEF TreeOK, Replacing
<1>10. GcOK'
  BY <1>1, <1>2, <1>3, <1>4, GcFrame, Zenon
<1> QED
  BY <1>3, <1>5, <1>6, <1>7, <1>8, <1>9, <1>10, Zenon DEF TxnInv

(* A step that changes nothing preserves the invariant. *)
LEMMA Stutters ==
  ASSUME TxnInv, UNCHANGED vars
  PROVE  TxnInv'
<1>1. UNCHANGED <<current_tick, last_tick_inclusive, pinned, tree, leaf_version, heap, limbo, tx,
                  last_commit_tid, gc, workload>>
  BY SMTT(40) DEF vars, clockVars, dbVars
<1>2. TxnTypes /\ TxnTypes' /\ PinnedWindow'
  BY <1>1, Zenon DEF TxnInv, TxnTypes, ClockTypeOK, PinnedWindow
<1>3. current_tick <= current_tick' /\ last_tick_inclusive <= last_tick_inclusive'
  BY <1>1, <1>2, SMTT(40) DEF TxnTypes, ClockTypeOK
<1>4. /\ \A d \in Cores, x \in Tuples : Safe(d, x)' = Safe(d, x)
      /\ \A k \in Keys, x \in Tuples : Leads(k, x)' = Leads(k, x)
      /\ \A x \in Tuples : InTree(x)' = InTree(x) /\ InLimbo(x)' = InLimbo(x)
      /\ \A d \in Cores : Entries(d)' = Entries(d)
  BY <1>1, Zenon DEF Safe, Leads, Removing, InTree, InLimbo, Entries
<1>5. ASSUME NEW d \in Cores
      PROVE  PcOK(d)' /\ EpochOK(d)' /\ SnapOK(d)' /\ OwnsOK(d)' /\ PtrsOK(d)'
  <2>1. PcOK(d) /\ EpochOK(d) /\ SnapOK(d) /\ OwnsOK(d) /\ PtrsOK(d)
    BY SMTT(40) DEF TxnInv
  <2>2. tx'[d] = tx[d] /\ pinned'[d] = pinned[d] /\ gc'[d].queue = gc[d].queue
    BY <1>1, SMTT(40)
  <2>3. Spared(d)
    BY <1>1, <1>4, Zenon DEF Spared
  <2>4. PcOK(d)' /\ EpochOK(d)' /\ SnapOK(d)'
    BY <1>1, <1>2, <1>3, <2>1, <2>2, PcFrame, EpochFrame, SnapFrame, Zenon
  <2>5. OwnsOK(d)'
    BY <1>2, <2>1, <2>3, SparedOwns, Zenon
  <2>6. PtrsOK(d)'
    <3>1. \A x \in Ptrs(d) : x \in Tuples
      BY <1>2, SetTypes, Zenon
    <3> QED BY <1>2, <1>4, <2>1, <2>2, <3>1, PtrsStep, Zenon
  <2> QED BY <2>4, <2>5, <2>6, Zenon
<1>6. ASSUME NEW x \in Tuples
      PROVE  LockOK(x)' /\ TupleOK(x)' /\ ChainOK(x)' /\ (Live(x)' => Live(x))
  <2>1. LockOK(x) /\ TupleOK(x) /\ ChainOK(x)
    BY Zenon DEF TxnInv
  <2>2. /\ heap'[x] = heap[x] /\ (~heap[x].alive => heap[x].owner = None)
        /\ \A d \in Cores : tx'[d] = tx[d]
    BY <1>1, <2>1, Zenon DEF TupleOK
  <2>3. LockOK(x)'
    BY <1>2, <2>1, <2>2, LockFrame, Zenon
  <2>4. TupleOK(x)'
    BY <1>2, <1>3, <1>4, <2>1, <2>2, TupleFrame, Zenon
  <2>5. Live(x) => heap[x].next \in Tuples
    <3>1. heap[x] \in HeapRec
      BY <1>2, Zenon DEF TxnTypes
    <3> QED BY <3>1, Zenon DEF Live, HeapRec
  <2>6. ChainOK(x)' /\ (Live(x)' => Live(x))
    BY <1>1, <1>2, <1>3, <1>4, <2>1, <2>5, ChainFrame, Zenon
  <2> QED BY <2>3, <2>4, <2>6, Zenon
<1>7. TreeOK'
  BY <1>1, Zenon DEF TxnInv, TreeOK, Replacing
<1>8. GcOK'
  BY <1>1, <1>2, <1>3, <1>4, GcFrame, Zenon DEF TxnInv
<1>9. ChainsApart'
  BY <1>1, <1>6, ApartFrame, Zenon DEF TxnInv
<1> QED BY <1>2, <1>5, <1>6, <1>7, <1>8, <1>9, Zenon DEF TxnInv
=============================================================================

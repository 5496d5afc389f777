-------------------------- MODULE TxnInstallProofs --------------------------
(***************************************************************************)
(* TxnInv is kept by the installation of the writes: in place, with the    *)
(* old version spilled, and through a new tuple that replaces the old one. *)
(***************************************************************************)
EXTENDS TxnCollectProofs, TxnInstall

-----------------------------------------------------------------------------
(* What a step leaves to the core that takes it *)

(* A tuple of the write set stays locked while its transaction installs. *)
LEMMA StaysLocked ==
  ASSUME NEW c \in Cores, NEW x \in Tuples, heap'[x].owner = c, heap'[x].alive,
         heap'[x].write_intent, tx'[c].pc \in {"write", "replace"}, tx'[c].order = tx[c].order,
         \E a \in DOMAIN tx[c].order : tx[c].order[a] = x
  PROVE  LockOK(x)'
<1>1. tx'[c].pc \in {"validate", "write", "replace", "undo"}
  BY Zenon
<1>2. \E a \in DOMAIN tx'[c].order : tx'[c].order[a] = x
  BY Zenon
<1> QED BY <1>1, <1>2, Zenon DEF LockOK

(* What is pending for a record is pending for the place in the write set  *)
(* that holds it.                                                          *)
LEMMA StillPending ==
  ASSUME NEW c, NEW a, NEW v, Pending(c, v)', tx'[c].write_set[a] = v
  PROVE  Pending(c, tx[c].write_set[a])'
BY Zenon DEF Pending, Owns, Tentative, Unqueued

(* The pointers of a core that keeps them all stay safe, one by one.       *)
LEMMA PtrsKept ==
  ASSUME TxnTypes, NEW c \in Cores, PtrsOK(c), tx[c].todo = <<>>, tx'[c].todo = tx[c].todo,
         tx'[c].read_set = tx[c].read_set, tx'[c].write_set = tx[c].write_set,
         \A x \in Ptrs(c) : Safe(c, x) => Safe(c, x)',
         \A x \in Ptrs(c), k \in Keys : Leads(k, x) => Leads(k, x)'
  PROVE  PtrsOK(c)'
<1>1. Ptrs(c)' = Ptrs(c)
  BY Zenon DEF Ptrs
<1>2. \A y \in Ptrs(c) : Safe(c, y)'
  BY Zenon DEF PtrsOK
<1>3. ASSUME NEW j \in DOMAIN tx'[c].write_set
      PROVE  Leads(tx[c].write_set[j].key, tx[c].write_set[j].tuple)'
  <2>1. PICK w : w = tx[c].write_set[j]
    OBVIOUS
  <2>2. w.tuple \in Ptrs(c) /\ w.key \in Keys /\ Leads(w.key, w.tuple)
    BY <1>3, <2>1, SetTypes, Zenon DEF Ptrs, PtrsOK
  <2>3. Leads(w.key, w.tuple)'
    BY <2>2, Zenon
  <2>4. tx'[c].write_set[j] = w
    BY <2>1, Zenon
  <2> QED BY <2>3, <2>4, Zenon DEF Leads
<1>4. \A j \in DOMAIN tx'[c].todo : FALSE
  OBVIOUS
<1> QED
  BY <1>1, <1>2, <1>3, <1>4, Zenon DEF PtrsOK

-----------------------------------------------------------------------------
(* What is queued *)

(* Enqueue adds to one queue and to nothing else. *)
LEMMA EnqueueFacts ==
  ASSUME TxnTypes, NEW c \in Cores, NEW es, Enqueue(c, es)
  PROVE  /\ gc'[c].queue = gc[c].queue \cup es
         /\ \A b \in Cores : gc'[b].scratch = gc[b].scratch
         /\ \A b \in Cores : b # c => gc'[b] = gc[b]
         /\ \A b \in Cores : \A e \in Entries(b)' : e \in Entries(b) \/ (b = c /\ e \in es)
<1>1. /\ gc'[c].queue = gc[c].queue \cup es
      /\ \A b \in Cores : gc'[b].scratch = gc[b].scratch
      /\ \A b \in Cores : b # c => gc'[b] = gc[b]
  BY DEF Enqueue, TxnTypes, GcRec
<1> QED BY <1>1, Zenon DEF Entries

-----------------------------------------------------------------------------
(* Record writes *)

(* The write a committing transaction comes to next. *)
NextWrite(c, j) ==
  /\ tx[c].pc = "write" /\ j \in Ahead(tx[c])
  /\ \A a \in Ahead(tx[c]) : j <= a
  /\ ~tx[c].write_set[j].insert =>
       \A a \in Ahead(tx[c]) : a # j => tx[c].write_set[a].tuple # WTuple(c, j)

(* The tuple that c writes next is its own, and is nowhere on its way to   *)
(* be freed.                                                               *)
LEMMA NextWriteFacts ==
  ASSUME TxnInv, NEW c \in Cores, NEW j, NextWrite(c, j)
  PROVE  /\ j \in DOMAIN tx[c].write_set /\ j \in Nat /\ tx[c].write_set # <<>>
         /\ WTuple(c, j) \in Tuples /\ tx[c].write_set[j].key \in Keys
         /\ Pending(c, tx[c].write_set[j])
         /\ heap[WTuple(c, j)].alive /\ heap[WTuple(c, j)].version # MIN_TID
         /\ ~InLimbo(WTuple(c, j)) /\ ~Queued(WTuple(c, j))
         /\ tx[c].write_set[j].insert => heap[WTuple(c, j)].next = None
         /\ tx[c].write_set[j].insert \/ ~heap[WTuple(c, j)].deleting => Unqueued(WTuple(c, j))
<1>1. TxnTypes /\ OwnsOK(c) /\ tx[c].write_set \in Seq(WriteRec) /\ c # None
  BY NoneApart, Zenon DEF TxnInv, TxnTypes, TxRec
<1>2. j \in DOMAIN tx[c].write_set /\ j \in Nat /\ tx[c].write_set # <<>>
  BY <1>1, SetTypes DEF NextWrite
<1>3. PICK x \in Tuples : x = WTuple(c, j)
  BY <1>1, <1>2, SetTypes, Zenon DEF WTuple
<1>4. tx[c].write_set[j].key \in Keys /\ Pending(c, tx[c].write_set[j])
  BY <1>1, SetTypes, Zenon DEF NextWrite, OwnsOK, OwnsWrites
<1>5. heap[x].owner = c /\ heap[x].latest
  BY <1>3, <1>4, Zenon DEF Pending, Owns, WTuple
<1>6. LockOK(x) /\ TupleOK(x) /\ GcOK
  BY DEF TxnInv
<1>7. heap[x].alive /\ heap[x].version # MIN_TID
  BY <1>5, <1>6, Zenon DEF TupleOK
<1>8. ~InLimbo(x) /\ ~Queued(x)
  BY <1>5, <1>6, Zenon DEF GcOK, InLimbo, Queued
<1>9. tx[c].write_set[j].insert => heap[x].next = None /\ Unqueued(x)
  BY <1>3, <1>4, <1>6, Zenon DEF Pending, TupleOK, Tentative, WTuple
<1>10. ~heap[x].deleting => Unqueued(x)
  BY <1>6, <1>8, Zenon DEF GcOK, Unqueued, Queued
<1> QED
  BY <1>2, <1>3, <1>4, <1>7, <1>8, <1>9, <1>10, ZenonT(40)

(* The epoch of a committing writer. *)
LEMMA CommitEpoch ==
  ASSUME TxnInv, NEW c \in Cores, tx[c].pc \in {"write", "replace"}, tx[c].write_set # <<>>
  PROVE  /\ tx[c].tid \in Nat /\ tx[c].tid # MAX_TID /\ tx[c].tid # MIN_TID
         /\ EpochId(tx[c].tid) \in Nat
         /\ EpochId(tx[c].tid) <= current_tick /\ pinned[c] <= EpochId(tx[c].tid)
         /\ to_read_only_tick(EpochId(tx[c].tid)) \in Nat
         /\ to_read_only_tick(EpochId(tx[c].tid)) <= to_read_only_tick(current_tick)
         /\ \A d \in Cores : pinned[d] # 0 =>
              to_read_only_tick(pinned[d] - 1) <= to_read_only_tick(EpochId(tx[c].tid))
         /\ to_read_only_tick(last_tick_inclusive) <= to_read_only_tick(EpochId(tx[c].tid))
         /\ \A e \in gc[c].queue : e.tick <= to_read_only_tick(EpochId(tx[c].tid))
<1>1. /\ tx[c].tid \in 0 .. MAX_TID - 1 /\ current_tick \in Nat /\ last_tick_inclusive \in Nat
      /\ \A d \in Cores : pinned[d] \in Nat
  BY Zenon DEF TxnInv, TxnTypes, TxRec, ClockTypeOK
<1>2. tx[c].tid \in Nat /\ tx[c].tid # MAX_TID
  BY <1>1, MaxTidNat, SMTT(40)
<1>3. EpochOK(c) /\ PcOK(c) /\ PinnedWindow
  BY DEF TxnInv
<1>4. PICK g : g = EpochId(tx[c].tid)
  OBVIOUS
<1>5. g \in Nat /\ g <= current_tick /\ pinned[c] <= g /\ pinned[c] # 0
      /\ \A e \in gc[c].queue : e.tick <= to_read_only_tick(g)
  BY <1>2, <1>3, <1>4, EpochNat, ZenonT(40) DEF EpochOK, PcOK, Fits, InTxn
<1>6. tx[c].tid # MIN_TID
  <2>1. g # 0
    BY <1>1, <1>5
  <2> QED BY <1>4, <2>1, EpochNat, SMTT(40) DEF MIN_TID
<1>7. last_tick_inclusive <= g /\ \A d \in Cores : pinned[d] # 0 => pinned[d] - 1 \in Nat /\ pinned[d] - 1 <= g
  BY <1>1, <1>3, <1>5, SMTT(40) DEF PinnedWindow
<1>8. /\ to_read_only_tick(g) \in Nat
      /\ to_read_only_tick(g) <= to_read_only_tick(current_tick)
      /\ to_read_only_tick(last_tick_inclusive) <= to_read_only_tick(g)
  BY <1>1, <1>5, <1>7, RoMonotone, ZenonT(40)
<1>9. \A d \in Cores : pinned[d] # 0 => to_read_only_tick(pinned[d] - 1) <= to_read_only_tick(g)
  BY <1>5, <1>7, RoMonotone, ZenonT(40)
<1> QED
  BY <1>2, <1>4, <1>5, <1>6, <1>8, <1>9, ZenonT(40)

(* A write in place: x has a new version, the old one may go to the free   *)
(* tuple f, and es is queued.                                              *)
Installs(c, j, x, f, es) ==
  /\ x = WTuple(c, j) /\ f # x
  /\ f \in Tuples => ~heap[f].alive
  /\ \A y \in Tuples : y \notin {x, f} => heap'[y] = heap[y]
  /\ heap'[x].alive = heap[x].alive /\ heap'[x].owner = heap[x].owner
  /\ heap'[x].write_intent = heap[x].write_intent /\ heap'[x].latest = heap[x].latest
  /\ heap'[x].version = tx[c].tid
  /\ IF f = None
     THEN /\ heap'[x].next = heap[x].next
          /\ \/ heap[x].next = None
             \/ to_read_only_tick(EpochId(heap[x].version)) = to_read_only_tick(EpochId(tx[c].tid))
     ELSE /\ heap'[x].next = f
          /\ heap'[f].alive /\ heap'[f].owner = None /\ ~heap'[f].latest
          /\ heap'[f].next = heap[x].next /\ heap'[f].version = heap[x].version
  /\ tx'[c].pc = "write" /\ tx'[c].i = j + 1
  /\ tx'[c].write_set = tx[c].write_set /\ tx'[c].read_set = tx[c].read_set
  /\ tx'[c].order = tx[c].order /\ tx'[c].todo = tx[c].todo /\ tx'[c].head = tx[c].head
  /\ tx'[c].tid = tx[c].tid
  /\ \A d \in Cores : d # c => tx'[d] = tx[d]
  /\ Enqueue(c, es)
  /\ \A e \in es : /\ e.tick = to_read_only_tick(EpochId(tx[c].tid))
                   /\ \/ e.tuple = f /\ e.tuple \in Tuples /\ e.key = None
                      \/ /\ e.tuple = x /\ e.key = tx[c].write_set[j].key
                         /\ heap'[x].deleting
  /\ \A e, g \in es : e.tuple = g.tuple => e = g

(* An install in place leaves every core with what it owns and points to. *)
LEMMA InstallsCore ==
  ASSUME TxnInv, TxnTypes', UNCHANGED <<clockVars, tree, limbo, workload>>, NEW c \in Cores,
         NEW j, NextWrite(c, j), Unqueued(WTuple(c, j)), NEW x \in Tuples,
         NEW f \in Tuples \cup {None}, NEW es, Installs(c, j, x, f, es)
  PROVE  /\ PcOK(c)' /\ EpochOK(c)' /\ SnapOK(c)' /\ OwnsOK(c)' /\ PtrsOK(c)'
         /\ \A d \in Cores : d # c =>
              PcOK(d)' /\ EpochOK(d)' /\ SnapOK(d)' /\ OwnsOK(d)' /\ PtrsOK(d)'
<1> DEFINE ws == tx[c].write_set
<1>a. x = WTuple(c, j) /\ f # x /\ (f \in Tuples => ~heap[f].alive)
  BY Zenon DEF Installs
<1>b. \A y \in Tuples : y \notin {x, f} => heap'[y] = heap[y]
  BY Zenon DEF Installs
<1>c. /\ heap'[x].alive = heap[x].alive /\ heap'[x].owner = heap[x].owner
      /\ heap'[x].write_intent = heap[x].write_intent /\ heap'[x].latest = heap[x].latest
      /\ f \in Tuples => heap'[f].alive /\ heap'[f].owner = None /\ ~heap'[f].latest
  BY NoneApart, Zenon DEF Installs
<1>d. /\ tx'[c].pc = "write" /\ tx'[c].i = j + 1
      /\ tx'[c].write_set = tx[c].write_set /\ tx'[c].read_set = tx[c].read_set
      /\ tx'[c].order = tx[c].order /\ tx'[c].todo = tx[c].todo /\ tx'[c].head = tx[c].head
      /\ tx'[c].tid = tx[c].tid
      /\ \A d \in Cores : d # c => tx'[d] = tx[d]
  BY Zenon DEF Installs
<1>e. \A e \in es : /\ e.tick = to_read_only_tick(EpochId(tx[c].tid))
                    /\ \/ e.tuple = f /\ e.tuple \in Tuples /\ e.key = None
                       \/ e.tuple = x /\ e.key = ws[j].key
  BY Zenon DEF Installs
<1>f. /\ current_tick' = current_tick /\ last_tick_inclusive' = last_tick_inclusive
      /\ pinned' = pinned /\ limbo' = limbo /\ tree' = tree
  BY DEF clockVars
<1>1. TxnTypes /\ PcOK(c) /\ OwnsOK(c) /\ PtrsOK(c) /\ c # None /\ current_tick \in Nat
  <2>1. TxnTypes /\ PcOK(c) /\ OwnsOK(c) /\ PtrsOK(c)
    BY DEF TxnInv
  <2> QED BY <2>1, NoneApart, Ticks, Zenon
<1>g. \A a \in DOMAIN ws : a \in Nat
  <2>1. ws \in Seq(WriteRec)
    BY <1>1, Zenon DEF TxnTypes, TxRec
  <2> QED BY <2>1
<1>2. /\ gc'[c].queue = gc[c].queue \cup es
      /\ \A b \in Cores : gc'[b].scratch = gc[b].scratch
      /\ \A b \in Cores : b # c => gc'[b] = gc[b]
      /\ \A b \in Cores : \A e \in Entries(b)' : e \in Entries(b) \/ (b = c /\ e \in es)
  BY <1>1, EnqueueFacts, Zenon DEF Installs
<1>3. /\ j \in DOMAIN ws /\ j \in Nat /\ ws # <<>> /\ ws[j].key \in Keys
      /\ Pending(c, ws[j]) /\ heap[x].alive
  BY <1>a, NextWriteFacts, Zenon
<1>4. tx[c].pc = "write" /\ ws[j].tuple = x /\ heap[x].owner = c /\ ws[j].key # None
  BY <1>3, <1>a, NoneApart, Zenon DEF NextWrite, Pending, Owns, WTuple
<1>5. f \in Tuples => /\ heap[f].owner = None
                      /\ \A d \in Cores : f \notin Ptrs(d)
                      /\ \A d \in Cores : \A a \in DOMAIN tx[d].write_set :
                           tx[d].write_set[a].tuple # f
  BY <1>a, FreeFacts, ZenonT(40)
<1>6. \A y \in Tuples : y \notin {x, f} /\ Unqueued(y) => Unqueued(y)'
  BY <1>2, <1>e, Zenon DEF Unqueued
<1>7. ASSUME NEW d \in Cores, d # c
      PROVE  PcOK(d)' /\ EpochOK(d)' /\ SnapOK(d)' /\ OwnsOK(d)'
  <2>1. ASSUME NEW a \in Cores, a # c PROVE Spared(a)
    <3>1. \A y \in Tuples : heap[y].owner = a => y # x /\ y # f
      BY <1>4, <1>5, <2>1, NoneApart, ZenonT(40)
    <3>2. \A y \in Tuples : heap'[y].owner = a => y # x /\ y # f
      BY <1>4, <1>c, <2>1, NoneApart, ZenonT(40)
    <3>3. \A y \in Tuples, b \in Cores : heap[y].owner = a =>
            \A e \in Entries(b)' : e.tuple = y => e \in Entries(b)
      BY <1>2, <1>e, <3>1, ZenonT(40)
    <3> QED BY <1>b, <1>d, <1>f, <2>1, <3>1, <3>2, <3>3, ZenonT(40) DEF Spared, InLimbo
  <2>2. current_tick <= current_tick'
    BY <1>1, <1>f, SMTT(40)
  <2> QED BY <1>2, <1>7, <1>f, <2>1, <2>2, OthersKeep, ZenonT(40)
<1>8. PcOK(c)'
  <2>1. tx[c].head = None /\ ~IsSnapshot(c)
    BY <1>1, <1>4, ZenonT(40) DEF PcOK, Fits
  <2> QED BY <1>1, <1>4, <1>d, <1>f, <2>1, DecidesOn, ZenonT(40) DEF PcOK, Deciding, IsSnapshot
<1>9. EpochOK(c)' /\ SnapOK(c)'
  <2>1. /\ EpochId(tx[c].tid) <= current_tick /\ pinned[c] <= EpochId(tx[c].tid)
        /\ to_read_only_tick(EpochId(tx[c].tid)) \in Nat
        /\ \A e \in gc[c].queue : e.tick <= to_read_only_tick(EpochId(tx[c].tid))
    BY <1>3, <1>4, CommitEpoch, ZenonT(40)
  <2>2. PICK r \in Nat : r = to_read_only_tick(EpochId(tx[c].tid))
    BY <2>1, Zenon
  <2>3. r <= r /\ \A e \in gc'[c].queue : e.tick <= r
    <3>1. r <= r
      OBVIOUS
    <3> QED BY <1>2, <1>e, <2>1, <2>2, <3>1, ZenonT(40)
  <2> QED BY <1>d, <1>f, <2>1, <2>2, <2>3, ZenonT(40) DEF EpochOK, SnapOK, Running
<1>10. OwnsOK(c)'
  <2>1. \A a \in Ahead(tx'[c]) : a \in Ahead(tx[c]) /\ a # j
    <3>1. \A a \in DoWrite(ws) : a \in Nat
      BY <1>g, Zenon DEF DoWrite
    <3>2. tx[c].i <= j /\ tx[c].i \in Nat
      BY <1>1, ZenonT(40) DEF NextWrite, Ahead, TxnTypes, TxRec
    <3>3. \A a \in Nat : a >= j + 1 => a >= tx[c].i /\ a # j
      BY <1>3, <3>2, SMTT(40)
    <3> QED BY <1>d, <3>1, <3>3, ZenonT(40) DEF Ahead
  <2>2. ASSUME NEW a \in Ahead(tx'[c]) PROVE Pending(c, ws[a])'
    <3>1. PICK w : w = ws[a]
      BY Zenon
    <3>2. a \in DOMAIN ws /\ w.tuple \in Tuples /\ Pending(c, w) /\ w.tuple # f
      BY <1>1, <1>4, <1>5, <2>1, <2>2, <3>1, SetTypes, ZenonT(40) DEF OwnsOK, OwnsWrites
    <3>3. ASSUME w.tuple # x PROVE Pending(c, w)'
      <4>1. heap'[w.tuple] = heap[w.tuple]
        BY <1>b, <3>2, <3>3, ZenonT(40)
      <4> QED BY <1>6, <3>2, <3>3, <4>1, ZenonT(40) DEF Pending, Owns, Tentative
    <3>4. ASSUME w.tuple = x PROVE Pending(c, w)'
      <4>1. ws[j].insert
        BY <1>a, <2>1, <3>1, <3>4, ZenonT(40) DEF NextWrite
      <4>2. ~w.insert
        <5>1. w.insert => j = a
          <6>1. \A p, q \in DOMAIN ws : ws[q].insert /\ ws[p].tuple = ws[q].tuple => q <= p
            BY <1>1, Zenon DEF PcOK, Fits
          <6>2. a \in Nat
            BY <1>g, <3>2, Zenon
          <6>3. w.insert => j <= a /\ a <= j
            BY <1>3, <1>4, <3>1, <3>2, <3>4, <4>1, <6>1, ZenonT(40)
          <6> QED BY <1>3, <6>2, <6>3, SMTT(40)
        <5> QED BY <2>1, <5>1, Zenon
      <4> QED BY <1>c, <3>2, <3>4, <4>2, ZenonT(40) DEF Pending, Owns
    <3> QED BY <1>d, <3>1, <3>3, <3>4, StillPending, Zenon
  <2> QED
    BY <1>d, <2>2, ZenonT(40) DEF OwnsOK, OwnsInserts, OwnsLocked, OwnsWrites, OwnsUndone,
       OwnsReplaced, OwnsRemoved, Running
<1>11. \A d \in Cores : \A y \in Tuples : y # f /\ Safe(d, y) => Safe(d, y)'
  <2> SUFFICES ASSUME NEW d \in Cores, NEW y \in Tuples, y # f, Safe(d, y) PROVE Safe(d, y)'
    OBVIOUS
  <2>1. heap'[y].alive
    BY <1>b, <1>c, Zenon DEF Safe
  <2>2. \A b \in Cores : \A e \in gc'[b].queue : e.tuple = y /\ e.key = None => e \in gc[b].queue
    BY <1>2, <1>4, <1>e, Zenon
  <2>3. \A b \in Cores : \A e \in gc'[b].scratch : e.tuple = y /\ e.key = None => e \in gc[b].scratch
    BY <1>2, Zenon
  <2> QED BY <1>f, <2>1, <2>2, <2>3, SafeStep, ZenonT(40)
<1>12. \A y \in Tuples, k \in Keys : y # f /\ Leads(k, y) => Leads(k, y)'
  <2>1. \A d \in Cores : \A y : Removing(d, y) => Removing(d, y)'
    BY <1>4, <1>d, Zenon DEF Removing
  <2>2. \A y \in Tuples : y # f => heap'[y].latest = heap[y].latest
    BY <1>b, <1>c, Zenon
  <2> QED BY <2>1, <2>2, Zenon DEF Leads
<1>13. ASSUME NEW d \in Cores, d # c PROVE PtrsOK(d)'
  <2>1. PtrsOK(d) /\ tx'[d] = tx[d] /\ Ptrs(d) \subseteq Tuples /\ f \notin Ptrs(d)
    <3> QED BY <1>5, <1>13, <1>d, SetTypes, ZenonT(40) DEF TxnInv
  <2>2. \A y \in Ptrs(d) : y \in Tuples /\ y # f
    BY <2>1, Zenon
  <2> QED BY <1>1, <1>11, <1>12, <2>1, <2>2, PtrsStep, ZenonT(40)
<1>14. PtrsOK(c)'
  <2>1. \A y \in Ptrs(c) : y \in Tuples /\ y # f
    <3> QED BY <1>1, <1>5, SetTypes, ZenonT(40)
  <2>2. tx[c].todo = <<>>
    BY <1>1, <1>4, ZenonT(40) DEF PcOK, Fits
  <2> QED BY <1>1, <1>11, <1>12, <1>d, <2>1, <2>2, PtrsKept, ZenonT(40)
<1> QED
  BY <1>7, <1>8, <1>9, <1>10, <1>13, <1>14, ZenonT(40)

(* An install in place leaves the tuples, the tree, the queues and the     *)
(* chains in order.                                                        *)
LEMMA InstallsTuples ==
  ASSUME TxnInv, TxnTypes', UNCHANGED <<clockVars, tree, limbo, workload>>, NEW c \in Cores,
         NEW j, NextWrite(c, j), Unqueued(WTuple(c, j)), NEW x \in Tuples,
         NEW f \in Tuples \cup {None}, NEW es, Installs(c, j, x, f, es)
  PROVE  /\ \A y \in Tuples : LockOK(y)' /\ TupleOK(y)' /\ ChainOK(y)'
         /\ TreeOK' /\ GcOK' /\ ChainsApart'
<1> DEFINE r == to_read_only_tick(EpochId(tx[c].tid))
<1>a. x = WTuple(c, j) /\ f # x /\ (f \in Tuples => ~heap[f].alive)
  BY Zenon DEF Installs
<1>b. \A y \in Tuples : y \notin {x, f} => heap'[y] = heap[y]
  BY Zenon DEF Installs
<1>c. /\ heap'[x].alive = heap[x].alive /\ heap'[x].owner = heap[x].owner
      /\ heap'[x].write_intent = heap[x].write_intent /\ heap'[x].latest = heap[x].latest
      /\ heap'[x].version = tx[c].tid
  BY Zenon DEF Installs
<1>d. /\ tx'[c].pc = "write" /\ tx'[c].order = tx[c].order
      /\ \A d \in Cores : d # c => tx'[d] = tx[d]
  BY Zenon DEF Installs
<1>e. /\ \A e \in es : /\ e.tick = r
                       /\ \/ e.tuple = f /\ e.tuple \in Tuples /\ e.key = None
                          \/ /\ e.tuple = x /\ e.key = tx[c].write_set[j].key
                             /\ heap'[x].deleting
      /\ \A e, g \in es : e.tuple = g.tuple => e = g
  BY Zenon DEF Installs
<1>f. /\ current_tick' = current_tick /\ last_tick_inclusive' = last_tick_inclusive
      /\ pinned' = pinned /\ limbo' = limbo /\ tree' = tree
  BY DEF clockVars
<1>g. f \notin Tuples =>
        /\ heap'[x].next = heap[x].next
        /\ heap[x].next = None \/ to_read_only_tick(EpochId(heap[x].version)) = r
  BY Zenon DEF Installs
<1>h. f \in Tuples =>
        /\ heap'[x].next = f
        /\ heap'[f].alive /\ heap'[f].owner = None /\ ~heap'[f].latest
        /\ heap'[f].next = heap[x].next /\ heap'[f].version = heap[x].version
  BY NoneApart, Zenon DEF Installs
<1>1. /\ TxnTypes /\ c # None /\ current_tick \in Nat /\ last_tick_inclusive \in Nat
      /\ \A y \in Tuples : heap[y].next \in Tuples \cup {None}
  <2>1. TxnTypes
    BY DEF TxnInv
  <2>2. \A y \in Tuples : heap[y].next \in Tuples \cup {None}
    BY <2>1, ZenonT(40) DEF TxnTypes, HeapRec
  <2> QED BY <2>1, <2>2, NoneApart, Ticks, Zenon
<1>2. current_tick <= current_tick' /\ last_tick_inclusive <= last_tick_inclusive'
  BY <1>1, <1>f, SMTT(40)
<1>3. /\ gc'[c].queue = gc[c].queue \cup es
      /\ \A b \in Cores : gc'[b].scratch = gc[b].scratch
      /\ \A b \in Cores : b # c => gc'[b] = gc[b]
      /\ \A b \in Cores : \A e \in Entries(b)' : e \in Entries(b) \/ (b = c /\ e \in es)
  BY <1>1, EnqueueFacts, ZenonT(40) DEF Installs
<1>4. /\ j \in DOMAIN tx[c].write_set /\ tx[c].write_set # <<>> /\ tx[c].write_set[j].key \in Keys
      /\ Pending(c, tx[c].write_set[j]) /\ heap[x].alive
      /\ ~InLimbo(x) /\ ~Queued(x) /\ Unqueued(x)
  BY <1>a, NextWriteFacts, ZenonT(40)
<1>5. /\ tx[c].pc = "write" /\ tx[c].write_set[j].tuple = x /\ tx[c].write_set[j].key # None
      /\ heap[x].owner = c /\ heap[x].write_intent /\ heap[x].latest
      /\ tree[tx[c].write_set[j].key] = x
  BY <1>4, <1>a, NoneApart, Zenon DEF NextWrite, Pending, Owns, WTuple
<1>6. f \in Tuples => /\ heap[f].owner = None /\ ~heap[f].latest
                      /\ ~InTree(f) /\ Unqueued(f) /\ ~InLimbo(f)
                      /\ \A y \in Tuples : Live(y) => heap[y].next # f
  BY <1>a, FreeFacts, ZenonT(40)
<1>7. /\ tx[c].tid \in Nat /\ tx[c].tid # MAX_TID /\ tx[c].tid # MIN_TID
      /\ EpochId(tx[c].tid) <= current_tick
      /\ r \in Nat /\ r <= to_read_only_tick(current_tick)
  BY <1>4, <1>5, CommitEpoch, ZenonT(40)
<1> HIDE DEF r
<1>8. \A y : InTree(y)' = InTree(y) /\ InLimbo(y)' = InLimbo(y)
  BY DEF InTree, InLimbo
<1>9. ASSUME NEW y \in Tuples PROVE LockOK(y)'
  <2>1. LockOK(y)
    BY DEF TxnInv
  <2>2. CASE heap[y].owner # c /\ y # f
    <3>1. heap'[y] = heap[y]
      BY <1>5, <1>b, <2>2, ZenonT(40)
    <3> QED BY <1>1, <1>d, <2>1, <2>2, <3>1, LockFrame, ZenonT(40)
  <2>3. CASE y = f
    BY <1>h, <2>3, Zenon DEF LockOK
  <2>4. CASE heap[y].owner = c /\ y # f
    <3>1. heap'[y].owner = c /\ heap'[y].alive = heap[y].alive
          /\ heap'[y].write_intent = heap[y].write_intent
      BY <1>b, <1>c, <2>4, ZenonT(40)
    <3>2. heap[y].alive /\ heap[y].write_intent /\ \E a \in DOMAIN tx[c].order : tx[c].order[a] = y
      BY <1>1, <1>5, <2>1, <2>4, ZenonT(40) DEF LockOK, Removing, Running
    <3> QED BY <1>d, <3>1, <3>2, StaysLocked, ZenonT(40)
  <2> QED BY <2>2, <2>3, <2>4, SMTT(40)
<1>10. ASSUME NEW y \in Tuples PROVE TupleOK(y)'
  <2>1. TupleOK(y) /\ TupleOK(x)
    BY DEF TxnInv
  <2>2. CASE y \notin {x, f}
    <3>1. \A d \in Cores : tx[d].pc \in {"replace", "removed"} => tx'[d] = tx[d]
      BY <1>5, <1>d, ZenonT(40)
    <3>2. heap'[y] = heap[y] /\ (~heap[y].alive => heap[y].owner = None)
      BY <1>b, <2>1, <2>2, ZenonT(40) DEF TupleOK
    <3> QED BY <1>1, <1>2, <1>8, <2>1, <3>1, <3>2, TupleFrame, ZenonT(40)
  <2>3. CASE y = x
    <3>1. InTree(x)'
      BY <1>4, <1>5, ZenonT(40) DEF InTree
    <3> QED BY <1>4, <1>7, <1>c, <1>f, <2>3, <3>1, ZenonT(40) DEF TupleOK
  <2>4. CASE y = f
    BY <1>4, <1>f, <1>h, <2>1, <2>4, ZenonT(40) DEF TupleOK
  <2> QED BY <2>2, <2>3, <2>4, SMTT(40)
<1>11. ASSUME NEW y \in Tuples, y \notin {x, f} PROVE ChainOK(y)' /\ (Live(y)' => Live(y))
  <2>1. ChainOK(y) /\ heap'[y] = heap[y]
    BY <1>11, <1>b, ZenonT(40) DEF TxnInv
  <2>2. ASSUME Live(y) PROVE heap[y].next \in Tuples \ {x, f}
    <3>1. heap[y].next \in Tuples
      BY <1>1, <2>2, ZenonT(40) DEF Live
    <3>2. ~heap[heap[y].next].latest
      BY <2>1, <2>2, Zenon DEF ChainOK
    <3>3. heap[y].next # x
      BY <1>5, <3>2, Zenon
    <3>4. heap[y].next # f
      BY <1>6, <2>2, <3>1, Zenon
    <3> QED BY <3>1, <3>3, <3>4, SMTT(40)
  <2>3. Live(y) => heap'[heap[y].next] = heap[heap[y].next]
    BY <1>b, <2>2, Zenon
  <2>4. InLimbo(heap[y].next)' => InLimbo(heap[y].next)
    BY <2>1, Zenon DEF InLimbo
  <2>5. Live(y) => \A d \in Cores : \A e \in Entries(d)' : e.tuple = heap[y].next => e \in Entries(d)
    BY <1>3, <1>e, <2>2, Zenon
  <2> QED BY <1>1, <1>2, <2>1, <2>3, <2>4, <2>5, ChainFrame, ZenonT(40)
<1>12. ChainOK(x) /\ ~InLimbo(x)
  BY <1>4, Zenon DEF TxnInv
(* The older version behind x, and whoever leads to it now. *)
<1>13. PICK y : y = heap[x].next
  BY Zenon
<1>14. Live(x) => /\ y \in Tuples \ {x, f}
                  /\ heap'[y] = heap[y] /\ heap[y].alive /\ ~heap[y].latest
                  /\ ~InLimbo(y)'
                  /\ \A d \in Cores : \A e \in Entries(d)' : e.tuple = y /\ e.key = None =>
                       to_read_only_tick(EpochId(heap[x].version)) <= e.tick
  <2> SUFFICES ASSUME Live(x)
               PROVE  /\ y \in Tuples \ {x, f}
                      /\ heap'[y] = heap[y] /\ heap[y].alive /\ ~heap[y].latest
                      /\ ~InLimbo(y)'
                      /\ \A d \in Cores : \A e \in Entries(d)' : e.tuple = y /\ e.key = None =>
                           to_read_only_tick(EpochId(heap[x].version)) <= e.tick
    BY Zenon
  <2>1. /\ heap[y].alive /\ ~heap[y].latest /\ ~InLimbo(y)
        /\ \A d \in Cores : \A e \in Entries(d) : e.tuple = y /\ e.key = None =>
             to_read_only_tick(EpochId(heap[x].version)) <= e.tick
    BY <1>12, <1>13, Zenon DEF ChainOK
  <2>2. y \in Tuples
    BY <1>1, <1>13, Zenon DEF Live
  <2>3. y # x /\ y # f
    BY <1>5, <1>6, <1>13, <2>1, <2>2, ZenonT(40)
  <2>4. \A d \in Cores : \A e \in Entries(d)' : e.tuple = y => e \in Entries(d)
    BY <1>3, <1>e, <2>3, ZenonT(40)
  <2> QED BY <1>8, <1>b, <2>1, <2>2, <2>3, <2>4, ZenonT(40)
<1>15. ASSUME f \notin Tuples PROVE (\A z \in Tuples : ChainOK(z)') /\ ChainsApart'
  <2>1. Live(x)' => Live(x) /\ to_read_only_tick(EpochId(heap[x].version)) = r
    BY <1>15, <1>c, <1>f, <1>g, ZenonT(40) DEF Live, r
  <2>2. heap'[x].next = y
    BY <1>13, <1>15, <1>g, ZenonT(40)
  <2>3. ChainOK(x)'
    BY <1>14, <1>c, <2>1, <2>2, ZenonT(40) DEF ChainOK, r
  <2>4. \A z \in Tuples : Live(z)' => Live(z) /\ heap'[z].next = heap[z].next
    BY <1>11, <1>13, <1>15, <1>b, <2>1, <2>2, ZenonT(40)
  <2>5. ChainsApart'
    BY <2>4, ApartFrame, Zenon DEF TxnInv
  <2> QED BY <1>11, <1>15, <2>3, <2>5, Zenon
<1>16. ASSUME f \in Tuples PROVE (\A z \in Tuples : ChainOK(z)') /\ ChainsApart'
  <2>1. Live(f)' => Live(x)
    BY <1>4, <1>16, <1>f, <1>h, ZenonT(40) DEF Live
  <2>2. heap'[f].next = y /\ heap'[f].version = heap[x].version
    BY <1>13, <1>16, <1>h, ZenonT(40)
  <2>3. ChainOK(f)'
    BY <1>14, <2>1, <2>2, ZenonT(40) DEF ChainOK
  <2>4. ChainOK(x)'
    <3>1. heap'[f].alive /\ ~heap'[f].latest /\ ~InLimbo(f)' /\ heap'[x].next = f
      BY <1>6, <1>8, <1>16, <1>h, ZenonT(40)
    <3>2. \A d \in Cores : \A e \in Entries(d)' : e.tuple = f => e.tick = r
      BY <1>3, <1>6, <1>16, <1>e, ZenonT(40) DEF Unqueued
    <3>3. r <= r /\ to_read_only_tick(EpochId(heap'[x].version)) = r
      BY <1>7, <1>c, SMTT(40) DEF r
    <3> QED BY <3>1, <3>2, <3>3, ZenonT(40) DEF ChainOK
  <2>5. ChainsApart'
    <3>1. ChainsApart
      BY DEF TxnInv
    <3>2. ASSUME NEW z \in Tuples \ {x}, Live(z)'
          PROVE  heap'[z].next # f
      <4>1. CASE z = f
        BY <1>14, <2>1, <2>2, <3>2, <4>1, ZenonT(40)
      <4>2. CASE z # f
        BY <1>6, <1>11, <1>16, <1>b, <3>2, <4>2, ZenonT(40)
      <4> QED BY <4>1, <4>2, ZenonT(40)
    <3>3. ASSUME NEW z \in Tuples \ {x, f}, Live(z)', Live(f)'
          PROVE  heap'[z].next # y
      BY <1>11, <1>13, <1>b, <2>1, <3>1, <3>3, ZenonT(40) DEF ChainsApart
    <3>4. ASSUME NEW z \in Tuples \ {x, f}, Live(z)', NEW u \in Tuples \ {x, f}, Live(u)',
                 heap'[z].next = heap'[u].next
          PROVE  z = u
      BY <1>11, <1>b, <3>1, <3>4, ZenonT(40) DEF ChainsApart
    <3>5. heap'[x].next = f
      BY <1>16, <1>h, ZenonT(40)
    <3> QED BY <2>2, <3>2, <3>3, <3>4, <3>5, SMTT(40) DEF ChainsApart
  <2> QED BY <1>11, <2>3, <2>4, <2>5, ZenonT(40)
<1>17. TreeOK'
  <2>1. TreeOK /\ \A k \in Keys : tree[k] \in Tuples \cup {None}
    BY Zenon DEF TxnInv, TxnTypes
  <2>2. \A d \in Cores : tx[d].pc = "replace" => tx'[d] = tx[d] /\ Replacing(d)' = Replacing(d)
    BY <1>5, <1>d, ZenonT(40) DEF Replacing
  <2>3. \A k \in Keys : tree[k] # f \/ f = None
    BY <1>6, Zenon DEF InTree
  <2>4. \A k \in Keys : tree[k] # None => /\ heap'[tree[k]].alive = heap[tree[k]].alive
                                          /\ heap'[tree[k]].latest = heap[tree[k]].latest
    BY <1>b, <1>c, <2>1, <2>3, ZenonT(40)
  <2> QED BY <2>1, <2>2, <2>4, SMTT(40) DEF TreeOK
<1>18. GcOK'
  <2>1. GcOK /\ \A b \in Cores : \A e \in Entries(b) : e.tuple \in Tuples
    BY SMTT(40) DEF TxnInv, TxnTypes, GcRec, GcEntry, Entries
  <2>2. \A b \in Cores : \A e \in Entries(b) : e.tuple \notin {x, f}
    BY <1>4, <1>6, <2>1, ZenonT(40) DEF Unqueued
  <2>3. \A b \in Cores : gc'[b].queue \cap gc'[b].scratch = {}
    <3>1. \A b \in Cores : gc[b].queue \cap gc[b].scratch = {}
      BY <2>1, Zenon DEF GcOK
    <3>2. \A e \in es : e.tuple \in {x, f}
      BY <1>e, Zenon
    <3>3. \A e \in es : e \notin gc[c].scratch
      BY <2>2, <3>2, SMTT(40) DEF Entries
    <3> QED BY <1>3, <3>1, <3>3, Zenon
  <2>4. \A e \in es : EntryOK(e)'
    <3>1. \A e \in es : e.tuple = x => EntryOK(e)'
      BY <1>4, <1>5, <1>8, <1>a, <1>c, <1>e, ZenonT(40) DEF EntryOK
    <3>2. \A e \in es : e.tuple # x => EntryOK(e)'
      BY <1>6, <1>8, <1>e, <1>h, ZenonT(40) DEF EntryOK
    <3> QED BY <3>1, <3>2, Zenon
  <2>5. \A e \in es : e.tick <= to_read_only_tick(current_tick')
    BY <1>7, <1>e, <1>f, ZenonT(40)
  <2>6. \A e \in es : \A b \in Cores : \A g \in Entries(b)' : g.tuple = e.tuple => b = c /\ g = e
    <3> QED BY <1>3, <1>e, <2>2, SMTT(40)
  <2>7. \A b \in Cores : \A e \in Entries(b) : EntryOK(e) => EntryOK(e)'
    BY <1>8, <1>b, <2>1, <2>2, ZenonT(40) DEF EntryOK
  <2>8. \A l \in limbo : l.tuple \in Tuples \ {x, f}
    BY <1>1, <1>4, <1>6, ZenonT(40) DEF TxnTypes, LimboRec, InLimbo
  <2>9. /\ \A l, m \in limbo' : l.tuple = m.tuple => l = m
        /\ \A l \in limbo' : heap'[l.tuple].alive /\ ~heap'[l.tuple].latest /\ ~InTree(l.tuple)'
    BY <1>8, <1>b, <2>1, <2>8, ZenonT(40) DEF GcOK
  <2>10. \A e \in es : /\ EntryOK(e)' /\ e.tick <= to_read_only_tick(current_tick')
                      /\ \A b \in Cores : \A g \in Entries(b)' : g.tuple = e.tuple => b = c /\ g = e
    BY <2>4, <2>5, <2>6, Zenon
  <2>11. /\ \A b \in Cores : \A e \in gc'[b].scratch : e \in gc[b].scratch
         /\ \A b \in Cores : \A e \in Entries(b)' : e \in Entries(b) \/ (b = c /\ e \in es)
    BY <1>3, Zenon
  <2>12. TxnTypes /\ GcOK
    BY <1>1, <2>1, Zenon
  <2> QED BY <1>2, <2>3, <2>7, <2>9, <2>10, <2>11, <2>12, GcStep, ZenonT(40)
<1> QED
  BY <1>9, <1>10, <1>15, <1>16, <1>17, <1>18, ZenonT(40)

(* What a write queues: the superseded version, or the deletion itself, at *)
(* the tick of the commit.                                                 *)
LEMMA CollectibleFacts ==
  ASSUME NEW c, NEW x, NEW f, NEW w, NEW hp, f # x
  PROVE  /\ \A e \in Collectible(c, x, f, w, hp) :
              /\ e.tick = to_read_only_tick(EpochId(tx[c].tid))
              /\ \/ e.tuple = f /\ f # None /\ ~hp[f].deleting /\ e.key = None
                 \/ e.tuple = x /\ e.key = w.key /\ w.val = None
         /\ \A e, g \in Collectible(c, x, f, w, hp) : e.tuple = g.tuple => e = g
<1>1. PICK r : r = to_read_only_tick(EpochId(tx[c].tid))
  OBVIOUS
<1>2. \A e \in Collectible(c, x, f, w, hp) :
         \/ e = [tuple |-> f, key |-> None, tick |-> r] /\ f # None /\ ~hp[f].deleting
         \/ e = [tuple |-> x, key |-> w.key, tick |-> r] /\ w.val = None
  BY <1>1, Zenon DEF Collectible
<1> QED BY <1>1, <1>2

(* The end of an insert, a write in place and a spill preserve the         *)
(* invariant.                                                              *)
LEMMA WriteStep ==
  ASSUME TxnInv, TxnTypes', UNCHANGED <<clockVars, tree, limbo, workload>>, NEW c \in Cores,
         NEW j, NextWrite(c, j), WInsert(c, j) \/ WInPlace(c, j) \/ WSpill(c, j),
         CanAlloc => Fresh \in Tuples /\ ~heap[Fresh].alive
  PROVE  TxnInv'
<1>1. PICK w : w = tx[c].write_set[j]
  OBVIOUS
<1>2. PICK x \in Tuples : x = WTuple(c, j)
  BY NextWriteFacts, Zenon
<1>3. /\ Pending(c, w) /\ heap[x].alive /\ w.tuple = x
      /\ w.insert => heap[x].next = None
      /\ w.insert \/ ~heap[x].deleting => Unqueued(x)
      /\ heap[x].version # MIN_TID
  BY <1>1, <1>2, NextWriteFacts, ZenonT(40) DEF WTuple
<1>4. TxnTypes /\ tx[c] \in TxRec /\ heap[x] \in HeapRec
  BY Zenon DEF TxnInv, TxnTypes
<1>5. tx[c].pc = "write" /\ x # None
  BY NoneApart, Zenon DEF NextWrite
<1>6. Become(c, [tx[c] EXCEPT !.i = j + 1])
  BY Zenon DEF WInsert, WInPlace, WSpill
<1>7. /\ tx'[c].pc = "write" /\ tx'[c].i = j + 1
      /\ tx'[c].write_set = tx[c].write_set /\ tx'[c].read_set = tx[c].read_set
      /\ tx'[c].order = tx[c].order /\ tx'[c].todo = tx[c].todo /\ tx'[c].head = tx[c].head
      /\ tx'[c].tid = tx[c].tid
      /\ \A d \in Cores : d # c => tx'[d] = tx[d]
  BY <1>4, <1>5, <1>6, ZenonT(40) DEF TxnTypes, Become, TxRec
<1>8. Unqueued(x)
  BY <1>1, <1>2, <1>3, Zenon DEF WInsert, WInPlace, WSpill
<1>9. PICK n : n = NewRec(c, j)
  OBVIOUS
<1>10. /\ n.alive = heap[x].alive /\ n.owner = heap[x].owner
       /\ n.write_intent = heap[x].write_intent /\ n.latest = heap[x].latest
       /\ n.version = tx[c].tid /\ n.next = heap[x].next /\ n.deleting = (w.val = None)
       /\ "next" \in DOMAIN n
  BY <1>1, <1>2, <1>4, <1>9, ZenonT(40) DEF NewRec, HeapRec
<1>11. \E f \in Tuples \cup {None} : \E es : Installs(c, j, x, f, es)
  <2>1. CASE WInsert(c, j)
    <3>1. heap' = [heap EXCEPT ![x] = [heap[x] EXCEPT !.version = tx[c].tid]] /\ w.insert /\ UNCHANGED gc
      BY <1>1, <1>2, <2>1, Zenon DEF WInsert
    <3>2. /\ heap'[x].alive = heap[x].alive /\ heap'[x].owner = heap[x].owner
          /\ heap'[x].write_intent = heap[x].write_intent /\ heap'[x].latest = heap[x].latest
          /\ heap'[x].version = tx[c].tid /\ heap'[x].next = heap[x].next
          /\ \A y \in Tuples : y # x => heap'[y] = heap[y]
      BY <1>4, <3>1, ZenonT(40) DEF TxnTypes, HeapRec
    <3>3. Enqueue(c, {})
      BY <1>4, <3>1 DEF Enqueue, TxnTypes, GcRec
    <3>4. Installs(c, j, x, None, {})
      BY <1>2, <1>3, <1>7, <3>1, <3>2, <3>3, NoneApart, ZenonT(40) DEF Installs
    <3> QED BY <3>4, Zenon
  <2>2. CASE WInPlace(c, j)
    <3>1. PICK es : es = Collectible(c, x, None, w, heap')
      OBVIOUS
    <3>2. /\ heap' = [heap EXCEPT ![x] = n] /\ Enqueue(c, es)
          /\ can_overwrite_record_tid(heap[x].version, tx[c].tid)
      BY <1>1, <1>2, <1>9, <2>2, <3>1, ZenonT(40) DEF WInPlace
    <3>3. heap'[x] = n /\ \A y \in Tuples : y # x => heap'[y] = heap[y]
      BY <3>2, Zenon DEF TxnTypes
    <3>4. /\ \A e \in es : /\ e.tick = to_read_only_tick(EpochId(tx[c].tid))
                           /\ e.tuple = x /\ e.key = w.key /\ w.val = None
          /\ \A e, g \in es : e.tuple = g.tuple => e = g
      BY <1>5, <3>1, CollectibleFacts, SMTT(40)
    <3>5. to_read_only_tick(EpochId(heap[x].version)) = to_read_only_tick(EpochId(tx[c].tid))
      BY <1>3, <3>2, ZenonT(40) DEF can_overwrite_record_tid
    <3>6. \A e \in es : /\ e.tick = to_read_only_tick(EpochId(tx[c].tid))
                        /\ e.tuple = x /\ e.key = tx[c].write_set[j].key /\ heap'[x].deleting
      BY <1>1, <1>10, <3>3, <3>4, Zenon
    <3>7. Installs(c, j, x, None, es)
      BY <1>2, <1>5, <1>7, <1>10, <3>2, <3>3, <3>4, <3>5, <3>6, NoneApart, ZenonT(40) DEF Installs
    <3> QED BY <3>7, Zenon
  <2>3. CASE WSpill(c, j)
    <3>1. PICK f \in Tuples : f = Fresh /\ ~heap[f].alive
      BY <2>3, Zenon DEF WSpill
    <3>2. PICK es : es = Collectible(c, x, f, w, heap')
      OBVIOUS
    <3>3. PICK s : s = [Release(heap[x]) EXCEPT !.latest = FALSE]
      BY Zenon
    <3>4. heap' = [heap EXCEPT ![f] = s, ![x] = [n EXCEPT !.next = f]] /\ Enqueue(c, es)
      BY <1>1, <1>2, <1>9, <2>3, <3>1, <3>2, <3>3, ZenonT(40) DEF WSpill
    <3>5. f # x /\ f # None
      BY <1>3, <3>1, NoneApart, Zenon
    <3>6. /\ heap'[f] = s /\ heap'[x] = [n EXCEPT !.next = f]
          /\ \A y \in Tuples : y \notin {x, f} => heap'[y] = heap[y]
      BY <3>4, <3>5, ZenonT(40) DEF TxnTypes
    <3>7. /\ s.alive /\ s.owner = None /\ ~s.latest /\ s.next = heap[x].next
          /\ s.version = heap[x].version
      BY <1>3, <1>4, <3>3, ZenonT(40) DEF Release, HeapRec
    <3>8. /\ \A e \in es : /\ e.tick = to_read_only_tick(EpochId(tx[c].tid))
                           /\ \/ e.tuple = f /\ e.key = None
                              \/ e.tuple = x /\ e.key = w.key /\ w.val = None
          /\ \A e, g \in es : e.tuple = g.tuple => e = g
      BY <3>2, <3>5, CollectibleFacts, SMTT(40)
    <3>9. /\ heap'[x].alive = heap[x].alive /\ heap'[x].owner = heap[x].owner
          /\ heap'[x].write_intent = heap[x].write_intent /\ heap'[x].latest = heap[x].latest
          /\ heap'[x].version = tx[c].tid /\ heap'[x].next = f
          /\ heap'[x].deleting = (w.val = None)
      BY <1>10, <3>6, SMTT(40)
    <3>10. /\ \A e \in es : /\ e.tick = to_read_only_tick(EpochId(tx[c].tid))
                            /\ \/ e.tuple = f /\ e.tuple \in Tuples /\ e.key = None
                               \/ /\ e.tuple = x /\ e.key = tx[c].write_set[j].key
                                  /\ heap'[x].deleting
           /\ \A e, g \in es : e.tuple = g.tuple => e = g
      BY <1>1, <3>8, <3>9, Zenon
    <3>11. /\ heap'[x].next = f
           /\ heap'[f].alive /\ heap'[f].owner = None /\ ~heap'[f].latest
           /\ heap'[f].next = heap[x].next /\ heap'[f].version = heap[x].version
      BY <3>6, <3>7, <3>9, Zenon
    <3>12. Enqueue(c, es) /\ \A y \in Tuples : y \notin {x, f} => heap'[y] = heap[y]
      BY <3>4, <3>6, Zenon
    <3>13. Installs(c, j, x, f, es)
      BY <1>2, <1>7, <3>1, <3>5, <3>9, <3>10, <3>11, <3>12, ZenonT(40) DEF Installs
    <3> QED BY <3>13, Zenon
  <2> QED BY <2>1, <2>2, <2>3, ZenonT(40)
<1>12. Unqueued(WTuple(c, j)) /\ TxnTypes' /\ PinnedWindow'
  BY <1>2, <1>8, ZenonT(40) DEF TxnInv, PinnedWindow, clockVars
<1> QED
  BY <1>11, <1>12, InstallsCore, InstallsTuples, ZenonT(40) DEF TxnInv

(* c puts the new tuple f in front of x, out of the tree's sight. *)
Chains(c, j, x, f) ==
  /\ x = WTuple(c, j) /\ f # x /\ ~heap[f].alive /\ ~tx[c].write_set[j].insert
  /\ \A y \in Tuples : y \notin {x, f} => heap'[y] = heap[y]
  /\ heap'[x].alive = heap[x].alive /\ heap'[x].owner = heap[x].owner
  /\ heap'[x].write_intent = heap[x].write_intent /\ ~heap'[x].latest
  /\ heap'[x].version = heap[x].version /\ heap'[x].next = heap[x].next
  /\ heap'[x].deleting = heap[x].deleting
  /\ heap'[f].alive /\ heap'[f].owner = c /\ heap'[f].write_intent /\ heap'[f].latest
  /\ heap'[f].deleting = (tx[c].write_set[j].val = None)
  /\ heap'[f].next = x /\ heap'[f].version = tx[c].tid
  /\ tx'[c].pc = "replace" /\ tx'[c].i = j + 1 /\ tx'[c].head = f
  /\ tx'[c].write_set = tx[c].write_set /\ tx'[c].read_set = tx[c].read_set
  /\ tx'[c].order = tx[c].order /\ tx'[c].todo = tx[c].todo /\ tx'[c].tid = tx[c].tid
  /\ \A d \in Cores : d # c => tx'[d] = tx[d]

(* A core that has put a tuple in front of another goes on to replace it. *)
LEMMA ReplacesOn ==
  ASSUME NEW t, NEW u, NEW p, NEW r, Fits(t, p, r), t.pc = "write", u.pc = "replace",
         u.write_set = t.write_set, u.read_set = t.read_set, u.order = t.order,
         u.todo = t.todo, u.head \in Tuples, u.i - 1 \in DOMAIN t.write_set,
         \A a \in Ahead(u) : t.write_set[a].tuple # t.write_set[u.i - 1].tuple
  PROVE  Fits(u, p, r)
BY DEF Fits, Running, Deciding, InTxn

(* The new tuple leaves every core with what it owns and points to. *)
LEMMA ChainsCore ==
  ASSUME TxnInv, TxnTypes', UNCHANGED <<clockVars, tree, limbo, gc, workload>>, NEW c \in Cores,
         NEW j, NextWrite(c, j), NEW x \in Tuples, NEW f \in Tuples, Chains(c, j, x, f)
  PROVE  /\ PcOK(c)' /\ EpochOK(c)' /\ SnapOK(c)' /\ OwnsOK(c)' /\ PtrsOK(c)'
         /\ \A d \in Cores : d # c =>
              PcOK(d)' /\ EpochOK(d)' /\ SnapOK(d)' /\ OwnsOK(d)' /\ PtrsOK(d)'
<1> DEFINE ws == tx[c].write_set
<1>a. x = WTuple(c, j) /\ f # x /\ ~heap[f].alive /\ ~ws[j].insert
  BY Zenon DEF Chains
<1>b. \A y \in Tuples : y \notin {x, f} => heap'[y] = heap[y]
  BY Zenon DEF Chains
<1>c. /\ heap'[x].alive = heap[x].alive /\ heap'[x].owner = heap[x].owner
      /\ heap'[x].write_intent = heap[x].write_intent /\ ~heap'[x].latest
      /\ heap'[x].deleting = heap[x].deleting
      /\ heap'[f].alive /\ heap'[f].owner = c /\ heap'[f].write_intent /\ heap'[f].latest
      /\ heap'[f].deleting = (ws[j].val = None)
      /\ heap'[f].next = x /\ heap'[f].version = tx[c].tid
  BY Zenon DEF Chains
<1>d. /\ tx'[c].pc = "replace" /\ tx'[c].i = j + 1 /\ tx'[c].head = f
      /\ tx'[c].write_set = tx[c].write_set /\ tx'[c].read_set = tx[c].read_set
      /\ tx'[c].order = tx[c].order /\ tx'[c].todo = tx[c].todo /\ tx'[c].tid = tx[c].tid
      /\ \A d \in Cores : d # c => tx'[d] = tx[d]
  BY Zenon DEF Chains
<1>e. /\ current_tick' = current_tick /\ last_tick_inclusive' = last_tick_inclusive
      /\ pinned' = pinned /\ limbo' = limbo /\ tree' = tree /\ gc' = gc
  BY DEF clockVars
<1>1. TxnTypes /\ PcOK(c) /\ EpochOK(c) /\ OwnsOK(c) /\ PtrsOK(c) /\ c # None /\ current_tick \in Nat
  <2>1. TxnTypes /\ PcOK(c) /\ EpochOK(c) /\ OwnsOK(c) /\ PtrsOK(c)
    BY DEF TxnInv
  <2> QED BY <2>1, NoneApart, Ticks, Zenon
<1>2. /\ j \in DOMAIN ws /\ j \in Nat /\ ws # <<>> /\ ws[j].key \in Keys
      /\ Pending(c, ws[j]) /\ heap[x].alive
      /\ ~InLimbo(x) /\ ~Queued(x) /\ (~heap[x].deleting => Unqueued(x))
  BY <1>a, NextWriteFacts, ZenonT(40)
<1>3. /\ tx[c].pc = "write" /\ ws[j].tuple = x /\ heap[x].owner = c /\ heap[x].write_intent
      /\ tree[ws[j].key] = x
  BY <1>2, <1>a, Zenon DEF NextWrite, Pending, Owns, WTuple
<1>4. /\ heap[f].owner = None /\ ~InTree(f) /\ Unqueued(f)
      /\ \A d \in Cores : f \notin Ptrs(d)
      /\ \A a \in DOMAIN ws : ws[a].tuple # f
  BY <1>a, FreeFacts, Zenon
<1>5. \A a \in Ahead(tx'[c]) : a \in Ahead(tx[c]) /\ ws[a].tuple # x
  <2>1. ws \in Seq(WriteRec)
    BY <1>1, Zenon DEF TxnTypes, TxRec
  <2>2. \A a \in DoWrite(ws) : a \in Nat
    BY <2>1 DEF DoWrite
  <2>3. tx[c].i <= j /\ tx[c].i \in Nat
    BY <1>1, Zenon DEF NextWrite, Ahead, TxnTypes, TxRec
  <2>4. \A a \in Nat : a >= j + 1 => a >= tx[c].i /\ a # j
    BY <1>2, <2>3, SMTT(40)
  <2>5. \A a \in Ahead(tx'[c]) : a \in Ahead(tx[c]) /\ a # j
    BY <1>d, <2>2, <2>4, ZenonT(40) DEF Ahead
  <2> QED BY <1>a, <2>5, ZenonT(40) DEF NextWrite
<1>6. ASSUME NEW d \in Cores, d # c
      PROVE  PcOK(d)' /\ EpochOK(d)' /\ SnapOK(d)' /\ OwnsOK(d)'
  <2>1. ASSUME NEW a \in Cores, a # c PROVE Spared(a)
    <3>1. \A y \in Tuples : heap[y].owner = a \/ heap'[y].owner = a => y # x /\ y # f
      BY <1>3, <1>4, <1>c, <2>1, NoneApart, ZenonT(40)
    <3> QED BY <1>b, <1>d, <2>1, <3>1, ZenonT(40) DEF Spared, InLimbo, Entries
  <2> QED BY <1>1, <1>6, <1>e, <2>1, OthersKeep, SMTT(40)
<1>i. tx'[c].i - 1 = j
  BY <1>2, <1>d, SMTT(40)
<1>7. PcOK(c)'
  <2>1. \A a \in Ahead(tx'[c]) : ws[a].tuple # ws[j].tuple
    BY <1>3, <1>5, ZenonT(40)
  <2>2. /\ tx'[c].i - 1 \in DOMAIN ws /\ tx'[c].head \in Tuples
        /\ \A a \in Ahead(tx'[c]) : ws[a].tuple # ws[tx'[c].i - 1].tuple
    BY <1>2, <1>d, <1>i, <2>1, ZenonT(40)
  <2>3. Fits(tx'[c], pinned[c], IsSnapshot(c))
    BY <1>1, <1>3, <1>d, <2>2, ReplacesOn, ZenonT(40) DEF PcOK
  <2> QED BY <1>e, <2>3, Zenon DEF PcOK, IsSnapshot
<1>8. EpochOK(c)' /\ SnapOK(c)'
  BY <1>1, <1>3, <1>d, <1>e, ZenonT(40) DEF EpochOK, SnapOK, Running
<1>9. OwnsOK(c)'
  <2>1. ASSUME NEW a \in Ahead(tx'[c]) PROVE Pending(c, ws[a])'
    <3>1. PICK v : v = ws[a]
      BY Zenon
    <3>2. v.tuple \in Tuples /\ Pending(c, v) /\ v.tuple # f /\ v.tuple # x
      BY <1>1, <1>3, <1>4, <1>5, <2>1, <3>1, SetTypes, ZenonT(40) DEF OwnsOK, OwnsWrites
    <3>3. Pending(c, v)'
      BY <1>b, <3>2, PendingStays, ZenonT(40)
    <3> QED BY <1>d, <3>1, <3>3, StillPending, Zenon
  <2>2. Replacing(c)' = ws[j]
    BY <1>d, <1>i, ZenonT(40) DEF Replacing
  <2>3. OwnsReplaced(c)'
    <3>1. ~InTree(f)' /\ Unqueued(f)' /\ ~InLimbo(x)' /\ ~Queued(x)' /\ (~heap[x].deleting => Unqueued(x)')
      BY <1>2, <1>4, ZenonT(40) DEF InTree, Unqueued, InLimbo, Queued, Entries
    <3>2. PICK w : w = ws[j]
      OBVIOUS
    <3>3. /\ w.tuple = x /\ Replacing(c)' = w /\ tree'[w.key] = x
          /\ heap'[f].deleting = (w.val = None)
      BY <1>3, <1>c, <2>2, <3>2, ZenonT(40)
    <3>4. ~InTree(tx[c].head)' /\ Unqueued(tx[c].head)'
      BY <1>d, <3>1, Zenon
    <3>5. /\ ~Queued(Replacing(c).tuple)' /\ ~InLimbo(Replacing(c).tuple)'
          /\ ~heap[x].deleting => Unqueued(Replacing(c).tuple)'
      BY <3>1, <3>3, SMTT(40)
    <3> QED BY <1>2, <1>3, <1>c, <1>d, <3>3, <3>4, <3>5, ZenonT(40) DEF OwnsReplaced
  <2> QED
    BY <1>d, <2>1, <2>3, ZenonT(40) DEF OwnsOK, OwnsInserts, OwnsLocked, OwnsWrites, OwnsUndone,
       OwnsRemoved, Running
<1>10. \A d \in Cores : \A y \in Tuples : y # f /\ Safe(d, y) => Safe(d, y)'
  BY <1>b, <1>c, <1>e, SMTT(40) DEF Safe
<1>11. \A y \in Tuples, k \in Keys : y # f /\ Leads(k, y) => Leads(k, y)'
  <2>1. \A d \in Cores : \A y : Removing(d, y) => Removing(d, y)'
    BY <1>3, <1>d, ZenonT(40) DEF Removing
  <2>2. \A y \in Tuples : y # f => (heap'[y].latest => heap[y].latest)
    BY <1>b, <1>c, Zenon
  <2> QED BY <2>1, <2>2, Zenon DEF Leads
<1>12. ASSUME NEW d \in Cores, d # c PROVE PtrsOK(d)'
  <2>1. PtrsOK(d) /\ tx'[d] = tx[d] /\ \A y \in Ptrs(d) : y \in Tuples /\ y # f
    BY <1>4, <1>12, <1>d, SetTypes, ZenonT(40) DEF TxnInv
  <2> QED BY <1>1, <1>10, <1>11, <2>1, PtrsStep, ZenonT(40)
<1>13. PtrsOK(c)'
  <2>1. \A y \in Ptrs(c) : y \in Tuples /\ y # f
    BY <1>1, <1>4, SetTypes, Zenon
  <2>2. tx[c].todo = <<>>
    BY <1>1, <1>3, Zenon DEF PcOK, Fits
  <2> QED BY <1>1, <1>10, <1>11, <1>d, <2>1, <2>2, PtrsKept, ZenonT(40)
<1> QED
  BY <1>6, <1>7, <1>8, <1>9, <1>12, <1>13, ZenonT(40)

(* The new tuple leaves the tuples, the tree, the queues and the chains in *)
(* order.                                                                  *)
LEMMA ChainsTuples ==
  ASSUME TxnInv, TxnTypes', UNCHANGED <<clockVars, tree, limbo, gc, workload>>, NEW c \in Cores,
         NEW j, NextWrite(c, j), NEW x \in Tuples, NEW f \in Tuples, Chains(c, j, x, f)
  PROVE  /\ \A y \in Tuples : LockOK(y)' /\ TupleOK(y)' /\ ChainOK(y)'
         /\ TreeOK' /\ GcOK' /\ ChainsApart'
<1> DEFINE ws == tx[c].write_set
<1>a. /\ x = WTuple(c, j) /\ f # x /\ ~heap[f].alive
      /\ \A y \in Tuples : y \notin {x, f} => heap'[y] = heap[y]
  BY Zenon DEF Chains
<1>b. /\ heap'[x].alive = heap[x].alive /\ heap'[x].owner = heap[x].owner
      /\ heap'[x].write_intent = heap[x].write_intent /\ ~heap'[x].latest
      /\ heap'[x].version = heap[x].version /\ heap'[x].next = heap[x].next
      /\ heap'[x].deleting = heap[x].deleting
  BY Zenon DEF Chains
<1>c. /\ heap'[f].alive /\ heap'[f].owner = c /\ heap'[f].write_intent /\ heap'[f].latest
      /\ heap'[f].next = x /\ heap'[f].version = tx[c].tid
  BY Zenon DEF Chains
<1>d. /\ tx'[c].pc = "replace" /\ tx'[c].i = j + 1 /\ tx'[c].head = f
      /\ tx'[c].write_set = tx[c].write_set /\ tx'[c].order = tx[c].order
      /\ \A d \in Cores : d # c => tx'[d] = tx[d]
  BY Zenon DEF Chains
<1>1. /\ TxnTypes /\ c # None /\ current_tick \in Nat /\ last_tick_inclusive \in Nat
      /\ \A y \in Tuples : heap[y].next \in Tuples \cup {None}
  <2>1. TxnTypes
    BY DEF TxnInv
  <2>2. \A y \in Tuples : heap[y].next \in Tuples \cup {None}
    BY <2>1, Zenon DEF TxnTypes, HeapRec
  <2> QED BY <2>1, <2>2, NoneApart, Ticks, Zenon
<1>e. /\ current_tick' = current_tick /\ last_tick_inclusive' = last_tick_inclusive
      /\ pinned' = pinned /\ limbo' = limbo /\ tree' = tree /\ gc' = gc
      /\ current_tick <= current_tick' /\ last_tick_inclusive <= last_tick_inclusive'
  BY <1>1 DEF clockVars
<1>2. /\ j \in DOMAIN ws /\ j \in Nat /\ ws # <<>> /\ ws[j].key \in Keys
      /\ Pending(c, ws[j]) /\ heap[x].alive /\ ~InLimbo(x) /\ ~Queued(x)
  BY <1>a, NextWriteFacts, Zenon
<1>3. /\ tx[c].pc = "write" /\ ws[j].tuple = x /\ heap[x].owner = c /\ heap[x].write_intent
      /\ heap[x].latest /\ tree[ws[j].key] = x
  BY <1>2, <1>a, ZenonT(40) DEF NextWrite, Pending, Owns, WTuple
<1>4. /\ heap[f].owner = None /\ ~heap[f].latest
      /\ ~InTree(f) /\ Unqueued(f) /\ ~InLimbo(f)
      /\ \A y \in Tuples : Live(y) => heap[y].next # f
  BY <1>a, FreeFacts, ZenonT(40)
<1>5. /\ tx[c].tid \in Nat /\ tx[c].tid # MAX_TID /\ tx[c].tid # MIN_TID
      /\ EpochId(tx[c].tid) <= current_tick
  BY <1>2, <1>3, CommitEpoch, ZenonT(40)
<1>6. \A y : InTree(y)' = InTree(y) /\ InLimbo(y)' = InLimbo(y)
  BY DEF InTree, InLimbo
<1>7. Replacing(c)'.tuple = x
  <2>1. tx'[c].i - 1 = j
    BY <1>2, <1>d, SMTT(40)
  <2> QED BY <1>3, <1>d, <2>1, ZenonT(40) DEF Replacing
<1>8. ASSUME NEW y \in Tuples PROVE LockOK(y)'
  <2>1. LockOK(y)
    BY DEF TxnInv
  <2>2. CASE heap[y].owner # c /\ y # f
    <3>1. heap'[y] = heap[y]
      BY <1>3, <1>a, <2>2, ZenonT(40)
    <3> QED BY <1>1, <1>d, <2>1, <2>2, <3>1, LockFrame, ZenonT(40)
  <2>3. CASE y = f
    BY <1>c, <1>d, <2>3, ZenonT(40) DEF LockOK
  <2>4. CASE heap[y].owner = c /\ y # f
    <3>1. heap'[y].owner = c /\ heap'[y].alive = heap[y].alive
          /\ heap'[y].write_intent = heap[y].write_intent
      BY <1>a, <1>b, <2>4, ZenonT(40)
    <3>2. heap[y].alive /\ heap[y].write_intent /\ \E a \in DOMAIN tx[c].order : tx[c].order[a] = y
      BY <1>1, <1>3, <2>1, <2>4, ZenonT(40) DEF LockOK, Removing, Running
    <3> QED BY <1>d, <3>1, <3>2, StaysLocked, ZenonT(40)
  <2> QED BY <2>2, <2>3, <2>4, SMTT(40)
<1>9. ASSUME NEW y \in Tuples PROVE TupleOK(y)'
  <2>1. TupleOK(y)
    BY DEF TxnInv
  <2>2. CASE y \notin {x, f}
    <3>1. \A d \in Cores : tx[d].pc \in {"replace", "removed"} => tx'[d] = tx[d]
      BY <1>3, <1>d, ZenonT(40)
    <3>2. heap'[y] = heap[y] /\ (~heap[y].alive => heap[y].owner = None)
      BY <1>a, <2>1, <2>2, ZenonT(40) DEF TupleOK
    <3> QED BY <1>1, <1>6, <1>e, <2>1, <3>1, <3>2, TupleFrame, ZenonT(40)
  <2>3. CASE y = x
    BY <1>b, <1>e, <2>1, <2>3, ZenonT(40) DEF TupleOK
  <2>4. CASE y = f
    BY <1>5, <1>c, <1>d, <1>e, <2>4, ZenonT(40) DEF TupleOK
  <2> QED BY <2>2, <2>3, <2>4, SMTT(40)
<1>10. ASSUME NEW y \in Tuples, Live(y) PROVE heap[y].next \in Tuples \ {x, f}
  <2>1. heap[y].next \in Tuples
    BY <1>1, <1>10, ZenonT(40) DEF Live
  <2>2. ChainOK(y)
    BY DEF TxnInv
  <2>3. heap[y].next # x
    BY <1>3, <1>10, <2>2, ZenonT(40) DEF ChainOK
  <2> QED BY <1>4, <1>10, <2>1, <2>3, ZenonT(40)
<1>11. ASSUME NEW y \in Tuples, y # f
       PROVE  ChainOK(y)' /\ (Live(y)' => Live(y)) /\ heap'[y].next = heap[y].next
  <2>1. ChainOK(y) /\ heap'[y].next = heap[y].next /\ heap'[y].version = heap[y].version
        /\ heap'[y].alive = heap[y].alive
    BY <1>11, <1>a, <1>b, ZenonT(40) DEF TxnInv
  <2>2. Live(y) => heap'[heap[y].next] = heap[heap[y].next]
    BY <1>10, <1>a, ZenonT(40)
  <2>3. InLimbo(heap[y].next)' => InLimbo(heap[y].next)
    BY <2>1, Zenon DEF InLimbo
  <2>4. \A d \in Cores : Entries(d)' = Entries(d)
    BY Zenon DEF Entries
  <2> QED BY <1>1, <1>e, <2>1, <2>2, <2>3, <2>4, ChainFrame, ZenonT(40)
<1>12. ChainOK(f)'
  <2>1. \A d \in Cores : \A e \in Entries(d)' : e.tuple = x => e.key # None
    BY <1>2, Zenon DEF Queued, Entries
  <2> QED BY <1>2, <1>6, <1>b, <1>c, <2>1, ZenonT(40) DEF ChainOK
<1>13. ChainsApart'
  <2>1. ChainsApart
    BY DEF TxnInv
  <2>2. \A y \in Tuples : y # f /\ Live(y)' => Live(y) /\ heap'[y].next = heap[y].next /\ heap[y].next # x
    BY <1>10, <1>11, ZenonT(40)
  <2> QED BY <1>c, <2>1, <2>2, ZenonT(40) DEF ChainsApart
<1>14. TreeOK'
  <2>1. TreeOK /\ \A k \in Keys : tree[k] \in Tuples \cup {None}
    BY Zenon DEF TxnInv, TxnTypes
  <2>2. \A d \in Cores : tx[d].pc = "replace" => tx'[d].pc = "replace" /\ Replacing(d)' = Replacing(d)
    BY <1>3, <1>d, ZenonT(40) DEF Replacing
  <2>3. \A k \in Keys : tree[k] # f
    BY <1>4 DEF InTree
  <2>4. \A k \in Keys : tree[k] \in Tuples /\ tree[k] # x => heap'[tree[k]] = heap[tree[k]]
    BY <1>a, <2>3, Zenon
  <2>5. ASSUME NEW k \in Keys, tree[k] # None
        PROVE  /\ heap'[tree[k]].alive
               /\ heap'[tree[k]].latest \/ \E d \in Cores : tx'[d].pc = "replace" /\ Replacing(d)'.tuple = tree[k]
    <3>1. CASE tree[k] = x
      BY <1>2, <1>7, <1>b, <1>d, <3>1, ZenonT(40)
    <3>2. CASE tree[k] # x
      BY <2>1, <2>2, <2>4, <2>5, <3>2, SMTT(40) DEF TreeOK
    <3> QED BY <3>1, <3>2, Zenon
  <2> QED BY <2>1, <2>5, SMTT(40) DEF TreeOK
<1>15. GcOK'
  <2>1. \A y \in Tuples : InLimbo(y) \/ ~Unqueued(y) => y # f
    BY <1>4, Zenon
  <2>2. \A y \in Tuples : y # f => /\ heap'[y].alive = heap[y].alive
                                   /\ heap'[y].latest => heap[y].latest
                                   /\ heap'[y].deleting = heap[y].deleting
    BY <1>a, <1>b, ZenonT(40)
  <2>3. GcOK /\ limbo' \subseteq limbo /\ UNCHANGED gc
    BY DEF TxnInv
  <2> QED BY <1>1, <1>6, <1>e, <2>1, <2>2, <2>3, GcFrame, ZenonT(40)
<1> QED
  BY <1>8, <1>9, <1>11, <1>12, <1>13, <1>14, <1>15, ZenonT(40)

(* Putting a new tuple in front of the old one preserves the invariant. *)
LEMMA ChainStep ==
  ASSUME TxnInv, TxnTypes', UNCHANGED <<clockVars, tree, limbo, workload>>, NEW c \in Cores,
         NEW j, NextWrite(c, j), WChain(c, j),
         CanAlloc => Fresh \in Tuples /\ ~heap[Fresh].alive
  PROVE  TxnInv'
<1>1. PICK x \in Tuples : x = WTuple(c, j)
  BY NextWriteFacts, Zenon
<1>2. PICK f \in Tuples : f = Fresh /\ ~heap[f].alive
  BY Zenon DEF WChain
<1>3. heap[x].alive /\ f # x /\ Pending(c, tx[c].write_set[j]) /\ tx[c].write_set[j].tuple = x
  BY <1>1, <1>2, NextWriteFacts, Zenon DEF WTuple
<1>4. TxnTypes /\ tx[c] \in TxRec /\ heap[x] \in HeapRec
  BY Zenon DEF TxnInv, TxnTypes
<1>5. PICK n : n = NewRec(c, j)
  OBVIOUS
<1>6. /\ n.alive /\ n.owner = c /\ n.write_intent /\ n.latest
      /\ n.deleting = (tx[c].write_set[j].val = None) /\ n.version = tx[c].tid
      /\ "next" \in DOMAIN n
  <2>1. heap[x].owner = c /\ heap[x].write_intent /\ heap[x].latest
    BY <1>3, Zenon DEF Pending, Owns
  <2> QED BY <1>1, <1>3, <1>4, <1>5, <2>1, ZenonT(40) DEF NewRec, HeapRec
<1>7. /\ heap' = [heap EXCEPT ![f] = [n EXCEPT !.next = x], ![x].latest = FALSE]
      /\ ~tx[c].write_set[j].insert /\ UNCHANGED gc
      /\ Become(c, [tx[c] EXCEPT !.pc = "replace", !.i = j + 1, !.head = f])
  BY <1>1, <1>2, <1>5, ZenonT(40) DEF WChain
<1>8. /\ heap'[f] = [n EXCEPT !.next = x] /\ heap'[x] = [heap[x] EXCEPT !.latest = FALSE]
      /\ \A y \in Tuples : y \notin {x, f} => heap'[y] = heap[y]
  BY <1>3, <1>7, ZenonT(40) DEF TxnTypes
<1>9. /\ heap'[x].alive = heap[x].alive /\ heap'[x].owner = heap[x].owner
      /\ heap'[x].write_intent = heap[x].write_intent /\ ~heap'[x].latest
      /\ heap'[x].version = heap[x].version /\ heap'[x].next = heap[x].next
      /\ heap'[x].deleting = heap[x].deleting
  BY <1>4, <1>8, ZenonT(40) DEF HeapRec
<1>10. /\ heap'[f].alive /\ heap'[f].owner = c /\ heap'[f].write_intent /\ heap'[f].latest
       /\ heap'[f].deleting = (tx[c].write_set[j].val = None)
       /\ heap'[f].next = x /\ heap'[f].version = tx[c].tid
  BY <1>6, <1>8, SMTT(40)
<1>11. /\ tx'[c].pc = "replace" /\ tx'[c].i = j + 1 /\ tx'[c].head = f
       /\ tx'[c].write_set = tx[c].write_set /\ tx'[c].read_set = tx[c].read_set
       /\ tx'[c].order = tx[c].order /\ tx'[c].todo = tx[c].todo /\ tx'[c].tid = tx[c].tid
       /\ \A d \in Cores : d # c => tx'[d] = tx[d]
  BY <1>4, <1>7, ZenonT(40) DEF TxnTypes, Become, TxRec
<1>12. Chains(c, j, x, f)
  BY <1>1, <1>2, <1>7, <1>8, <1>9, <1>10, <1>11, ZenonT(40) DEF Chains
<1>13. UNCHANGED <<clockVars, tree, limbo, gc, workload>> /\ PinnedWindow'
  BY <1>7, ZenonT(40) DEF TxnInv, PinnedWindow, clockVars
<1> QED
  BY <1>12, <1>13, ChainsCore, ChainsTuples, ZenonT(40) DEF TxnInv

(* c lets the tree lead to n instead of x, and lets go of n. *)
Replaces(c, k, x, n, es) ==
  /\ tx[c].pc = "replace" /\ Replacing(c).tuple = x /\ Replacing(c).key = k /\ tx[c].head = n
  /\ tree' = [tree EXCEPT ![k] = n]
  /\ \A y \in Tuples : y # n => heap'[y] = heap[y]
  /\ heap'[n].alive = heap[n].alive /\ heap'[n].owner = None /\ heap'[n].latest = heap[n].latest
  /\ heap'[n].deleting = heap[n].deleting /\ heap'[n].version = heap[n].version
  /\ heap'[n].next = heap[n].next
  /\ tx'[c].pc = "write" /\ tx'[c].i = tx[c].i /\ tx'[c].head = None
  /\ tx'[c].write_set = tx[c].write_set /\ tx'[c].read_set = tx[c].read_set
  /\ tx'[c].order = tx[c].order /\ tx'[c].todo = tx[c].todo /\ tx'[c].tid = tx[c].tid
  /\ \A d \in Cores : d # c => tx'[d] = tx[d]
  /\ Enqueue(c, es)
  /\ \A e \in es : /\ e.tick = to_read_only_tick(EpochId(tx[c].tid))
                   /\ \/ e.tuple = x /\ ~heap[x].deleting /\ e.key = None
                      \/ e.tuple = n /\ e.key = k /\ heap[n].deleting
  /\ \A e, g \in es : e.tuple = g.tuple => e = g

(* The replaced tuple and the one that takes its place. *)
LEMMA ReplacedFacts ==
  ASSUME TxnInv, NEW c \in Cores, tx[c].pc = "replace", NEW x, NEW k, NEW n,
         Replacing(c).tuple = x, Replacing(c).key = k, tx[c].head = n
  PROVE  /\ x \in Tuples /\ k \in Keys /\ n \in Tuples /\ x # n /\ tx[c].write_set # <<>>
         /\ heap[x].alive /\ heap[x].owner = c /\ ~heap[x].latest /\ tree[k] = x
         /\ ~Queued(x) /\ ~InLimbo(x) /\ (~heap[x].deleting => Unqueued(x))
         /\ heap[n].alive /\ heap[n].owner = c /\ heap[n].write_intent /\ heap[n].latest
         /\ heap[n].next = x /\ heap[n].version = tx[c].tid
         /\ ~InTree(n) /\ ~InLimbo(n) /\ Unqueued(n)
         /\ \A j \in Ahead(tx[c]) : tx[c].write_set[j].tuple # x
         /\ \A j \in Keys : tree[j] = x => j = k
<1>1. TxnTypes /\ PcOK(c) /\ OwnsReplaced(c) /\ GcOK /\ TreeOK
  BY DEF TxnInv, OwnsOK
<1>2. /\ tx[c].i - 1 \in DOMAIN tx[c].write_set /\ n \in Tuples
      /\ \A j \in Ahead(tx[c]) : tx[c].write_set[j].tuple # x
  BY <1>1, ZenonT(40) DEF PcOK, Fits, Replacing
<1>3. x \in Tuples /\ k \in Keys /\ tx[c].write_set # <<>>
  <2>1. tx[c].write_set # <<>>
    BY <1>2, SMTT(40)
  <2> QED BY <1>1, <1>2, <2>1, SetTypes, Zenon DEF Replacing
<1>4. /\ heap[x].alive /\ heap[x].owner = c /\ ~heap[x].latest /\ tree[k] = x
      /\ ~Queued(x) /\ ~InLimbo(x) /\ (~heap[x].deleting => Unqueued(x))
      /\ heap[n].alive /\ heap[n].owner = c /\ heap[n].write_intent /\ heap[n].latest
      /\ heap[n].next = x /\ heap[n].version = tx[c].tid
      /\ ~InTree(n) /\ Unqueued(n)
  BY <1>1, Zenon DEF OwnsReplaced
<1>5. ~InLimbo(n)
  BY <1>1, <1>4, ZenonT(40) DEF GcOK, InLimbo
<1>6. x # None
  BY <1>3, NoneApart, Zenon
<1>7. \A j \in Keys : tree[j] = x => j = k
  BY <1>1, <1>3, <1>4, <1>6, SMTT(40) DEF TreeOK
<1> QED BY <1>2, <1>3, <1>4, <1>5, <1>7, ZenonT(40)

(* The new head in the tree leaves every core with what it owns and points *)
(* to: whoever still points to the old one does so inside a region that is *)
(* older than the entry of the queue.                                      *)
LEMMA ReplacesCore ==
  ASSUME TxnInv, TxnTypes', UNCHANGED <<clockVars, limbo, workload>>, NEW c \in Cores,
         NEW k, NEW x, NEW n, NEW es, Replaces(c, k, x, n, es)
  PROVE  /\ PcOK(c)' /\ EpochOK(c)' /\ SnapOK(c)' /\ OwnsOK(c)' /\ PtrsOK(c)'
         /\ \A d \in Cores : d # c =>
              PcOK(d)' /\ EpochOK(d)' /\ SnapOK(d)' /\ OwnsOK(d)' /\ PtrsOK(d)'
<1> DEFINE ws == tx[c].write_set
<1>a. tx[c].pc = "replace" /\ Replacing(c).tuple = x /\ Replacing(c).key = k /\ tx[c].head = n
  BY Zenon DEF Replaces
<1>b. /\ x \in Tuples /\ k \in Keys /\ n \in Tuples /\ x # n /\ ws # <<>>
      /\ heap[x].alive /\ heap[x].owner = c /\ ~heap[x].latest /\ tree[k] = x
      /\ heap[n].alive /\ heap[n].owner = c /\ heap[n].latest /\ ~InTree(n)
      /\ \A j \in Ahead(tx[c]) : ws[j].tuple # x
  BY <1>a, ReplacedFacts, SMTT(40)
<1>1. TxnTypes /\ PcOK(c) /\ OwnsOK(c) /\ PtrsOK(c) /\ c # None /\ k # None /\ current_tick \in Nat
  <2>1. TxnTypes /\ PcOK(c) /\ OwnsOK(c) /\ PtrsOK(c)
    BY DEF TxnInv
  <2> QED BY <1>b, <2>1, NoneApart, Ticks, Zenon
<1>c. /\ tree'[k] = n /\ \A j \in Keys : j # k => tree'[j] = tree[j]
      /\ \A y \in Tuples : y # n => heap'[y] = heap[y]
      /\ heap'[n].alive /\ heap'[n].owner = None /\ heap'[n].latest
  <2>1. tree' = [tree EXCEPT ![k] = n] /\ tree \in [Keys -> Tuples \cup {None}]
    BY <1>1, ZenonT(40) DEF Replaces, TxnTypes
  <2>2. tree'[k] = n /\ \A j \in Keys : j # k => tree'[j] = tree[j]
    BY <1>b, <2>1, Zenon
  <2> QED BY <1>b, <2>2, Zenon DEF Replaces
<1>d. /\ tx'[c].pc = "write" /\ tx'[c].i = tx[c].i /\ tx'[c].head = None
      /\ tx'[c].write_set = tx[c].write_set /\ tx'[c].read_set = tx[c].read_set
      /\ tx'[c].order = tx[c].order /\ tx'[c].todo = tx[c].todo /\ tx'[c].tid = tx[c].tid
      /\ \A d \in Cores : d # c => tx'[d] = tx[d]
  BY Zenon DEF Replaces
<1>e. \A e \in es : /\ e.tick = to_read_only_tick(EpochId(tx[c].tid))
                    /\ (e.tuple = x /\ e.key = None) \/ (e.tuple = n /\ e.key = k)
  BY Zenon DEF Replaces
<1>f. /\ current_tick' = current_tick /\ last_tick_inclusive' = last_tick_inclusive
      /\ pinned' = pinned /\ limbo' = limbo /\ current_tick <= current_tick'
  BY <1>1, SMTT(40) DEF clockVars
<1>2. /\ gc'[c].queue = gc[c].queue \cup es
      /\ \A b \in Cores : gc'[b].scratch = gc[b].scratch
      /\ \A b \in Cores : b # c => gc'[b] = gc[b]
      /\ \A b \in Cores : \A e \in Entries(b)' : e \in Entries(b) \/ (b = c /\ e \in es)
  BY <1>1, EnqueueFacts, ZenonT(40) DEF Replaces
<1>3. /\ EpochId(tx[c].tid) <= current_tick /\ pinned[c] <= EpochId(tx[c].tid)
      /\ to_read_only_tick(EpochId(tx[c].tid)) \in Nat
      /\ \A d \in Cores : pinned[d] # 0 =>
           to_read_only_tick(pinned[d] - 1) <= to_read_only_tick(EpochId(tx[c].tid))
      /\ \A e \in gc[c].queue : e.tick <= to_read_only_tick(EpochId(tx[c].tid))
  BY <1>a, <1>b, CommitEpoch, ZenonT(40)
<1>4. ASSUME NEW d \in Cores, d # c
      PROVE  PcOK(d)' /\ EpochOK(d)' /\ SnapOK(d)' /\ OwnsOK(d)'
  <2>1. ASSUME NEW a \in Cores, a # c PROVE Spared(a)
    <3>1. \A y \in Tuples : heap[y].owner = a \/ heap'[y].owner = a => y # n /\ y # x
      BY <1>b, <1>c, <2>1, NoneApart, ZenonT(40)
    <3>2. \A y \in Tuples, b \in Cores : heap[y].owner = a =>
            \A e \in Entries(b)' : e.tuple = y => e \in Entries(b)
      BY <1>2, <1>e, <3>1, ZenonT(40)
    <3>3. \A y \in Tuples, j \in Keys : heap[y].owner = a => (tree'[j] = y <=> tree[j] = y)
      BY <1>b, <1>c, <3>1, SMTT(40)
    <3> QED BY <1>c, <1>d, <1>f, <2>1, <3>1, <3>2, <3>3, ZenonT(40) DEF Spared, InLimbo
  <2> QED BY <1>2, <1>4, <1>f, <2>1, OthersKeep, ZenonT(40)
<1>5. PcOK(c)'
  <2>1. ~IsSnapshot(c)
    BY <1>1, <1>a, ZenonT(40) DEF PcOK, Fits
  <2> QED BY <1>1, <1>a, <1>d, <1>f, <2>1, DecidesOn, ZenonT(40) DEF PcOK, Deciding, IsSnapshot
<1>6. EpochOK(c)' /\ SnapOK(c)'
  <2>1. PICK r \in Nat : r = to_read_only_tick(EpochId(tx[c].tid))
    BY <1>3, ZenonT(40)
  <2>2. r <= r /\ \A e \in gc'[c].queue : e.tick <= r
    <3>1. r <= r
      OBVIOUS
    <3> QED BY <1>2, <1>3, <1>e, <2>1, <3>1, ZenonT(40)
  <2> QED BY <1>3, <1>d, <1>f, <2>1, <2>2, ZenonT(40) DEF EpochOK, SnapOK, Running
<1>7. OwnsOK(c)'
  <2>1. Ahead(tx'[c]) = Ahead(tx[c])
    BY <1>d, ZenonT(40) DEF Ahead
  <2>2. ASSUME NEW a \in Ahead(tx[c]) PROVE Pending(c, ws[a])'
    <3>1. PICK v : v = ws[a]
      BY Zenon
    <3>2. v.tuple \in Tuples /\ v.key \in Keys /\ Pending(c, v) /\ v.tuple # x
      BY <1>1, <1>a, <1>b, <2>2, <3>1, SetTypes, Zenon DEF OwnsOK, OwnsWrites
    <3>3. tree[v.key] = v.tuple /\ v.tuple # n /\ v.key # k
      BY <1>b, <3>2, ZenonT(40) DEF Pending, Owns, InTree
    <3>4. Unqueued(v.tuple) => Unqueued(v.tuple)'
      BY <1>2, <1>e, <3>2, <3>3, ZenonT(40) DEF Unqueued
    <3>5. Pending(c, v)'
      BY <1>c, <3>2, <3>3, <3>4, ZenonT(40) DEF Pending, Owns, Tentative
    <3> QED BY <1>d, <3>1, <3>5, StillPending, Zenon
  <2> QED
    BY <1>d, <2>1, <2>2, ZenonT(40) DEF OwnsOK, OwnsInserts, OwnsLocked, OwnsWrites, OwnsUndone,
       OwnsReplaced, OwnsRemoved, Running
<1>8. ASSUME NEW d \in Cores, NEW y \in Ptrs(d), Safe(d, y) PROVE Safe(d, y)'
  <2>1. pinned[d] # 0 /\ y \in Tuples
    BY <1>1, PointersPin, SetTypes, ZenonT(40)
  <2>2. heap'[y].alive
    BY <1>8, <1>c, <2>1, ZenonT(40) DEF Safe
  <2>3. \A b \in Cores : \A e \in gc'[b].queue : e.tuple = y /\ e.key = None =>
          e \in gc[b].queue \/ to_read_only_tick(pinned[d] - 1) <= e.tick
    BY <1>2, <1>3, <1>e, <2>1, ZenonT(40)
  <2>4. \A b \in Cores : \A e \in gc'[b].scratch : e.tuple = y /\ e.key = None => e \in gc[b].scratch
    BY <1>2, Zenon
  <2> QED BY <1>8, <1>f, <2>2, <2>3, <2>4, SafeStep, ZenonT(40)
<1>9. \A y \in Tuples, j \in Keys : Leads(j, y) => Leads(j, y)'
  <2>1. \A d \in Cores : \A y : Removing(d, y) => Removing(d, y)'
    BY <1>a, <1>d, ZenonT(40) DEF Removing
  <2>2. \A y \in Tuples : heap'[y].latest => heap[y].latest
    BY <1>b, <1>c, ZenonT(40)
  <2>3. \A y \in Tuples, j \in Keys : tree[j] = y => tree'[j] = y \/ ~heap'[y].latest
    BY <1>b, <1>c, ZenonT(40)
  <2> QED BY <2>1, <2>2, <2>3, ZenonT(40) DEF Leads
<1>10. ASSUME NEW d \in Cores, d # c PROVE PtrsOK(d)'
  <2>1. PtrsOK(d) /\ tx'[d] = tx[d] /\ Ptrs(d) \subseteq Tuples
    BY <1>10, <1>d, SetTypes, ZenonT(40) DEF TxnInv
  <2> QED BY <1>1, <1>8, <1>9, <2>1, PtrsStep, ZenonT(40)
<1>11. PtrsOK(c)'
  <2>1. tx[c].todo = <<>>
    BY <1>1, <1>a, Zenon DEF PcOK, Fits
  <2>2. Ptrs(c) \subseteq Tuples
    BY <1>1, SetTypes, Zenon
  <2> QED BY <1>1, <1>8, <1>9, <1>d, <2>1, <2>2, PtrsKept, ZenonT(40)
<1> QED
  BY <1>4, <1>5, <1>6, <1>7, <1>10, <1>11, ZenonT(40)

(* The new head in the tree leaves the tuples, the tree, the queues and    *)
(* the chains in order: only the new head leads to the replaced tuple.     *)
LEMMA ReplacesTuples ==
  ASSUME TxnInv, TxnTypes', UNCHANGED <<clockVars, limbo, workload>>, NEW c \in Cores,
         NEW k, NEW x, NEW n, NEW es, Replaces(c, k, x, n, es)
  PROVE  /\ \A y \in Tuples : LockOK(y)' /\ TupleOK(y)' /\ ChainOK(y)'
         /\ TreeOK' /\ GcOK' /\ ChainsApart'
<1> DEFINE r == to_read_only_tick(EpochId(tx[c].tid))
<1>a. tx[c].pc = "replace" /\ Replacing(c).tuple = x /\ Replacing(c).key = k /\ tx[c].head = n
  BY Zenon DEF Replaces
<1>b. /\ x \in Tuples /\ k \in Keys /\ n \in Tuples /\ x # n /\ tx[c].write_set # <<>>
      /\ heap[x].alive /\ heap[x].owner = c /\ ~heap[x].latest /\ tree[k] = x
      /\ ~InLimbo(x) /\ (~heap[x].deleting => Unqueued(x))
      /\ heap[n].alive /\ heap[n].owner = c /\ heap[n].latest
      /\ heap[n].next = x /\ heap[n].version = tx[c].tid
      /\ ~InTree(n) /\ ~InLimbo(n) /\ Unqueued(n)
      /\ \A j \in Keys : tree[j] = x => j = k
  BY <1>a, ReplacedFacts, SMTT(40)
<1>1. /\ TxnTypes /\ c # None /\ k # None /\ x # None /\ n # None
      /\ current_tick \in Nat /\ last_tick_inclusive \in Nat
  <2>1. TxnTypes
    BY DEF TxnInv
  <2> QED BY <1>b, <2>1, NoneApart, Ticks, Zenon
<1>c. /\ tree'[k] = n /\ \A j \in Keys : j # k => tree'[j] = tree[j]
      /\ \A y \in Tuples : y # n => heap'[y] = heap[y]
      /\ heap'[n].owner = None
      /\ \A y \in Tuples : /\ heap'[y].alive = heap[y].alive /\ heap'[y].latest = heap[y].latest
                           /\ heap'[y].deleting = heap[y].deleting
                           /\ heap'[y].version = heap[y].version /\ heap'[y].next = heap[y].next
  <2>1. tree' = [tree EXCEPT ![k] = n] /\ tree \in [Keys -> Tuples \cup {None}]
    BY <1>1, ZenonT(40) DEF Replaces, TxnTypes
  <2>2. tree'[k] = n /\ \A j \in Keys : j # k => tree'[j] = tree[j]
    BY <1>b, <2>1, ZenonT(40)
  <2> QED BY <2>2, ZenonT(40) DEF Replaces
<1>d. /\ tx'[c].pc = "write" /\ tx'[c].order = tx[c].order
      /\ \A d \in Cores : d # c => tx'[d] = tx[d]
  BY Zenon DEF Replaces
<1>e. /\ \A e \in es : /\ e.tick = r
                       /\ \/ e.tuple = x /\ ~heap[x].deleting /\ e.key = None
                          \/ e.tuple = n /\ e.key = k /\ heap[n].deleting
      /\ \A e, g \in es : e.tuple = g.tuple => e = g
  BY Zenon DEF Replaces
<1>f. /\ current_tick' = current_tick /\ last_tick_inclusive' = last_tick_inclusive
      /\ limbo' = limbo /\ current_tick <= current_tick'
      /\ last_tick_inclusive <= last_tick_inclusive'
  BY <1>1, SMTT(40) DEF clockVars
<1>2. /\ gc'[c].queue = gc[c].queue \cup es
      /\ \A b \in Cores : gc'[b].scratch = gc[b].scratch
      /\ \A b \in Cores : b # c => gc'[b] = gc[b]
      /\ \A b \in Cores : \A e \in Entries(b)' : e \in Entries(b) \/ (b = c /\ e \in es)
  BY <1>1, EnqueueFacts, ZenonT(40) DEF Replaces
<1>3. /\ r \in Nat /\ r <= to_read_only_tick(current_tick)
      /\ to_read_only_tick(last_tick_inclusive) <= r
  BY <1>a, <1>b, CommitEpoch, ZenonT(40)
<1>r. to_read_only_tick(EpochId(heap[n].version)) = r
  BY <1>b, Zenon
<1> HIDE DEF r
<1>4. /\ \A y : InLimbo(y)' = InLimbo(y)
      /\ \A y : y # x /\ InTree(y) => InTree(y)'
      /\ \A y : y # n /\ InTree(y)' => InTree(y)
      /\ InTree(n)' /\ ~InTree(x)'
  <2>1. \A y : InLimbo(y)' = InLimbo(y)
    BY DEF InLimbo
  <2> QED BY <1>b, <1>c, <2>1, SMTT(40) DEF InTree
<1>5. ASSUME NEW y \in Tuples PROVE LockOK(y)'
  <2>1. LockOK(y)
    BY DEF TxnInv
  <2>2. CASE heap[y].owner # c /\ y # n
    <3>1. heap'[y] = heap[y]
      BY <1>c, <2>2, ZenonT(40)
    <3> QED BY <1>1, <1>d, <2>1, <2>2, <3>1, LockFrame, ZenonT(40)
  <2>3. CASE y = n
    BY <1>c, <2>3, ZenonT(40) DEF LockOK
  <2>4. CASE heap[y].owner = c /\ y # n
    <3>1. heap'[y] = heap[y]
      BY <1>c, <2>4, ZenonT(40)
    <3>2. heap[y].alive /\ heap[y].write_intent /\ \E a \in DOMAIN tx[c].order : tx[c].order[a] = y
      BY <1>1, <1>a, <2>1, <2>4, ZenonT(40) DEF LockOK, Removing, Running
    <3> QED BY <1>d, <2>4, <3>1, <3>2, StaysLocked, ZenonT(40)
  <2> QED BY <2>2, <2>3, <2>4, SMTT(40)
<1>6. ASSUME NEW y \in Tuples PROVE TupleOK(y)'
  <2>1. TupleOK(y)
    BY DEF TxnInv
  <2>2. ~heap'[y].alive => heap'[y].owner = None
    BY <1>c, <2>1, ZenonT(40) DEF TupleOK
  <2>3. heap[y].latest /\ InTree(y) => InTree(y)'
    BY <1>4, <1>b, ZenonT(40)
  <2>4. \A d \in Cores : tx[d].pc \in {"replace", "removed"} /\ tx[d].head = y =>
          InTree(y)' \/ (tx'[d].pc \in {"replace", "removed"} /\ tx'[d].head = y)
    BY <1>4, <1>a, <1>d, ZenonT(40)
  <2> QED BY <1>1, <1>c, <1>f, <2>1, <2>2, <2>3, <2>4, TupleFrame, ZenonT(40)
<1>7. ASSUME NEW y \in Tuples PROVE ChainOK(y)' /\ (Live(y)' => Live(y))
  <2>1. ChainOK(y) /\ \A z \in Tuples : heap[z].next \in Tuples \cup {None}
    BY Zenon DEF TxnInv, TxnTypes, HeapRec
  <2>2. ASSUME Live(y) PROVE heap[y].next \in Tuples
    BY <2>1, <2>2, ZenonT(40) DEF Live
  <2>3. Live(n)
    BY <1>3, <1>b, <1>r, <1>1, ZenonT(40) DEF Live
  <2>4. Live(y) /\ heap[y].next = x => y = n
    BY <1>b, <2>3, ZenonT(40) DEF TxnInv, ChainsApart
  <2>5. r <= r
    BY <1>3
  <2>6. Live(y) => \A d \in Cores : \A e \in Entries(d)' : e.tuple = heap[y].next /\ e.key = None =>
          e \in Entries(d) \/ to_read_only_tick(EpochId(heap[y].version)) <= e.tick
    BY <1>1, <1>2, <1>e, <1>r, <2>4, <2>5, ZenonT(40)
  <2>7. InLimbo(heap[y].next)' => InLimbo(heap[y].next)
    BY <1>c, ZenonT(40) DEF InLimbo
  <2> QED BY <1>1, <1>c, <1>f, <2>1, <2>2, <2>6, <2>7, ChainFrame, ZenonT(40)
<1>8. ChainsApart'
  BY <1>7, <1>c, ApartFrame, ZenonT(40) DEF TxnInv
<1>9. TreeOK'
  <2>1. TreeOK /\ \A j \in Keys : tree[j] \in Tuples \cup {None}
    BY ZenonT(40) DEF TxnInv, TxnTypes
  <2>2. \A i, j \in Keys : tree'[i] = tree'[j] /\ tree'[i] # None => i = j
    <3>1. \A i, j \in Keys : tree[i] = tree[j] /\ tree[i] # None => i = j
      BY <2>1, Zenon DEF TreeOK
    <3>2. \A i \in Keys : i # k => tree'[i] # n
      <4>1. \A i \in Keys : tree[i] # n
        BY <1>b, Zenon DEF InTree
      <4> QED BY <1>c, <4>1, Zenon
    <3> SUFFICES ASSUME NEW i \in Keys, NEW j \in Keys, tree'[i] = tree'[j], tree'[i] # None PROVE i = j
      BY Zenon
    <3>3. CASE i = k \/ j = k
      BY <1>c, <3>2, <3>3, Zenon
    <3>4. CASE i # k /\ j # k
      BY <1>c, <3>1, <3>4, Zenon
    <3> QED BY <3>3, <3>4, Zenon
  <2>3. \A d \in Cores : d # c => tx'[d] = tx[d] /\ Replacing(d)' = Replacing(d)
    BY <1>d, ZenonT(40) DEF Replacing
  <2>4. ASSUME NEW j \in Keys, tree'[j] # None
        PROVE  /\ heap'[tree'[j]].alive
               /\ heap'[tree'[j]].latest \/ \E d \in Cores : tx'[d].pc = "replace" /\ Replacing(d)'.tuple = tree'[j]
    <3>1. CASE j = k
      BY <1>b, <1>c, <3>1, ZenonT(40)
    <3>2. CASE j # k
      <4>1. tree'[j] = tree[j] /\ tree[j] # x /\ tree[j] \in Tuples
        BY <1>b, <1>c, <2>1, <2>4, <3>2, ZenonT(40)
      <4>2. /\ heap[tree[j]].alive
            /\ heap[tree[j]].latest \/ \E d \in Cores : tx[d].pc = "replace" /\ Replacing(d).tuple = tree[j]
        BY <2>1, <4>1, <2>4, ZenonT(40) DEF TreeOK
      <4>3. ASSUME NEW d \in Cores, tx[d].pc = "replace", Replacing(d).tuple = tree[j]
            PROVE  tx'[d].pc = "replace" /\ Replacing(d)'.tuple = tree'[j]
        BY <1>a, <2>3, <4>1, <4>3, ZenonT(40)
      <4> QED BY <1>c, <4>1, <4>2, <4>3, ZenonT(40)
    <3> QED BY <3>1, <3>2, ZenonT(40)
  <2> QED BY <2>2, <2>4, ZenonT(40) DEF TreeOK
<1>10. GcOK'
  <2>1. GcOK /\ \A b \in Cores : \A e \in Entries(b) : e.tuple \in Tuples
    BY SMTT(40) DEF TxnInv, TxnTypes, GcRec, GcEntry, Entries
  <2>2. \A e \in es : e.tuple \in {x, n} /\ e.tuple \in Tuples /\ Unqueued(e.tuple)
    BY <1>b, <1>e, ZenonT(40)
  <2>3. \A b \in Cores : gc'[b].queue \cap gc'[b].scratch = {}
    <3>1. \A b \in Cores : gc[b].queue \cap gc[b].scratch = {}
      BY <2>1, ZenonT(40) DEF GcOK
    <3>2. \A e \in es : e \notin gc[c].scratch
      BY <2>2, SMTT(40) DEF Entries, Unqueued
    <3> QED BY <1>2, <3>1, <3>2, ZenonT(40)
  <2>4. \A e \in es : EntryOK(e)'
    <3>1. \A e \in es : e.tuple = x => EntryOK(e)'
      BY <1>4, <1>b, <1>c, <1>e, ZenonT(40) DEF EntryOK
    <3>2. \A e \in es : e.tuple = n => EntryOK(e)'
      BY <1>1, <1>4, <1>b, <1>c, <1>e, ZenonT(40) DEF EntryOK
    <3> QED BY <2>2, <3>1, <3>2, ZenonT(40)
  <2>5. \A e \in es : e.tick <= to_read_only_tick(current_tick')
    BY <1>3, <1>e, <1>f, ZenonT(40)
  <2>6. \A e \in es : \A b \in Cores : \A g \in Entries(b)' : g.tuple = e.tuple => b = c /\ g = e
    <3>1. \A e \in es : \A b \in Cores : \A g \in Entries(b) : g.tuple # e.tuple
      BY <2>2, Zenon DEF Unqueued
    <3> QED BY <1>2, <1>e, <3>1, ZenonT(40)
  <2>7. \A b \in Cores : \A e \in Entries(b) : EntryOK(e) => EntryOK(e)'
    <3> SUFFICES ASSUME NEW b \in Cores, NEW e \in Entries(b), EntryOK(e) PROVE EntryOK(e)'
      BY Zenon
    <3>1. e.tuple # n /\ e.tuple \in Tuples /\ e.key \in Keys \cup {None}
      <4>1. e \in GcEntry
        BY <1>1, Zenon DEF TxnTypes, GcRec, Entries
      <4> QED BY <1>b, <4>1, Zenon DEF Unqueued, GcEntry
    <3>2. heap'[e.tuple] = heap[e.tuple] /\ (InTree(e.tuple)' => InTree(e.tuple))
      BY <1>4, <1>c, <3>1, ZenonT(40)
    <3>3. e.key # None /\ heap[e.tuple].latest => tree'[e.key] = e.tuple
      <4> SUFFICES ASSUME e.key # None, heap[e.tuple].latest PROVE tree'[e.key] = e.tuple
        BY Zenon
      <4>1. tree[e.key] = e.tuple /\ e.key \in Keys
        BY <3>1, Zenon DEF EntryOK
      <4>2. e.key # k
        BY <1>b, <4>1, Zenon
      <4> QED BY <1>c, <4>1, <4>2, Zenon
    <3> QED BY <1>4, <3>2, <3>3, ZenonT(40) DEF EntryOK
  <2>8. \A l \in limbo : l.tuple \in Tuples /\ l.tuple # n
    BY <1>b, Zenon DEF TxnTypes, LimboRec, InLimbo
  <2>9. /\ \A l, m \in limbo' : l.tuple = m.tuple => l = m
        /\ \A l \in limbo' : heap'[l.tuple].alive /\ ~heap'[l.tuple].latest /\ ~InTree(l.tuple)'
    BY <1>4, <1>c, <1>f, <2>1, <2>8, ZenonT(40) DEF GcOK
  <2>10. \A e \in es : /\ EntryOK(e)' /\ e.tick <= to_read_only_tick(current_tick')
                      /\ \A b \in Cores : \A g \in Entries(b)' : g.tuple = e.tuple => b = c /\ g = e
    BY <2>4, <2>5, <2>6, Zenon
  <2>11. /\ \A b \in Cores : \A e \in gc'[b].scratch : e \in gc[b].scratch
         /\ \A b \in Cores : \A e \in Entries(b)' : e \in Entries(b) \/ (b = c /\ e \in es)
    BY <1>2, Zenon
  <2> QED BY <1>1, <1>f, <2>1, <2>3, <2>7, <2>9, <2>10, <2>11, GcStep, ZenonT(40)
<1> QED
  BY <1>5, <1>6, <1>7, <1>8, <1>9, <1>10, ZenonT(40)

(* Replacing a tuple in the tree preserves the invariant. *)
LEMMA ReplaceStep ==
  ASSUME TxnInv, TxnTypes', UNCHANGED workload, NEW c \in Cores, Replace(c)
  PROVE  TxnInv'
<1>1. PICK w : w = Replacing(c)
  OBVIOUS
<1>2. PICK n : n = tx[c].head
  OBVIOUS
<1>3. PICK es : es = Collectible(c, n, w.tuple, w, heap)
  BY Zenon
<1>4. /\ tx[c].pc = "replace" /\ tree' = [tree EXCEPT ![w.key] = n]
      /\ heap' = [heap EXCEPT ![n] = Release(heap[n])]
      /\ Enqueue(c, es) /\ Become(c, [tx[c] EXCEPT !.pc = "write", !.head = None])
      /\ UNCHANGED <<clockVars, limbo>>
  BY <1>1, <1>2, <1>3, ZenonT(40) DEF Replace, At, Replacing
<1>5. n \in Tuples /\ w.tuple # n /\ w.tuple \in Tuples /\ OwnsReplaced(c)
  <2>1. OwnsReplaced(c)
    BY Zenon DEF TxnInv, OwnsOK
  <2>2. PICK x, k : Replacing(c).tuple = x /\ Replacing(c).key = k
    BY Zenon
  <2>a. tx[c].pc = "replace" /\ tx[c].head = n
    BY <1>2, <1>4, Zenon
  <2>3. n \in Tuples /\ x # n /\ x \in Tuples
    BY <2>2, <2>a, ReplacedFacts, SMTT(40)
  <2> QED BY <1>1, <2>1, <2>2, <2>3, Zenon
<1>6. heap[n].deleting = (w.val = None)
  BY <1>1, <1>2, <1>4, <1>5, ZenonT(40) DEF OwnsReplaced
<1>7. TxnTypes /\ tx[c] \in TxRec /\ heap[n] \in HeapRec
  BY <1>5, ZenonT(40) DEF TxnInv, TxnTypes
<1>8. heap'[n] = Release(heap[n]) /\ \A y \in Tuples : y # n => heap'[y] = heap[y]
  BY <1>4, <1>5, ZenonT(40) DEF TxnTypes
<1>9. /\ heap'[n].alive = heap[n].alive /\ heap'[n].owner = None /\ heap'[n].latest = heap[n].latest
      /\ heap'[n].deleting = heap[n].deleting /\ heap'[n].version = heap[n].version
      /\ heap'[n].next = heap[n].next
  BY <1>8, SMTT(40) DEF Release, HeapRec
<1>10. /\ tx'[c].pc = "write" /\ tx'[c].i = tx[c].i /\ tx'[c].head = None
       /\ tx'[c].write_set = tx[c].write_set /\ tx'[c].read_set = tx[c].read_set
       /\ tx'[c].order = tx[c].order /\ tx'[c].todo = tx[c].todo /\ tx'[c].tid = tx[c].tid
       /\ \A d \in Cores : d # c => tx'[d] = tx[d]
  BY <1>4, <1>7, ZenonT(40) DEF TxnTypes, Become, TxRec
<1>11. /\ \A e \in es : /\ e.tick = to_read_only_tick(EpochId(tx[c].tid))
                        /\ \/ e.tuple = w.tuple /\ ~heap[w.tuple].deleting /\ e.key = None
                           \/ e.tuple = n /\ e.key = w.key /\ heap[n].deleting
       /\ \A e, g \in es : e.tuple = g.tuple => e = g
  <2>1. PICK f : f = w.tuple
    OBVIOUS
  <2>2. f # n /\ es = Collectible(c, n, f, w, heap)
    BY <1>3, <1>5, <2>1, SMTT(40)
  <2>3. /\ \A e \in Collectible(c, n, f, w, heap) :
             /\ e.tick = to_read_only_tick(EpochId(tx[c].tid))
             /\ \/ e.tuple = f /\ f # None /\ ~heap[f].deleting /\ e.key = None
                \/ e.tuple = n /\ e.key = w.key /\ w.val = None
        /\ \A e, g \in Collectible(c, n, f, w, heap) : e.tuple = g.tuple => e = g
    BY <2>2, CollectibleFacts, ZenonT(40)
  <2> QED BY <1>6, <2>1, <2>2, <2>3, ZenonT(40)
<1>12. Replaces(c, w.key, w.tuple, n, es)
  BY <1>1, <1>2, <1>4, <1>8, <1>9, <1>10, <1>11, ZenonT(40) DEF Replaces
<1>13. UNCHANGED <<clockVars, limbo, workload>> /\ PinnedWindow'
  BY <1>4, ZenonT(40) DEF TxnInv, PinnedWindow, clockVars
<1> QED
  BY <1>12, <1>13, ReplacesCore, ReplacesTuples, ZenonT(40) DEF TxnInv
=============================================================================

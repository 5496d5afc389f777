------------------------------ MODULE RcuProofs ------------------------------
(***************************************************************************)
(* Deferred deletion is safe, for any cores, objects, nesting and ratio of  *)
(* rcu ticks to ticks: the grace period of the clock (PinnedWindow) and the *)
(* tick that free_with_fn waits for keep an object until every region that  *)
(* can have seen it is over.                                                *)
(***************************************************************************)
EXTENDS Rcu, TLAPS

(* Rcu ticks follow the order of ticks (rcu.h, to_rcu_ticks). *)
LEMMA RcuTicksMonotone ==
  ASSUME NEW a \in Nat, NEW b \in Nat, a <= b
  PROVE  to_rcu_ticks(a) \in Nat /\ to_rcu_ticks(a) <= to_rcu_ticks(b)
<1> DEFINE M == EpochTimeMultiplier
           qa == a \div M
           qb == b \div M
<1>1. M \in Nat \ {0}
  BY RcuAssumption
<1>2. qa \in Nat /\ qb \in Nat
  BY <1>1
<1>3. M * qa <= a /\ b < M * (qb + 1)
  BY <1>1
<1> HIDE DEF M, qa, qb
<1>4. ASSUME qb + 1 <= qa PROVE FALSE
  <2>1. PICK k \in Nat : qa = qb + 1 + k
    <3>1. qa - (qb + 1) \in Nat /\ qa = qb + 1 + (qa - (qb + 1))
      BY <1>2, <1>4
    <3> QED
      BY <3>1
  <2>2. M * qa = M * (qb + 1) + M * k
    BY <2>1, <1>1, <1>2
  <2>3. M * k \in Nat
    BY <2>1, <1>1
  <2>4. M * (qb + 1) \in Nat /\ M * qa \in Nat
    BY <1>1, <1>2
  <2> QED
    BY <1>3, <2>2, <2>3, <2>4
<1> QED
  BY <1>2, <1>4 DEF to_rcu_ticks, qa, qb, M

(* While no entry is added, nothing that was grasped outlives its grace. *)
LEMMA GraceKept ==
  ASSUME GraceOK, \A a \in Cores : Pending(a)' \subseteq Pending(a),
         \A d \in Cores : refs'[d] # {} => refs'[d] = refs[d] /\ pinned'[d] = pinned[d]
  PROVE  GraceOK'
<1> SUFFICES ASSUME NEW a \in Cores, NEW d \in Cores, NEW e \in Pending(a)', e.obj \in refs'[d]
             PROVE  (to_rcu_ticks(pinned[d]) <= e.tick)'
  BY Zenon DEF GraceOK
<1>1. e \in Pending(a) OBVIOUS
<1>2. refs'[d] = refs[d] /\ pinned'[d] = pinned[d] OBVIOUS
<1>3. to_rcu_ticks(pinned[d]) <= e.tick
  BY <1>1, <1>2, Zenon DEF GraceOK
<1> QED
  BY <1>2, <1>3, Zenon DEF to_rcu_ticks

(* While no entry is added, an entry is still the only one for its object. *)
LEMMA FreedOnceKept ==
  ASSUME FreedOnce, \A a \in Cores : Pending(a)' \subseteq Pending(a),
         \A d \in Cores : queue'[d] \cap scratch'[d] = {},
         \A d \in Cores : \A e \in Pending(d)' :
            status'[e.obj] = "unlinked" /\ \A a \in Cores : victim'[a] # e.obj
  PROVE  FreedOnce'
<1>1. ASSUME NEW a \in Cores, NEW d \in Cores, NEW e \in Pending(a)', NEW f \in Pending(d)',
             e.obj = f.obj
      PROVE  a = d /\ e = f
  <2>1. e \in Pending(a) /\ f \in Pending(d) OBVIOUS
  <2> QED
    BY <1>1, <2>1 DEF FreedOnce
<1> QED
  BY <1>1, Zenon DEF FreedOnce

(* A step that leaves the queues and the objects alone. *)
LEMMA FreedOnceSame ==
  ASSUME FreedOnce, UNCHANGED <<queue, scratch, status, victim>> PROVE FreedOnce'
<1>1. \A a \in Cores : Pending(a)' = Pending(a)
  BY DEF Pending
<1>2. \A d \in Cores : queue'[d] \cap scratch'[d] = {}
  BY DEF FreedOnce
<1>3. \A d \in Cores : \A e \in Pending(d)' :
        status'[e.obj] = "unlinked" /\ \A a \in Cores : victim'[a] # e.obj
  BY <1>1 DEF FreedOnce
<1> QED
  BY <1>1, <1>2, <1>3, FreedOnceKept

(* The initial state satisfies the inductive invariant. *)
LEMMA RcuInit == Init => RcuInv
<1> SUFFICES ASSUME Init PROVE RcuInv
  OBVIOUS
<1> USE DEF Init, ClockInit
<1>1. TypeOK
  BY DEF TypeOK, ClockTypeOK
<1>2. CleanupOK
  BY <1>1 DEF CleanupOK, QueueTicksGoUp, CleanupEntryOK, FreedOnce, Pending
<1>3. PinnedWindow
  BY DEF PinnedWindow
<1>4. GraceOK /\ NoUseAfterFree
  BY DEF GraceOK, NoUseAfterFree, Pending
<1>5. ASSUME NEW c \in Cores PROVE CoreOK(c)
  <2>1. /\ pinned[c] = 0 /\ depth[c] = 0 /\ refs[c] = {} /\ victim[c] = None
        /\ pc[c] = "user" /\ queue[c] = {} /\ scratch[c] = {}
    OBVIOUS
  <2> QED
    BY <2>1 DEF CoreOK
<1> QED
  BY <1>2, <1>3, <1>4, <1>5 DEF RcuInv

(* What a later tick does to the rcu ticks that are compared with it. *)
LEMMA LaterTicks ==
  ASSUME NEW a \in Nat, NEW b \in Nat, a <= b
  PROVE  FreeTick(a) \in Nat /\ FreeTick(a) <= FreeTick(b)
  BY RcuTicksMonotone DEF FreeTick

(* tickerloop bumps or publishes: no region and no queue changes. *)
LEMMA RcuClockStep ==
  ASSUME RcuInv, ClockStep PROVE RcuInv'
<1> USE DEF RcuInv, CleanupOK
<1>0. UNCHANGED rcuVars /\ pinned' = pinned
  BY DEF ClockStep, Bump, Publish
<1>1. /\ current_tick \in Nat /\ last_tick_inclusive \in Nat
      /\ current_tick' \in Nat /\ last_tick_inclusive' \in Nat
      /\ current_tick <= current_tick' /\ last_tick_inclusive <= last_tick_inclusive'
  BY DEF ClockStep, Bump, Publish, TypeOK, ClockTypeOK
<1>2. FreeTick(current_tick) \in Nat /\ FreeTick(current_tick) <= FreeTick(current_tick')
      /\ FreeTick(current_tick') \in Nat
  BY <1>1, LaterTicks
<1>3. /\ cleaning_rcu_tick_exclusive \in Nat /\ cleaning_rcu_tick_exclusive' \in Nat
      /\ cleaning_rcu_tick_exclusive <= cleaning_rcu_tick_exclusive'
  BY <1>1, RcuTicksMonotone DEF cleaning_rcu_tick_exclusive, global_last_tick_exclusive
<1>4. TypeOK'
  BY <1>0, <1>1 DEF TypeOK, ClockTypeOK, rcuVars, ClockStep, Bump, Publish
<1>5. PinnedWindow'
  BY <1>0 DEF PinnedWindow, ClockStep, Bump, Publish, TypeOK, ClockTypeOK
<1>6. QueueTicksGoUp' /\ FreedOnce' /\ GraceOK' /\ NoUseAfterFree'
  BY <1>0 DEF QueueTicksGoUp, FreedOnce, GraceOK, NoUseAfterFree, rcuVars, Pending,
              FreeTick, to_rcu_ticks
<1>7. CleanupEntryOK'
  BY <1>0, <1>3 DEF CleanupEntryOK, rcuVars, TypeOK
<1>8. ASSUME NEW c \in Cores PROVE CoreOK(c)'
  BY <1>0, <1>2, <1>3 DEF CoreOK, rcuVars, TypeOK, Entry
<1> QED
  BY <1>0, <1>4, <1>5, <1>6, <1>7, <1>8 DEF rcuVars

(* A region begins: in the outermost one nothing has been read yet. *)
LEMMA RcuRegionBegin ==
  ASSUME RcuInv, NEW c \in Cores, RegionBegin(c) PROVE RcuInv'
<1> USE DEF RcuInv, CleanupOK
<1>0. /\ current_tick \in Nat \ {0} /\ last_tick_inclusive \in Nat
      /\ depth[c] \in Nat /\ pinned[c] \in Nat
      /\ UNCHANGED <<current_tick, last_tick_inclusive, last_reaped_epoch, queue, scratch,
                     status, refs, victim, pc>>
  BY DEF TypeOK, ClockTypeOK, RegionBegin, Pin, clockVars
<1>1. /\ depth' = [depth EXCEPT ![c] = @ + 1]
      /\ pinned' = [pinned EXCEPT ![c] = IF depth[c] = 0 THEN current_tick ELSE @]
  BY DEF RegionBegin, Pin, clockVars, TypeOK, ClockTypeOK
<1>2. pinned'[c] # 0 /\ depth[c] = 0 => pinned[c] = 0 /\ refs[c] = {}
  BY DEF CoreOK, TypeOK
<1>3. TypeOK'
  BY <1>0, <1>1 DEF TypeOK, ClockTypeOK
<1>4. PinnedWindow'
  BY <1>0, <1>1 DEF PinnedWindow, TypeOK, ClockTypeOK
<1>5. QueueTicksGoUp'
  BY <1>0, <1>1, <1>2 DEF QueueTicksGoUp, CoreOK, TypeOK, ClockTypeOK, FreeTick, to_rcu_ticks
<1>6. FreedOnce' /\ NoUseAfterFree'
  BY <1>0 DEF FreedOnce, NoUseAfterFree, Pending
<1>7. GraceOK'
  <2> SUFFICES ASSUME NEW a \in Cores, NEW d \in Cores, NEW e \in Pending(a)',
                      e.obj \in refs[d]
               PROVE  to_rcu_ticks(pinned'[d]) <= e.tick
    BY <1>0 DEF GraceOK, to_rcu_ticks
  <2>1. pinned'[d] = pinned[d]
    BY <1>0, <1>1 DEF CoreOK, TypeOK, ClockTypeOK
  <2>2. e \in Pending(a)
    BY <1>0 DEF Pending
  <2> QED
    BY <2>1, <2>2 DEF GraceOK
<1>8. CleanupEntryOK'
  BY <1>0 DEF CleanupEntryOK, cleaning_rcu_tick_exclusive, global_last_tick_exclusive, to_rcu_ticks
<1>9. ASSUME NEW d \in Cores PROVE CoreOK(d)'
  BY <1>0, <1>1 DEF CoreOK, TypeOK, ClockTypeOK, RegionBegin, FreeTick, to_rcu_ticks,
     cleaning_rcu_tick_exclusive, global_last_tick_exclusive
<1> QED
  BY <1>0, <1>3, <1>4, <1>5, <1>6, <1>7, <1>8, <1>9

(* A region ends: a core without a region refers to nothing, and what it   *)
(* has queued is not ahead of the clock.                                   *)
LEMMA RcuRegionEnd ==
  ASSUME RcuInv, NEW c \in Cores, NEW b \in BOOLEAN, RegionEnd(c, b) PROVE RcuInv'
<1> USE DEF RcuInv, CleanupOK
<1>0. /\ current_tick \in Nat \ {0} /\ last_tick_inclusive \in Nat
      /\ depth[c] \in Nat \ {0} /\ pinned[c] \in Nat /\ pc[c] = "user" /\ victim[c] = None
      /\ UNCHANGED <<current_tick, last_tick_inclusive, last_reaped_epoch, queue, scratch,
                     status, victim>>
  BY DEF TypeOK, ClockTypeOK, RegionEnd, InRegion, Unpin, clockVars
<1>1. /\ depth' = [depth EXCEPT ![c] = @ - 1]
      /\ pinned' = [pinned EXCEPT ![c] = IF depth[c] = 1 THEN 0 ELSE @]
      /\ refs' = [refs EXCEPT ![c] = IF depth[c] = 1 THEN {} ELSE @]
      /\ pc' = [pc EXCEPT ![c] = IF depth[c] = 1 /\ b THEN "cleanup" ELSE "user"]
  BY <1>0 DEF RegionEnd, Unpin, clockVars, TypeOK, ClockTypeOK
<1>2. \A e \in queue[c] : e.tick <= FreeTick(current_tick)
  <2>1. pinned[c] # 0 /\ pinned[c] <= current_tick
    BY <1>0 DEF CoreOK, PinnedWindow
  <2>2. /\ FreeTick(pinned[c]) \in Nat /\ FreeTick(current_tick) \in Nat
        /\ FreeTick(pinned[c]) <= FreeTick(current_tick)
    BY <1>0, <2>1, LaterTicks
  <2>3. \A e \in queue[c] : e.tick \in Nat /\ e.tick <= FreeTick(pinned[c])
    BY <2>1 DEF QueueTicksGoUp, TypeOK, Entry
  <2> QED
    BY <2>2, <2>3
<1>3. TypeOK'
  BY <1>0, <1>1 DEF TypeOK, ClockTypeOK
<1>4. PinnedWindow'
  BY <1>0, <1>1 DEF PinnedWindow, TypeOK, ClockTypeOK
<1>5. QueueTicksGoUp'
  BY <1>0, <1>1 DEF QueueTicksGoUp, TypeOK, ClockTypeOK, FreeTick, to_rcu_ticks
<1>6. FreedOnce' /\ NoUseAfterFree'
  BY <1>0, <1>1 DEF FreedOnce, NoUseAfterFree, Pending, TypeOK
<1>7. GraceOK'
  <2> SUFFICES ASSUME NEW a \in Cores, NEW d \in Cores, NEW e \in Pending(a)',
                      e.obj \in refs'[d]
               PROVE  to_rcu_ticks(pinned'[d]) <= e.tick
    BY DEF GraceOK, to_rcu_ticks
  <2>1. pinned'[d] = pinned[d] /\ e.obj \in refs[d]
    BY <1>0, <1>1 DEF TypeOK, ClockTypeOK
  <2>2. e \in Pending(a)
    BY <1>0 DEF Pending
  <2> QED
    BY <2>1, <2>2 DEF GraceOK
<1>8. CleanupEntryOK'
  BY <1>0, <1>1 DEF CleanupEntryOK, TypeOK,
     cleaning_rcu_tick_exclusive, global_last_tick_exclusive, to_rcu_ticks
<1>9. ASSUME NEW d \in Cores PROVE CoreOK(d)'
  <2>1. CASE d = c
    BY <1>0, <1>1, <1>2, <2>1 DEF CoreOK, TypeOK, ClockTypeOK, FreeTick, to_rcu_ticks,
       cleaning_rcu_tick_exclusive, global_last_tick_exclusive
  <2>2. CASE d # c
    BY <1>0, <1>1, <2>2 DEF CoreOK, TypeOK, ClockTypeOK, FreeTick, to_rcu_ticks,
       cleaning_rcu_tick_exclusive, global_last_tick_exclusive
  <2> QED
    BY <2>1, <2>2
<1> QED
  BY <1>0, <1>3, <1>4, <1>5, <1>6, <1>7, <1>8, <1>9

(* An action of user code within a region that changes neither the clock   *)
(* nor the queues keeps what depends on those only.                        *)
LEMMA RcuUserStep ==
  ASSUME RcuInv,
         UNCHANGED <<clockVars, depth, last_reaped_epoch, queue, scratch, pc>>
  PROVE  /\ PinnedWindow' /\ QueueTicksGoUp' /\ CleanupEntryOK'
         /\ \A c \in Cores : Pending(c)' = Pending(c)
         /\ ClockTypeOK'
<1> USE DEF RcuInv, CleanupOK
<1>1. PinnedWindow' /\ ClockTypeOK'
  BY DEF PinnedWindow, clockVars, ClockTypeOK, TypeOK
<1>2. QueueTicksGoUp'
  BY DEF QueueTicksGoUp, clockVars, FreeTick, to_rcu_ticks
<1>3. CleanupEntryOK'
  BY DEF CleanupEntryOK, clockVars, cleaning_rcu_tick_exclusive, global_last_tick_exclusive,
         to_rcu_ticks
<1> QED
  BY <1>1, <1>2, <1>3 DEF Pending

(* Reading a pointer: what is linked does not wait to be freed. *)
LEMMA RcuAcquire ==
  ASSUME RcuInv, NEW c \in Cores, NEW o \in Objects, Acquire(c, o) PROVE RcuInv'
<1> USE DEF RcuInv, CleanupOK
<1>0. UNCHANGED <<clockVars, depth, last_reaped_epoch, queue, scratch, status, victim, pc>>
  BY DEF Acquire
<1>1. /\ status[o] = "linked" /\ pc[c] = "user" /\ depth[c] > 0
      /\ refs' = [refs EXCEPT ![c] = @ \cup {o}]
  BY DEF Acquire, InRegion
<1>2. /\ PinnedWindow' /\ QueueTicksGoUp' /\ CleanupEntryOK' /\ ClockTypeOK'
      /\ \A a \in Cores : Pending(a)' = Pending(a)
  BY <1>0, RcuUserStep
<1>3. TypeOK'
  BY <1>0, <1>1, <1>2 DEF TypeOK
<1>4. FreedOnce'
  BY <1>0 DEF FreedOnce, Pending
<1>5. NoUseAfterFree'
  BY <1>0, <1>1 DEF NoUseAfterFree, TypeOK
<1>6. GraceOK'
  <2> SUFFICES ASSUME NEW a \in Cores, NEW d \in Cores, NEW e \in Pending(a),
                      e.obj \in refs'[d]
               PROVE  to_rcu_ticks(pinned[d]) <= e.tick
    BY <1>0, <1>2 DEF GraceOK, to_rcu_ticks, clockVars
  <2>1. e.obj # o
    BY <1>1 DEF FreedOnce
  <2>2. e.obj \in refs[d]
    BY <1>1, <2>1 DEF TypeOK
  <2> QED
    BY <2>2 DEF GraceOK
<1>7. ASSUME NEW d \in Cores PROVE CoreOK(d)'
  BY <1>0, <1>1 DEF CoreOK, TypeOK, clockVars, FreeTick, to_rcu_ticks,
     cleaning_rcu_tick_exclusive, global_last_tick_exclusive
<1> QED
  BY <1>0, <1>2, <1>3, <1>4, <1>5, <1>6, <1>7

(* Unlinking and linking again: an object that waits, or is a victim, is   *)
(* unlinked, so it is neither the one unlinked now nor the one reused.     *)
LEMMA RcuUnlink ==
  ASSUME RcuInv, NEW c \in Cores, NEW o \in Objects, Unlink(c, o) \/ Link(c, o)
  PROVE  RcuInv'
<1> USE DEF RcuInv, CleanupOK
<1>0. /\ UNCHANGED <<clockVars, depth, last_reaped_epoch, queue, scratch, refs, pc>>
      /\ pc[c] = "user" /\ depth[c] > 0
  BY DEF Unlink, Link, InRegion
<1>1. /\ PinnedWindow' /\ QueueTicksGoUp' /\ CleanupEntryOK' /\ ClockTypeOK'
      /\ \A a \in Cores : Pending(a)' = Pending(a)
  BY <1>0, RcuUserStep
<1>2. /\ status[o] \in {"linked", "freed"}
      /\ \A d \in Cores : victim[d] # o
      /\ \A d \in Cores : \A e \in Pending(d) : e.obj # o
  <2>1. status[o] \in {"linked", "freed"}
    BY DEF Unlink, Link
  <2>2. \A d \in Cores : victim[d] # o
    BY <2>1, RcuAssumption DEF CoreOK
  <2>3. \A d \in Cores : \A e \in Pending(d) : e.obj # o
    BY <2>1 DEF FreedOnce
  <2> QED
    BY <2>1, <2>2, <2>3
<1>3. /\ status' \in [Objects -> {"linked", "unlinked", "freed"}]
      /\ \A p \in Objects : p # o => status'[p] = status[p]
      /\ status'[o] # "freed"
  BY DEF Unlink, Link, TypeOK
<1>4. /\ victim' \in [Cores -> Objects \cup {None}]
      /\ \A d \in Cores : d # c => victim'[d] = victim[d]
      /\ victim'[c] = victim[c] \/ (victim'[c] = o /\ status'[o] = "unlinked")
  BY DEF Unlink, Link, TypeOK
<1>5. TypeOK'
  BY <1>0, <1>1, <1>3, <1>4 DEF TypeOK
<1>6. FreedOnce'
  <2>1. ASSUME NEW d \in Cores, NEW e \in Pending(d)
        PROVE  status'[e.obj] = "unlinked" /\ \A a \in Cores : victim'[a] # e.obj
    <3>1. e.obj \in Objects
      BY DEF Pending, TypeOK, Entry
    <3> QED
      BY <1>2, <1>3, <1>4, <3>1 DEF FreedOnce
  <2>2. \A d \in Cores : queue'[d] \cap scratch'[d] = {}
    BY <1>0 DEF FreedOnce
  <2> HIDE DEF RcuInv, CleanupOK
  <2>3. FreedOnce
    BY DEF RcuInv, CleanupOK
  <2> QED
    BY <1>1, <2>1, <2>2, <2>3, FreedOnceKept
<1>7. NoUseAfterFree'
  BY <1>0, <1>3 DEF NoUseAfterFree, TypeOK
<1>8. GraceOK'
  <2>1. GraceOK /\ refs' = refs /\ pinned' = pinned
    BY <1>0 DEF clockVars
  <2> HIDE DEF RcuInv, CleanupOK
  <2> QED
    BY <1>1, <2>1, GraceKept
<1>9. ASSUME NEW d \in Cores PROVE CoreOK(d)'
  <2>1. victim'[d] # None => /\ pc[d] = "user" /\ depth[d] > 0
                             /\ status'[victim'[d]] = "unlinked"
    BY <1>0, <1>2, <1>3, <1>4 DEF CoreOK, TypeOK
  <2> QED
    BY <1>0, <2>1 DEF CoreOK, clockVars, FreeTick, to_rcu_ticks,
       cleaning_rcu_tick_exclusive, global_last_tick_exclusive
<1>10. \A a, d \in Cores : victim'[a] # None /\ victim'[a] = victim'[d] => a = d
  BY <1>2, <1>4
<1> QED
  BY <1>1, <1>5, <1>6, <1>7, <1>8, <1>9, <1>10

(* free_with_fn: a region that refers to the object began at most one tick *)
(* after the caller's, which is why FreeTick adds one.                     *)
LEMMA RcuFree ==
  ASSUME RcuInv, NEW c \in Cores, free_with_fn(c) PROVE RcuInv'
<1> USE DEF RcuInv, CleanupOK
<1> DEFINE new == [obj |-> victim[c], tick |-> FreeTick(pinned[c])]
<1>0. /\ UNCHANGED <<clockVars, depth, last_reaped_epoch, scratch, status, refs, pc>>
      /\ pc[c] = "user" /\ depth[c] > 0 /\ victim[c] # None
      /\ queue' = [queue EXCEPT ![c] = @ \cup {new}]
      /\ victim' = [victim EXCEPT ![c] = None]
  BY DEF free_with_fn, InRegion
<1>1. /\ pinned[c] \in Nat /\ pinned[c] # 0 /\ current_tick \in Nat
      /\ current_tick <= pinned[c] + 1
      /\ victim[c] \in Objects /\ status[victim[c]] = "unlinked"
      /\ scratch[c] = {}
  BY <1>0 DEF CoreOK, PinnedWindow, TypeOK, ClockTypeOK, CleanupEntryOK
<1>2. FreeTick(pinned[c]) \in Nat
  BY <1>1, LaterTicks
<1>3. new \in Entry /\ new.obj = victim[c] /\ new.tick = FreeTick(pinned[c])
  BY <1>1, <1>2 DEF Entry
<1> HIDE DEF new
<1>4. /\ \A d \in Cores : d # c => Pending(d)' = Pending(d)
      /\ Pending(c)' = Pending(c) \cup {new}
  BY <1>0 DEF Pending, TypeOK
<1>5. TypeOK'
  BY <1>0, <1>3 DEF TypeOK, ClockTypeOK, clockVars
<1>6. PinnedWindow' /\ NoUseAfterFree'
  BY <1>0 DEF PinnedWindow, NoUseAfterFree, clockVars
<1>7. QueueTicksGoUp'
  <2> SUFFICES ASSUME NEW d \in Cores, pinned[d] # 0, NEW e \in queue'[d]
               PROVE  e.tick <= FreeTick(pinned[d])
    BY <1>0 DEF QueueTicksGoUp, clockVars, FreeTick, to_rcu_ticks
  <2>1. CASE e \in queue[d]
    BY <2>1 DEF QueueTicksGoUp
  <2>2. CASE d = c /\ e = new
    BY <2>2, <1>2, <1>3
  <2> QED
    BY <2>1, <2>2, <1>0 DEF TypeOK
<1>8. CleanupEntryOK'
  BY <1>0 DEF CleanupEntryOK, clockVars, cleaning_rcu_tick_exclusive,
              global_last_tick_exclusive, to_rcu_ticks
<1>9. FreedOnce'
  <2>1. \A d \in Cores : \A e \in Pending(d) : e.obj # new.obj
    BY <1>3 DEF FreedOnce
  <2>2. ASSUME NEW a \in Cores, NEW d \in Cores, NEW e \in Pending(a)', NEW f \in Pending(d)',
               e.obj = f.obj
        PROVE  a = d /\ e = f
    BY <2>1, <2>2, <1>4 DEF FreedOnce
  <2>3. ASSUME NEW d \in Cores, NEW e \in Pending(d)'
        PROVE  status'[e.obj] = "unlinked" /\ \A a \in Cores : victim'[a] # e.obj
    <3>1. CASE e \in Pending(d)
      BY <3>1, <1>0, <1>4, RcuAssumption DEF FreedOnce, TypeOK, Pending, Entry
    <3>2. CASE e = new
      BY <3>2, <1>0, <1>1, <1>3, RcuAssumption DEF TypeOK
    <3> QED
      BY <3>1, <3>2, <1>4
  <2>4. \A d \in Cores : queue'[d] \cap scratch'[d] = {}
    BY <1>0, <1>1 DEF FreedOnce, TypeOK
  <2> QED
    BY <2>2, <2>3, <2>4 DEF FreedOnce
<1>10. GraceOK'
  <2> SUFFICES ASSUME NEW a \in Cores, NEW d \in Cores, NEW e \in Pending(a)',
                      e.obj \in refs[d]
               PROVE  to_rcu_ticks(pinned[d]) <= e.tick
    BY <1>0 DEF GraceOK, to_rcu_ticks, clockVars
  <2>1. CASE e \in Pending(a)
    BY <2>1 DEF GraceOK
  <2>2. CASE e = new
    <3>1. pinned[d] \in Nat /\ pinned[d] <= pinned[c] + 1
      BY <1>1 DEF CoreOK, PinnedWindow, TypeOK, ClockTypeOK
    <3> QED
      BY <2>2, <3>1, <1>1, <1>3, RcuTicksMonotone DEF FreeTick
  <2> QED
    BY <2>1, <2>2, <1>4
<1>11. ASSUME NEW d \in Cores PROVE CoreOK(d)'
  <2>1. CASE d = c
    BY <2>1, <1>0, <1>1 DEF CoreOK, clockVars, TypeOK, FreeTick, to_rcu_ticks,
       cleaning_rcu_tick_exclusive, global_last_tick_exclusive
  <2>2. CASE d # c
    BY <2>2, <1>0 DEF CoreOK, clockVars, TypeOK, FreeTick, to_rcu_ticks,
       cleaning_rcu_tick_exclusive, global_last_tick_exclusive
  <2> QED
    BY <2>1, <2>2
<1>12. \A a, d \in Cores : victim'[a] # None /\ victim'[a] = victim'[d] => a = d
  BY <1>0 DEF TypeOK
<1> QED
  BY <1>5, <1>6, <1>7, <1>8, <1>9, <1>10, <1>11, <1>12

(* do_cleanup takes the entries whose rcu tick is completed. *)
LEMMA RcuCleanup ==
  ASSUME RcuInv, NEW c \in Cores, do_cleanup(c) PROVE RcuInv'
<1> USE DEF RcuInv, CleanupOK
<1> DEFINE X == cleaning_rcu_tick_exclusive
<1>0. /\ UNCHANGED <<clockVars, depth, status, refs, victim>>
      /\ pc[c] = "cleanup" /\ depth[c] = 0 /\ scratch[c] = {}
  BY DEF do_cleanup, CoreOK, CleanupEntryOK
<1>1. X \in Nat /\ X' = X
  <2>1. last_tick_inclusive + 1 \in Nat
    BY DEF TypeOK, ClockTypeOK
  <2>2. X \in Nat
    BY <2>1, RcuTicksMonotone DEF cleaning_rcu_tick_exclusive, global_last_tick_exclusive
  <2> QED
    BY <2>2, <1>0 DEF clockVars, cleaning_rcu_tick_exclusive, global_last_tick_exclusive,
                      to_rcu_ticks
<1> HIDE DEF X
<1>2. CASE /\ pc' = [pc EXCEPT ![c] = "user"]
           /\ UNCHANGED <<last_reaped_epoch, queue, scratch>>
  <2>1. TypeOK'
    BY <1>0, <1>2 DEF TypeOK, ClockTypeOK, clockVars
  <2>2. PinnedWindow' /\ NoUseAfterFree' /\ FreedOnce' /\ GraceOK' /\ QueueTicksGoUp'
    BY <1>0, <1>2 DEF PinnedWindow, NoUseAfterFree, FreedOnce, GraceOK, QueueTicksGoUp,
       Pending, clockVars, FreeTick, to_rcu_ticks
  <2>3. CleanupEntryOK'
    BY <1>0, <1>1, <1>2 DEF CleanupEntryOK, X, TypeOK
  <2>4. ASSUME NEW d \in Cores PROVE CoreOK(d)'
    BY <1>0, <1>1, <1>2 DEF CoreOK, X, TypeOK, clockVars, FreeTick, to_rcu_ticks
  <2> QED
    BY <1>0, <2>1, <2>2, <2>3, <2>4
<1>3. CASE \E batch \in SUBSET queue[c] :
             /\ \A e \in batch : e.tick <= X - 1
             /\ X # 0
             /\ last_reaped_epoch' = [last_reaped_epoch EXCEPT ![c] = X - 1]
             /\ scratch' = [scratch EXCEPT ![c] = batch]
             /\ queue' = [queue EXCEPT ![c] = @ \ batch]
             /\ pc' = [pc EXCEPT ![c] = IF batch = {} THEN "user" ELSE "open"]
  <2>1. PICK batch \in SUBSET queue[c] :
             /\ \A e \in batch : e.tick <= X - 1
             /\ X # 0
             /\ last_reaped_epoch' = [last_reaped_epoch EXCEPT ![c] = X - 1]
             /\ scratch' = [scratch EXCEPT ![c] = batch]
             /\ queue' = [queue EXCEPT ![c] = @ \ batch]
             /\ pc' = [pc EXCEPT ![c] = IF batch = {} THEN "user" ELSE "open"]
    BY <1>3, Zenon
  <2>2. X - 1 \in Nat
    BY <1>1, <2>1
  <2>3. TypeOK'
    BY <1>0, <2>1, <2>2 DEF TypeOK, ClockTypeOK, clockVars
  <2>4. /\ \A d \in Cores : Pending(d)' = Pending(d) /\ queue'[d] \subseteq queue[d]
        /\ \A d \in Cores : queue'[d] \cap scratch'[d] = {}
    BY <1>0, <2>1 DEF Pending, TypeOK, FreedOnce
  <2>5. PinnedWindow' /\ NoUseAfterFree'
    BY <1>0 DEF PinnedWindow, NoUseAfterFree, clockVars
  <2>6. FreedOnce' /\ GraceOK'
    <3>1. GraceOK /\ FreedOnce /\ UNCHANGED <<refs, pinned, status, victim>>
      BY <1>0 DEF clockVars
    <3> HIDE DEF RcuInv, CleanupOK
    <3>2. \A d \in Cores : \A e \in Pending(d)' :
            status'[e.obj] = "unlinked" /\ \A a \in Cores : victim'[a] # e.obj
      BY <2>4, <3>1 DEF FreedOnce
    <3> QED
      BY <2>4, <3>1, <3>2, GraceKept, FreedOnceKept
  <2>7. QueueTicksGoUp'
    BY <1>0, <2>4 DEF QueueTicksGoUp, clockVars, FreeTick, to_rcu_ticks
  <2>8. CleanupEntryOK'
    BY <1>0, <1>1, <2>1, <2>2 DEF CleanupEntryOK, X, TypeOK
  <2>9. ASSUME NEW d \in Cores PROVE CoreOK(d)'
    <3>1. \A e \in scratch'[d] : e.tick < X'
      <4>1. CASE d = c
        BY <4>1, <1>1, <2>1, <2>2 DEF TypeOK, Entry
      <4>2. CASE d # c
        BY <4>2, <1>1, <2>1 DEF TypeOK, CoreOK, X
      <4> QED
        BY <4>1, <4>2
    <3>2. pinned[d] = 0 => \A e \in queue'[d] : e.tick <= FreeTick(current_tick)
      BY <2>4 DEF CoreOK
    <3>3. /\ refs[d] # {} \/ victim[d] # None => pc'[d] = "user" /\ depth[d] > 0
          /\ pc'[d] \in {"cleanup", "open"} => depth[d] = 0
          /\ pc'[d] = "reap" => depth[d] = 1
      BY <1>0, <2>1 DEF CoreOK, TypeOK
    <3> QED
      BY <1>0, <3>1, <3>2, <3>3 DEF CoreOK, X, clockVars, FreeTick, to_rcu_ticks
  <2> QED
    BY <1>0, <2>3, <2>5, <2>6, <2>7, <2>8, <2>9
<1>4. Accepted(queue[c], X - 1) \in SUBSET queue[c]
      /\ \A e \in Accepted(queue[c], X - 1) : e.tick <= X - 1
  BY DEF Accepted
<1> QED
  BY <1>2, <1>3, <1>4 DEF do_cleanup, X, Left, ReapedEpoch

(* The region of a clean-up begins and ends like any other. *)
LEMMA RcuReapRegion ==
  ASSUME RcuInv, NEW c \in Cores, ReapBegin(c) \/ ReapEnd(c) PROVE RcuInv'
<1> USE DEF RcuInv, CleanupOK
<1>0. /\ current_tick \in Nat \ {0} /\ last_tick_inclusive \in Nat
      /\ UNCHANGED <<current_tick, last_tick_inclusive, last_reaped_epoch, queue, scratch,
                     status, refs, victim>>
      /\ refs[c] = {} /\ victim[c] = None
  BY DEF TypeOK, ClockTypeOK, ReapBegin, ReapEnd, Pin, Unpin, CoreOK
<1>1. /\ \A d \in Cores \ {c} : /\ pinned'[d] = pinned[d] /\ depth'[d] = depth[d]
                                 /\ pc'[d] = pc[d]
      /\ \/ /\ pc[c] = "open" /\ pc'[c] = "reap" /\ depth'[c] = 1
            /\ pinned[c] = 0 /\ pinned'[c] = current_tick
         \/ /\ pc[c] = "reap" /\ pc'[c] = "cleanup" /\ depth'[c] = 0
            /\ pinned[c] # 0 /\ pinned'[c] = 0 /\ scratch[c] = {}
  BY DEF ReapBegin, ReapEnd, Pin, Unpin, CoreOK, TypeOK, ClockTypeOK
<1>2. TypeOK'
  BY <1>0 DEF TypeOK, ClockTypeOK, ReapBegin, ReapEnd, Pin, Unpin, CoreOK
<1>3. \A e \in queue[c] : e.tick <= FreeTick(current_tick)
  <2>1. CASE pinned[c] = 0
    BY <2>1 DEF CoreOK
  <2>2. CASE pinned[c] # 0
    <3>1. pinned[c] \in Nat /\ pinned[c] <= current_tick
      BY <2>2 DEF PinnedWindow, TypeOK, ClockTypeOK
    <3>2. /\ FreeTick(pinned[c]) \in Nat /\ FreeTick(current_tick) \in Nat
          /\ FreeTick(pinned[c]) <= FreeTick(current_tick)
      BY <1>0, <3>1, LaterTicks
    <3>3. \A e \in queue[c] : e.tick \in Nat /\ e.tick <= FreeTick(pinned[c])
      BY <2>2 DEF QueueTicksGoUp, TypeOK, Entry
    <3> HIDE DEF RcuInv, CleanupOK
    <3> QED
      BY <3>2, <3>3
  <2> QED
    BY <2>1, <2>2
<1>4. PinnedWindow'
  BY <1>0, <1>1 DEF PinnedWindow
<1>5. QueueTicksGoUp'
  BY <1>0, <1>1, <1>3 DEF QueueTicksGoUp, FreeTick, to_rcu_ticks
<1>6. FreedOnce' /\ NoUseAfterFree'
  BY <1>0, FreedOnceSame, Zenon DEF NoUseAfterFree
<1>7. GraceOK'
  <2>1. GraceOK /\ \A d \in Cores : refs'[d] = refs[d] /\ Pending(d)' = Pending(d)
    BY <1>0 DEF Pending
  <2>2. \A d \in Cores : refs'[d] # {} => pinned'[d] = pinned[d]
    BY <1>0, <1>1
  <2> HIDE DEF RcuInv, CleanupOK
  <2> QED
    BY <2>1, <2>2, GraceKept
<1>8. CleanupEntryOK'
  BY <1>0, <1>1 DEF CleanupEntryOK,
     cleaning_rcu_tick_exclusive, global_last_tick_exclusive, to_rcu_ticks
<1>9. ASSUME NEW d \in Cores PROVE CoreOK(d)'
  <2>0. CoreOK(d) OBVIOUS
  <2>1. /\ \A e \in scratch'[d] : e.tick < cleaning_rcu_tick_exclusive
        /\ queue'[d] = queue[d] /\ scratch'[d] = scratch[d]
        /\ FreeTick(current_tick)' = FreeTick(current_tick)
        /\ cleaning_rcu_tick_exclusive' = cleaning_rcu_tick_exclusive
    BY <1>0, <2>0, Zenon DEF CoreOK, FreeTick, to_rcu_ticks, cleaning_rcu_tick_exclusive,
       global_last_tick_exclusive
  <2>2. pinned'[d] = 0 => \A e \in queue'[d] : e.tick <= FreeTick(current_tick)
    BY <1>1, <1>3, <2>0, <2>1, Zenon DEF CoreOK
  <2>3. /\ pinned'[d] # 0 <=> depth'[d] > 0
        /\ refs'[d] # {} => pc'[d] = "user" /\ depth'[d] > 0
        /\ victim'[d] # None => pc'[d] = "user" /\ depth'[d] > 0
                                /\ status'[victim'[d]] = "unlinked"
        /\ pc'[d] \in {"cleanup", "open"} => depth'[d] = 0
        /\ pc'[d] = "reap" => depth'[d] = 1
    <3> HIDE DEF RcuInv, CleanupOK
    <3>1. CASE d = c
      <4>1. refs'[c] = {} /\ victim'[c] = None /\ current_tick # 0
        BY <1>0
      <4>2. \/ pc'[c] = "reap" /\ depth'[c] = 1 /\ pinned'[c] = current_tick
            \/ pc'[c] = "cleanup" /\ depth'[c] = 0 /\ pinned'[c] = 0
        BY <1>1, Zenon
      <4> QED BY <3>1, <4>1, <4>2, SMTT(30)
    <3>2. CASE d # c BY <1>0, <1>1, <2>0, <3>2 DEF CoreOK
    <3> QED BY <3>1, <3>2
  <2> QED
    BY <2>1, <2>2, <2>3, Zenon DEF CoreOK
<1> QED
  BY <1>0, <1>2, <1>4, <1>5, <1>6, <1>7, <1>8, <1>9

(* The object is freed: a region that still refers to it would have begun  *)
(* in an rcu tick that is completed, and no region is left in one.         *)
LEMMA RcuReap ==
  ASSUME RcuInv, NEW c \in Cores, NEW e \in scratch[c], Reap(c, e) PROVE RcuInv'
<1> USE DEF RcuInv, CleanupOK
<1>0. /\ UNCHANGED <<clockVars, depth, last_reaped_epoch, queue, refs, victim, pc>>
      /\ pc[c] = "reap"
      /\ status' = [status EXCEPT ![e.obj] = "freed"]
      /\ scratch' = [scratch EXCEPT ![c] = @ \ {e}]
  BY DEF Reap
<1>1. e \in Pending(c) /\ e.obj \in Objects /\ e.tick \in Nat
  BY DEF Pending, TypeOK, Entry
<1>2. \A d \in Cores : e.obj \notin refs[d]
  <2> SUFFICES ASSUME NEW d \in Cores, e.obj \in refs[d] PROVE FALSE
    BY Zenon
  <2>1. to_rcu_ticks(pinned[d]) <= e.tick
    BY <1>1 DEF GraceOK
  <2>2. e.tick < to_rcu_ticks(last_tick_inclusive + 1)
    BY DEF CoreOK, cleaning_rcu_tick_exclusive, global_last_tick_exclusive
  <2>3. /\ last_tick_inclusive + 1 \in Nat /\ pinned[d] \in Nat
        /\ last_tick_inclusive + 1 <= pinned[d]
    BY DEF CoreOK, PinnedWindow, TypeOK, ClockTypeOK
  <2>4. /\ to_rcu_ticks(last_tick_inclusive + 1) <= to_rcu_ticks(pinned[d])
        /\ to_rcu_ticks(last_tick_inclusive + 1) \in Nat
    BY <2>3, RcuTicksMonotone
  <2>5. to_rcu_ticks(pinned[d]) \in Nat
    BY <2>3, RcuTicksMonotone
  <2> QED
    BY <1>1, <2>1, <2>2, <2>4, <2>5
<1>3. \A d \in Cores : Pending(d)' \subseteq Pending(d) /\ scratch'[d] \subseteq scratch[d]
  BY <1>0 DEF Pending, TypeOK
<1>4. \A d \in Cores : \A f \in Pending(d)' : f.obj # e.obj
  <2> SUFFICES ASSUME NEW d \in Cores, NEW f \in Pending(d)', f.obj = e.obj PROVE FALSE
    OBVIOUS
  <2>1. d = c /\ f = e
    <3>1. f \in Pending(d) /\ FreedOnce
      BY <1>3
    <3> HIDE DEF RcuInv, CleanupOK
    <3> QED
      BY <1>1, <3>1 DEF FreedOnce
  <2>2. e \notin queue[c]
    BY DEF FreedOnce
  <2> QED
    BY <1>0, <2>1, <2>2 DEF Pending, TypeOK
<1>5. TypeOK'
  BY <1>0, Zenon DEF TypeOK, ClockTypeOK, clockVars
<1>6. PinnedWindow' /\ QueueTicksGoUp'
  BY <1>0 DEF PinnedWindow, QueueTicksGoUp, clockVars, FreeTick, to_rcu_ticks
<1>7. NoUseAfterFree'
  BY <1>0, <1>2 DEF NoUseAfterFree, TypeOK
<1>8. GraceOK'
  <2>1. GraceOK /\ refs' = refs /\ pinned' = pinned
    BY <1>0 DEF clockVars
  <2> HIDE DEF RcuInv, CleanupOK
  <2> QED
    BY <1>3, <2>1, GraceKept
<1>9. CleanupEntryOK'
  BY <1>0, <1>3 DEF CleanupEntryOK, clockVars, cleaning_rcu_tick_exclusive,
     global_last_tick_exclusive, to_rcu_ticks
<1>10. FreedOnce'
  <2>1. ASSUME NEW d \in Cores, NEW f \in Pending(d)'
        PROVE  status'[f.obj] = "unlinked" /\ \A a \in Cores : victim'[a] # f.obj
    <3>1. f \in Pending(d) /\ f.obj \in Objects
      BY <1>3 DEF Pending, TypeOK, Entry
    <3> QED
      BY <1>0, <1>4, <3>1 DEF FreedOnce, TypeOK
  <2>2. \A d \in Cores : queue'[d] \cap scratch'[d] = {}
    BY <1>0, <1>3 DEF FreedOnce
  <2> HIDE DEF RcuInv, CleanupOK
  <2>3. FreedOnce
    BY DEF RcuInv, CleanupOK
  <2> QED
    BY <1>3, <2>1, <2>2, <2>3, FreedOnceKept
<1>11. ASSUME NEW d \in Cores PROVE CoreOK(d)'
  <2>1. victim[d] # None => status'[victim[d]] = "unlinked"
    BY <1>0, <1>1 DEF CoreOK, FreedOnce, TypeOK
  <2> QED
    BY <1>0, <1>3, <2>1 DEF CoreOK, clockVars, FreeTick, to_rcu_ticks,
       cleaning_rcu_tick_exclusive, global_last_tick_exclusive
<1> QED
  BY <1>0, <1>5, <1>6, <1>7, <1>8, <1>9, <1>10, <1>11

(* The inductive invariant holds in every behaviour of regions, deferred   *)
(* deletions and clean-ups over the clock.                                 *)
THEOREM RcuInvariant == Spec => []RcuInv
<1>1. RcuInv /\ [Next]_vars => RcuInv'
  <2> SUFFICES ASSUME RcuInv, [Next]_vars PROVE RcuInv'
    OBVIOUS
  <2>1. CASE ClockStep
    BY <2>1, RcuClockStep
  <2>2. ASSUME NEW c \in Cores, RegionBegin(c) \/ \E b \in BOOLEAN : RegionEnd(c, b)
        PROVE  RcuInv'
    BY <2>2, RcuRegionBegin, RcuRegionEnd
  <2>3. ASSUME NEW c \in Cores,
               \/ \E o \in Objects : Acquire(c, o) \/ Unlink(c, o) \/ Link(c, o)
               \/ free_with_fn(c)
        PROVE  RcuInv'
    BY <2>3, RcuAcquire, RcuUnlink, RcuFree
  <2>4. ASSUME NEW c \in Cores, CleanStep(c) PROVE RcuInv'
    BY <2>4, RcuCleanup, RcuReapRegion, RcuReap DEF CleanStep
  <2>5. CASE UNCHANGED vars
    <3>1. UNCHANGED <<current_tick, last_tick_inclusive, pinned, depth, last_reaped_epoch,
                      queue, scratch, status, refs, victim, pc>>
      BY <2>5 DEF vars, clockVars, rcuVars
    <3>2. TypeOK'
      BY <3>1 DEF RcuInv, CleanupOK, TypeOK, ClockTypeOK
    <3>3. QueueTicksGoUp' /\ CleanupEntryOK' /\ PinnedWindow'
      BY <3>1, Zenon DEF RcuInv, CleanupOK, QueueTicksGoUp, CleanupEntryOK, PinnedWindow,
         FreeTick, cleaning_rcu_tick_exclusive, global_last_tick_exclusive, to_rcu_ticks
    <3>4. FreedOnce' /\ GraceOK' /\ NoUseAfterFree'
      BY <3>1, FreedOnceSame, Zenon DEF RcuInv, CleanupOK, Pending, GraceOK, NoUseAfterFree,
         to_rcu_ticks
    <3>5. /\ \A c \in Cores : CoreOK(c)'
          /\ \A c, d \in Cores : victim'[c] # None /\ victim'[c] = victim'[d] => c = d
      BY <3>1, Zenon DEF RcuInv, CoreOK, FreeTick, cleaning_rcu_tick_exclusive,
         global_last_tick_exclusive, to_rcu_ticks
    <3> QED
      BY <3>2, <3>3, <3>4, <3>5 DEF RcuInv, CleanupOK
  <2> QED
    BY <2>1, <2>2, <2>3, <2>4, <2>5 DEF Next
<1> QED
  BY RcuInit, <1>1, PTL DEF Spec

(* What a region has read stays allocated until the region ends. *)
THEOREM NeverUsedAfterFree == Spec => []NoUseAfterFree
<1>1. RcuInv => NoUseAfterFree
  BY DEF RcuInv
<1> QED
  BY RcuInvariant, <1>1, PTL

(* do_cleanup never finds a queue out of order, an epoch reaped ahead of   *)
(* the clock or a scratch queue in use, and frees nothing twice.           *)
THEOREM CleanupsNeverFail == Spec => []CleanupOK
<1>1. RcuInv => CleanupOK
  BY DEF RcuInv
<1> QED
  BY RcuInvariant, <1>1, PTL
=============================================================================

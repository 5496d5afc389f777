---------------------------- MODULE TickerProofs ----------------------------
(***************************************************************************)
(* Proofs about the ticker, for any number of cores, any bound on ticks    *)
(* and any nesting depth.                                                  *)
(***************************************************************************)
EXTENDS Ticker, SequenceTheorems, TLAPS

(* Removing the last element of a nonempty sequence, as guard's destructor *)
(* does, leaves a sequence one shorter with the same elements.             *)
LEMMA PopLast ==
  ASSUME NEW s \in Seq(Nat), Len(s) > 0
  PROVE  /\ SubSeq(s, 1, Len(s) - 1) \in Seq(Nat)
         /\ Len(SubSeq(s, 1, Len(s) - 1)) = Len(s) - 1
         /\ \A i \in 1 .. Len(s) - 1 : SubSeq(s, 1, Len(s) - 1)[i] = s[i]
         /\ SubSeq(s, 1, Len(s) - 1) = <<>> <=> Len(s) = 1
<1>1. SubSeq(s, 1, Len(s) - 1) \in Seq(Nat)
  OBVIOUS
<1>2. Len(SubSeq(s, 1, Len(s) - 1)) = Len(s) - 1
  BY SMTT(30)
<1>3. \A i \in 1 .. Len(s) - 1 : SubSeq(s, 1, Len(s) - 1)[i] = s[i]
  OBVIOUS
<1>4. ASSUME NEW q \in Seq(Nat) PROVE q = <<>> <=> Len(q) = 0
  BY EmptySeq
<1>5. SubSeq(s, 1, Len(s) - 1) = <<>> <=> Len(s) - 1 = 0
  BY <1>1, <1>2, <1>4, Zenon
<1> QED
  BY <1>1, <1>2, <1>3, <1>5

(* The initial state satisfies the inductive invariant. *)
LEMMA TickInvInit == TickInit => TickInv
  BY TickerAssumption DEF TickInit, TickInv, LoopInv, CoreInv, TickTypeOK, Cores

(* Every step of a core's guard preserves the inductive invariant. *)
LEMMA TickInvGuard ==
  ASSUME TickInv, NEW c \in Cores, GuardOutermost(c) \/ GuardStep(c)
  PROVE  TickInv'
<1> USE DEF TickInv
<1>1. CASE GuardOutermost(c)
  <2>1. TickTypeOK'
    BY <1>1 DEF TickTypeOK, GuardOutermost, CoreInv
  <2>2. LoopInv'
    BY <1>1 DEF LoopInv, GuardOutermost
  <2>3. ASSUME NEW d \in Cores PROVE CoreInv(d)'
    BY <1>1 DEF TickTypeOK, LoopInv, CoreInv, GuardOutermost
  <2> QED
    BY <2>1, <2>2, <2>3
<1>2. CASE GuardNested(c)
  <2>1. TickTypeOK'
    BY <1>2 DEF TickTypeOK, GuardNested, CoreInv
  <2>2. LoopInv'
    BY <1>2 DEF LoopInv, GuardNested
  <2>3. ASSUME NEW d \in Cores PROVE CoreInv(d)'
    <3>1. CASE d = c
      <4>1. slot_tick[c] \in Nat /\ guards[c] \in Seq(Nat) /\ depth[c] \in Nat
        BY DEF TickTypeOK
      <4>2. Len(guards[c]) = depth[c] /\ depth[c] > 0
        BY <1>2, <4>1 DEF CoreInv, GuardNested
      <4>3. guards'[c] = Append(guards[c], slot_tick[c]) /\ depth'[c] = depth[c] + 1
        BY <1>2 DEF TickTypeOK, GuardNested
      <4>4. /\ guards[c] # <<>> /\ guards'[c] # <<>>
            /\ Len(guards'[c]) = Len(guards[c]) + 1
            /\ \A i \in 1 .. Len(guards'[c]) : guards'[c][i] = slot_tick[c]
        BY <4>1, <4>2, <4>3, AppendProperties, EmptySeq, SMTT(40) DEF CoreInv
      <4>5. UNCHANGED <<current_tick, slot_tick, slot_lock, local_tick, guard_pc, loop, visit>>
        BY <1>2 DEF GuardNested
      <4>6. guard_pc[c] = "run"
        BY <1>2 DEF GuardNested
      <4> QED
        BY <3>1, <4>2, <4>3, <4>4, <4>5, <4>6 DEF CoreInv
    <3>2. CASE d # c
      BY <1>2, <3>2 DEF TickTypeOK, CoreInv, GuardNested
    <3> QED
      BY <3>1, <3>2
  <2> QED
    BY <2>1, <2>2, <2>3
<1>3. CASE GuardLock(c)
  <2>1. TickTypeOK'
    BY <1>3 DEF TickTypeOK, GuardLock, CoreInv
  <2>2. LoopInv'
    BY <1>3 DEF LoopInv, GuardLock
  <2>3. ASSUME NEW d \in Cores PROVE CoreInv(d)'
    BY <1>3 DEF TickTypeOK, LoopInv, CoreInv, GuardLock
  <2> QED
    BY <2>1, <2>2, <2>3
<1>4. CASE GuardReadTick(c)
  <2>1. TickTypeOK'
    BY <1>4 DEF TickTypeOK, GuardReadTick, CoreInv
  <2>2. LoopInv'
    BY <1>4 DEF LoopInv, GuardReadTick
  <2>3. ASSUME NEW d \in Cores PROVE CoreInv(d)'
    BY <1>4 DEF TickTypeOK, LoopInv, CoreInv, GuardReadTick
  <2> QED
    BY <2>1, <2>2, <2>3
<1>5. CASE GuardStoreTick(c)
  <2>1. TickTypeOK'
    BY <1>5 DEF TickTypeOK, GuardStoreTick, CoreInv
  <2>2. LoopInv'
    BY <1>5 DEF LoopInv, GuardStoreTick
  <2>3. ASSUME NEW d \in Cores PROVE CoreInv(d)'
    BY <1>5, SMTT(40) DEF TickTypeOK, LoopInv, CoreInv, GuardStoreTick
  <2> QED
    BY <2>1, <2>2, <2>3
<1>6. CASE GuardEnd(c)
  <2>0. /\ guards[c] \in Seq(Nat) /\ depth[c] \in Nat \ {0}
        /\ guard_pc[c] = "run" /\ Len(guards[c]) = depth[c]
        /\ guards'[c] = SubSeq(guards[c], 1, Len(guards[c]) - 1)
        /\ guards'[c] \in Seq(Nat)
        /\ Len(guards'[c]) = depth[c] - 1
        /\ \A i \in 1 .. Len(guards'[c]) : guards'[c][i] = guards[c][i]
        /\ guards'[c] = <<>> <=> depth[c] = 1
        /\ guards[c] # <<>>
    <3>1. guards[c] \in Seq(Nat) /\ depth[c] \in Nat \ {0} /\ guard_pc[c] = "run"
      BY <1>6 DEF TickTypeOK, GuardEnd
    <3>2. Len(guards[c]) = depth[c]
      BY <3>1 DEF CoreInv
    <3>3. guards'[c] = SubSeq(guards[c], 1, Len(guards[c]) - 1)
      BY <1>6 DEF TickTypeOK, GuardEnd
    <3>4. guards[c] # <<>>
      BY <3>1, <3>2
    <3> DEFINE s == guards[c]
    <3>5. s \in Seq(Nat) /\ Len(s) > 0
      BY <3>1, <3>2
    <3> HIDE DEF s
    <3>6. /\ SubSeq(s, 1, Len(s) - 1) \in Seq(Nat)
          /\ Len(SubSeq(s, 1, Len(s) - 1)) = Len(s) - 1
          /\ \A i \in 1 .. Len(s) - 1 : SubSeq(s, 1, Len(s) - 1)[i] = s[i]
          /\ SubSeq(s, 1, Len(s) - 1) = <<>> <=> Len(s) = 1
      BY <3>5, PopLast, Zenon
    <3> QED
      BY <3>1, <3>2, <3>3, <3>4, <3>6, Zenon DEF s
  <2>1. TickTypeOK'
    <3>1. guards' \in [Cores -> Seq(Nat)]
      BY <1>6, <2>0, SMTT(40) DEF TickTypeOK, GuardEnd
    <3>2. depth' \in [Cores -> Nat]
      BY <1>6, <2>0, SMTT(40) DEF TickTypeOK, GuardEnd
    <3> QED
      BY <1>6, <3>1, <3>2 DEF TickTypeOK, GuardEnd
  <2>2. LoopInv'
    BY <1>6 DEF LoopInv, GuardEnd
  <2>3. ASSUME NEW d \in Cores PROVE CoreInv(d)'
    <3>1. CASE d = c
      <4>1. depth'[c] = depth[c] - 1 /\ guard_pc'[c] = IF depth[c] = 1 THEN "unlock" ELSE "run"
        BY <1>6 DEF TickTypeOK, GuardEnd
      <4>2. UNCHANGED <<current_tick, slot_tick, slot_lock, local_tick, loop, visit>>
        BY <1>6 DEF GuardEnd
      <4>3. \A i \in 1 .. Len(guards'[c]) : guards'[c][i] = slot_tick[c]
        BY <2>0 DEF CoreInv
      <4> QED
        BY <2>0, <3>1, <4>1, <4>2, <4>3, Zenon DEF CoreInv
    <3>2. CASE d # c
      BY <1>6, <3>2 DEF TickTypeOK, CoreInv, GuardEnd
    <3> QED
      BY <3>1, <3>2
  <2> QED
    BY <2>1, <2>2, <2>3
<1>7. CASE GuardUnlock(c)
  <2>1. TickTypeOK'
    BY <1>7 DEF TickTypeOK, GuardUnlock, CoreInv
  <2>2. LoopInv'
    BY <1>7 DEF LoopInv, GuardUnlock
  <2>3. ASSUME NEW d \in Cores PROVE CoreInv(d)'
    BY <1>7 DEF TickTypeOK, LoopInv, CoreInv, GuardUnlock
  <2> QED
    BY <2>1, <2>2, <2>3
<1> QED
  BY <1>1, <1>2, <1>3, <1>4, <1>5, <1>6, <1>7 DEF GuardStep

(* Every step of tickerloop preserves the inductive invariant. *)
LEMMA TickInvLoop ==
  ASSUME TickInv, LoopStep
  PROVE  TickInv'
<1> USE DEF TickInv
<1>0. visit < NMAXCORES => visit \in Cores /\ visit + 1 \in 0 .. NMAXCORES
  BY TickerAssumption DEF TickTypeOK, Cores
<1>c. Cores \subseteq Int /\ \A d \in Cores : 0 <= d /\ d < NMAXCORES
  BY TickerAssumption DEF Cores
<1>1. CASE LoopBump
  <2>1. TickTypeOK'
    BY TickerAssumption, <1>0, <1>c, <1>1 DEF TickTypeOK, LoopInv, LoopBump
  <2>2. LoopInv'
    BY <1>0, <1>c, <1>1 DEF LoopInv, TickTypeOK, LoopBump
  <2>3. ASSUME NEW d \in Cores PROVE CoreInv(d)'
    BY <1>0, <1>c, <1>1 DEF TickTypeOK, LoopInv, CoreInv, LoopBump
  <2> QED
    BY <2>1, <2>2, <2>3
<1>2. CASE LoopRead
  <2>1. TickTypeOK'
    BY <1>0, <1>c, <1>2, SMTT(40) DEF TickTypeOK, LoopInv, LoopRead
  <2>2. LoopInv'
    BY <1>0, <1>c, <1>2 DEF LoopInv, TickTypeOK, LoopRead
  <2>3. ASSUME NEW d \in Cores PROVE CoreInv(d)'
    <3>1. CASE slot_tick[visit] = current_tick
      <4>1. d < visit' => slot_tick[d] = current_tick
        BY <1>0, <1>c, <1>2, <3>1, SMTT(40) DEF TickTypeOK, CoreInv, LoopRead
      <4> QED
        BY <1>0, <1>c, <1>2, <3>1, <4>1 DEF TickTypeOK, CoreInv, LoopRead
    <3>2. CASE slot_tick[visit] # current_tick
      BY <1>0, <1>c, <1>2, <3>2 DEF TickTypeOK, CoreInv, LoopRead
    <3> QED
      BY <3>1, <3>2
  <2> QED
    BY <2>1, <2>2, <2>3
<1>3. CASE LoopLock
  <2>1. TickTypeOK'
    BY <1>0, <1>c, <1>3, SMTT(40) DEF TickTypeOK, LoopInv, LoopLock
  <2>2. LoopInv'
    BY <1>0, <1>c, <1>3 DEF LoopInv, TickTypeOK, LoopLock
  <2>3. ASSUME NEW d \in Cores PROVE CoreInv(d)'
    BY <1>0, <1>c, <1>3, SMTT(40) DEF TickTypeOK, LoopInv, CoreInv, LoopLock
  <2> QED
    BY <2>1, <2>2, <2>3
<1>4. CASE LoopStore
  <2>1. TickTypeOK'
    BY <1>0, <1>c, <1>4, SMTT(40) DEF TickTypeOK, LoopInv, LoopStore
  <2>2. LoopInv'
    BY <1>0, <1>c, <1>4 DEF LoopInv, TickTypeOK, LoopStore
  <2>3. ASSUME NEW d \in Cores PROVE CoreInv(d)'
    <3>1. CASE d = visit
      <4>1. slot_lock[d] = "ticker" /\ guards[d] = <<>> /\ guard_pc[d] # "store"
        BY <1>4, <3>1 DEF CoreInv, LoopStore
      <4> QED
        BY <1>4, <3>1, <4>1 DEF TickTypeOK, CoreInv, LoopStore
    <3>2. CASE d # visit
      BY <1>c, <1>4, <3>2 DEF TickTypeOK, CoreInv, LoopStore
    <3> QED
      BY <3>1, <3>2
  <2> QED
    BY <2>1, <2>2, <2>3
<1>5. CASE LoopUnlock
  <2>1. TickTypeOK'
    BY <1>0, <1>c, <1>5 DEF TickTypeOK, LoopInv, LoopUnlock
  <2>2. LoopInv'
    BY <1>0, <1>c, <1>5 DEF LoopInv, TickTypeOK, LoopUnlock
  <2>3. ASSUME NEW d \in Cores PROVE CoreInv(d)'
    BY <1>0, <1>c, <1>5 DEF TickTypeOK, LoopInv, CoreInv, LoopUnlock
  <2> QED
    BY <2>1, <2>2, <2>3
<1>6. CASE LoopPublish
  <2>1. TickTypeOK'
    BY <1>0, <1>c, <1>6 DEF TickTypeOK, LoopInv, LoopPublish
  <2>2. LoopInv'
    BY <1>0, <1>c, <1>6 DEF LoopInv, TickTypeOK, LoopPublish
  <2>3. ASSUME NEW d \in Cores PROVE CoreInv(d)'
    BY <1>0, <1>c, <1>6 DEF TickTypeOK, LoopInv, CoreInv, LoopPublish
  <2> QED
    BY <2>1, <2>2, <2>3
<1> QED
  BY <1>1, <1>2, <1>3, <1>4, <1>5, <1>6 DEF LoopStep

(* The inductive invariant holds in every reachable state. *)
THEOREM TickInvAlways == TickSpec => []TickInv
<1>1. TickInv /\ [TickNext]_tickVars => TickInv'
  <2> SUFFICES ASSUME TickInv, [TickNext]_tickVars PROVE TickInv'
    OBVIOUS
  <2>1. CASE UNCHANGED tickVars
    BY <2>1 DEF tickVars, TickInv, TickTypeOK, LoopInv, CoreInv
  <2> QED
    BY <2>1, TickInvGuard, TickInvLoop DEF TickNext
<1> QED
  BY <1>1, TickInvInit, PTL DEF TickSpec

(* The ticker's variables keep their types. *)
THEOREM TypeCorrect == TickSpec => []TickTypeOK
  BY TickInvAlways, PTL DEF TickInv

(* The inductive invariant rules out a live guard in a completed tick. *)
LEMMA TickInvSafe == TickInv => NoGuardInCompletedTick
<1> SUFFICES ASSUME TickInv, NEW c \in Cores, NEW i \in 1 .. Len(guards[c])
             PROVE  last_tick_inclusive < guards[c][i]
  BY DEF NoGuardInCompletedTick
<1>1. guards[c][i] = slot_tick[c]
  BY DEF TickInv, CoreInv
<1>2. last_tick_inclusive < slot_tick[c]
  BY DEF TickInv, TickTypeOK, LoopInv, CoreInv
<1> QED
  BY <1>1, <1>2

(* No guard, outermost or nested, is ever alive in a tick that             *)
(* last_tick_inclusive_ declares completed.                                *)
THEOREM GuardsOutliveNoTick == TickSpec => []NoGuardInCompletedTick
  BY TickInvAlways, TickInvSafe, PTL

(* A guarded core's slot keeps the tick of its outermost guard.            *)
THEOREM SlotStaysPinned == TickSpec => []SlotPinnedByGuard
<1>1. TickInv => SlotPinnedByGuard
  BY DEF TickInv, CoreInv, SlotPinnedByGuard
<1> QED
  BY <1>1, TickInvAlways, PTL

(* The slots seen by tickerloop hold the old tick or the new one. *)
THEOREM SlotsStayWithinOneTick == TickSpec => []SlotsWithinOneTick
<1>1. TickInv => SlotsWithinOneTick
  BY DEF TickInv, CoreInv, SlotsWithinOneTick
<1> QED
  BY <1>1, TickInvAlways, PTL

(* No step moves a slot back to an earlier tick. *)
THEOREM SlotsMonotonic == TickSpec => SlotsNeverGoBack
<1>1. TickInv /\ [TickNext]_tickVars => [\A c \in Cores : slot_tick[c] <= slot_tick'[c]]_tickVars
  <2> SUFFICES ASSUME TickInv, TickNext, NEW c \in Cores
               PROVE  slot_tick[c] <= slot_tick'[c]
    OBVIOUS
  <2>0. /\ slot_tick \in [Cores -> Nat \ {0}] /\ slot_tick[c] \in Nat
        /\ current_tick \in Nat /\ slot_tick[c] <= current_tick
    BY DEF TickInv, TickTypeOK, CoreInv
  <2>1. CASE LoopStore
    BY <2>0, <2>1 DEF LoopStore
  <2>2. ASSUME NEW d \in Cores, GuardStoreTick(d) PROVE slot_tick[c] <= slot_tick'[c]
    BY <2>0, <2>2 DEF GuardStoreTick, TickInv, CoreInv
  <2>3. CASE UNCHANGED slot_tick
    BY <2>0, <2>3
  <2> QED
    BY <2>1, <2>2, <2>3
    DEF TickNext, LoopStep, GuardStep, GuardOutermost, GuardNested, GuardLock, GuardReadTick,
        GuardEnd, GuardUnlock, LoopBump, LoopRead, LoopLock, LoopUnlock, LoopPublish
<1> QED
  BY <1>1, TickInvAlways, PTL DEF TickSpec, SlotsNeverGoBack

-----------------------------------------------------------------------------
(* What core c pins, read off its program counter and its guards. *)
PinnedOf(c) ==
  /\ guard_pc[c] = "store" => PinnedTick[c] = local_tick[c]
  /\ guards[c] # <<>> => PinnedTick[c] = slot_tick[c]
  /\ guard_pc[c] # "store" /\ guards[c] = <<>> => PinnedTick[c] = 0

PinnedOfAll == \A c \in Cores : PinnedOf(c)

(* PinnedOf holds of every core. *)
LEMMA PinnedTickOf == TickInv => PinnedOfAll
<1> SUFFICES ASSUME TickInv, NEW c \in Cores PROVE PinnedOf(c)
  BY DEF PinnedOfAll
<1>1. PinnedTick[c] = IF guard_pc[c] = "store" THEN local_tick[c]
                      ELSE IF guards[c] # <<>> THEN guards[c][1] ELSE 0
  BY DEF PinnedTick
<1>2. guards[c] # <<>> => guard_pc[c] # "store" /\ guards[c][1] = slot_tick[c]
  BY EmptySeq DEF TickInv, TickTypeOK, CoreInv
<1> QED
  BY <1>1, <1>2 DEF PinnedOf

(* A step that changes no core's program counter, guards, slot or local    *)
(* tick changes nothing that is pinned.                                    *)
LEMMA PinnedTickStable ==
  ASSUME UNCHANGED <<local_tick, guard_pc, guards>>
  PROVE  PinnedTick' = PinnedTick
  BY DEF PinnedTick

(* A step of core c leaves what the other cores pin alone. *)
LEMMA PinnedTickExcept ==
  ASSUME NEW c \in Cores, NEW v,
         PinnedTick'[c] = v,
         \A d \in Cores \ {c} : /\ guard_pc'[d] = guard_pc[d]
                                /\ guards'[d] = guards[d]
                                /\ local_tick'[d] = local_tick[d]
  PROVE  PinnedTick' = [PinnedTick EXCEPT ![c] = v]
<1>1. ASSUME NEW d \in Cores PROVE PinnedTick'[d] = [PinnedTick EXCEPT ![c] = v][d]
  BY DEF PinnedTick
<1> QED
  BY <1>1, Zenon DEF PinnedTick

(* A step of core c that does not change what c pins changes nothing that  *)
(* is pinned.                                                              *)
LEMMA PinnedTickSame ==
  ASSUME NEW c \in Cores,
         PinnedTick'[c] = PinnedTick[c],
         \A d \in Cores \ {c} : /\ guard_pc'[d] = guard_pc[d]
                                /\ guards'[d] = guards[d]
                                /\ local_tick'[d] = local_tick[d]
  PROVE  PinnedTick' = PinnedTick
<1>1. ASSUME NEW d \in Cores PROVE PinnedTick'[d] = PinnedTick[d]
  BY DEF PinnedTick
<1> QED
  BY <1>1 DEF PinnedTick

(* A step of a guard is a Pin, an Unpin or a stutter of the clock. *)
LEMMA GuardRefines ==
  ASSUME TickInv, TickInv', NEW c \in Cores, GuardOutermost(c) \/ GuardStep(c)
  PROVE  Clock!Pin(c) \/ Clock!Unpin(c) \/ UNCHANGED Clock!clockVars
<1> DEFINE Others == \A d \in Cores \ {c} : /\ guard_pc'[d] = guard_pc[d]
                                            /\ guards'[d] = guards[d]
                                            /\ local_tick'[d] = local_tick[d]
<1>t. guard_pc \in [Cores -> {"run", "lock", "read", "store", "unlock"}] /\ guards \in [Cores -> Seq(Nat)]
      /\ local_tick \in [Cores -> Nat] /\ slot_tick \in [Cores -> Nat \ {0}]
  BY SMTT(40) DEF TickInv, TickTypeOK
<1>i. CoreInv(c) /\ CoreInv(c)'
  BY DEF TickInv, Cores
<1>u. UNCHANGED <<current_tick, last_tick_inclusive>>
  BY DEF GuardStep, GuardOutermost, GuardNested, GuardLock, GuardReadTick,
         GuardStoreTick, GuardEnd, GuardUnlock
<1>o. Others
  BY <1>t DEF GuardStep, GuardOutermost, GuardNested, GuardLock, GuardReadTick,
         GuardStoreTick, GuardEnd, GuardUnlock
<1>p. PinnedOf(c)
  BY PinnedTickOf DEF PinnedOfAll
<1>q. PinnedOf(c)'
  <2>1. PinnedOfAll'
    BY PinnedTickOf, PTL
  <2> QED
    BY <2>1 DEF PinnedOfAll, Cores
<1>1. CASE GuardReadTick(c)
  <2>1. PinnedTick[c] = 0
    BY <1>1, <1>p, <1>i DEF PinnedOf, GuardReadTick, CoreInv
  <2>2. PinnedTick'[c] = current_tick
    BY <1>1, <1>q, <1>t DEF PinnedOf, GuardReadTick
  <2> QED
    BY <1>o, <1>u, <2>1, <2>2, PinnedTickExcept DEF Clock!Pin
<1>2. CASE GuardEnd(c) /\ depth[c] = 1
  <2>1. guards[c] # <<>> /\ PinnedTick[c] # 0
    BY <1>2, <1>p, <1>i, <1>t, EmptySeq DEF PinnedOf, GuardEnd, CoreInv
  <2>2. PinnedTick'[c] = 0
    BY <1>2, <1>q, <1>t, <1>i DEF PinnedOf, GuardEnd, CoreInv
  <2> QED
    BY <1>o, <1>u, <2>1, <2>2, PinnedTickExcept DEF Clock!Unpin
<1>3. CASE GuardEnd(c) /\ depth[c] # 1
  <2>1. guards[c] # <<>> /\ guards'[c] # <<>> /\ slot_tick'[c] = slot_tick[c]
    <3>1. guard_pc[c] = "run" /\ guard_pc'[c] = "run" /\ slot_tick' = slot_tick
      BY <1>3, <1>t DEF GuardEnd
    <3>2. depth[c] \in Nat /\ depth[c] > 1 /\ depth'[c] = depth[c] - 1
      BY <1>3 DEF GuardEnd, TickInv, TickTypeOK
    <3>3. Len(guards[c]) = depth[c] /\ Len(guards'[c]) = depth'[c]
      BY <1>i, <3>1 DEF CoreInv
    <3> QED
      BY <3>1, <3>2, <3>3
  <2> QED
    BY <1>o, <1>u, <1>p, <1>q, <2>1, PinnedTickSame DEF PinnedOf, Clock!clockVars
<1>4. CASE GuardStoreTick(c)
  <2>1. PinnedTick[c] = local_tick[c]
    BY <1>4, <1>p DEF PinnedOf, GuardStoreTick
  <2>2. PinnedTick'[c] = local_tick[c]
    <3>1. guards'[c] = <<local_tick[c]>> /\ slot_tick'[c] = local_tick[c]
      BY <1>4, <1>t DEF GuardStoreTick
    <3> QED
      BY <1>q, <3>1 DEF PinnedOf
  <2> QED
    BY <1>o, <1>u, <2>1, <2>2, PinnedTickSame DEF Clock!clockVars
<1>5. CASE GuardNested(c)
  <2>1. guards[c] # <<>> /\ guards'[c] # <<>> /\ slot_tick'[c] = slot_tick[c]
    <3>1. guard_pc[c] = "run" /\ guard_pc'[c] = "run" /\ slot_tick' = slot_tick
      BY <1>5 DEF GuardNested
    <3>2. depth[c] \in Nat /\ depth[c] > 0 /\ depth'[c] = depth[c] + 1
      BY <1>5 DEF GuardNested, TickInv, TickTypeOK
    <3>3. Len(guards[c]) = depth[c] /\ Len(guards'[c]) = depth'[c]
      BY <1>i, <3>1 DEF CoreInv
    <3> QED
      BY <3>1, <3>2, <3>3
  <2> QED
    BY <1>o, <1>u, <1>p, <1>q, <2>1, PinnedTickSame DEF PinnedOf, Clock!clockVars
<1>6. CASE GuardOutermost(c) \/ GuardLock(c) \/ GuardUnlock(c)
  <2>1. PinnedTick[c] = PinnedTick'[c]
    BY <1>6, <1>p, <1>q, <1>t, <1>i DEF PinnedOf, GuardOutermost, GuardLock, GuardUnlock, CoreInv
  <2> QED
    BY <1>o, <1>u, <2>1, PinnedTickSame DEF Clock!clockVars
<1> QED
  BY <1>1, <1>2, <1>3, <1>4, <1>5, <1>6 DEF GuardStep

(* A step of the loop is a Bump, a Publish or a stutter of the clock. *)
LEMMA LoopRefines ==
  ASSUME TickInv, LoopStep
  PROVE  Clock!Bump \/ Clock!Publish \/ UNCHANGED Clock!clockVars
<1>1. UNCHANGED <<local_tick, guard_pc, guards>>
  BY DEF LoopStep, LoopBump, LoopRead, LoopLock, LoopStore, LoopUnlock, LoopPublish
<1>2. PinnedTick' = PinnedTick
  BY <1>1, PinnedTickStable
<1>3. CASE LoopBump
  BY <1>2, <1>3 DEF LoopBump, Clock!Bump, TickInv, LoopInv
<1>4. CASE LoopPublish
  <2>1. current_tick = last_tick_inclusive + 2 /\ last_tick_inclusive \in Nat
    BY <1>4 DEF LoopPublish, TickInv, LoopInv, TickTypeOK
  <2>2. ASSUME NEW c \in Cores PROVE PinnedTick[c] \in {0, current_tick}
    <3>1. slot_tick[c] = current_tick
      BY <1>4, TickerAssumption DEF LoopPublish, TickInv, CoreInv, Cores
    <3>2. guard_pc[c] = "store" => local_tick[c] = current_tick
      BY <3>1, <2>1 DEF TickInv, CoreInv, TickTypeOK
    <3> QED
      BY <3>1, <3>2, PinnedTickOf DEF PinnedOfAll, PinnedOf
  <2>3. last_tick_inclusive' = last_tick_inclusive + 1 /\ UNCHANGED current_tick
    BY <1>4, <2>1 DEF LoopPublish
  <2> QED
    BY <1>2, <2>1, <2>2, <2>3 DEF Clock!Publish
<1>5. CASE LoopRead \/ LoopLock \/ LoopStore \/ LoopUnlock
  BY <1>2, <1>5 DEF LoopRead, LoopLock, LoopStore, LoopUnlock, Clock!clockVars
<1> QED
  BY <1>3, <1>4, <1>5 DEF LoopStep

(* The ticker implements the clock that RCU, the snapshot garbage          *)
(* collector and the commit protocol rely on.                              *)
THEOREM TickerImplementsClock == TickSpec => ImplementsClock
<1>1. TickInit => Clock!ClockInit
  BY DEF TickInit, Clock!ClockInit, PinnedTick
<1>2. TickInv /\ TickInv' /\ [TickNext]_tickVars => [Clock!ClockNext]_(Clock!clockVars)
  <2> SUFFICES ASSUME TickInv, TickInv', [TickNext]_tickVars
               PROVE  Clock!ClockNext \/ UNCHANGED Clock!clockVars
    OBVIOUS
  <2>1. CASE UNCHANGED tickVars
    BY <2>1, PinnedTickStable DEF tickVars, Clock!clockVars
  <2>2. CASE LoopStep
    BY <2>2, LoopRefines DEF Clock!ClockNext
  <2>3. ASSUME NEW c \in Cores, GuardOutermost(c) \/ GuardStep(c)
        PROVE  Clock!ClockNext \/ UNCHANGED Clock!clockVars
    BY <2>3, GuardRefines DEF Clock!ClockNext
  <2> QED
    BY <2>1, <2>2, <2>3 DEF TickNext
<1> QED
  BY <1>1, <1>2, TickInvAlways, PTL DEF TickSpec, ImplementsClock, Clock!ClockSpec
=============================================================================

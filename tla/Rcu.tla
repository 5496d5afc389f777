-------------------------------- MODULE Rcu ---------------------------------
(***************************************************************************)
(* rcu.h, rcu.cc: epoch based reclamation.  A core reads shared objects    *)
(* only inside a region, which pins the clock.  An object taken out of the *)
(* shared structures is queued under the rcu tick of the unlinking core's  *)
(* guard plus one; when a core leaves its outermost region it frees what   *)
(* it had queued for rcu ticks that every core has left behind, inside a   *)
(* region of its own whose end cleans up once more.                        *)
(*                                                                         *)
(* A queue is the set of its entries; PxQueue shows that the linked groups *)
(* of px_queue keep that promise as long as the ticks handed to enqueue    *)
(* never go down.                                                          *)
(***************************************************************************)
EXTENDS EpochClock, FiniteSets

CONSTANTS Objects,              \* the memory handed to free_with_fn / dealloc_rcu
          EpochTimeMultiplier,  \* ticks per rcu tick
          MaxDepth,             \* bound on the nesting of regions
          None                  \* no object

ASSUME RcuAssumption ==
  /\ EpochTimeMultiplier \in Nat \ {0}
  /\ MaxDepth \in Nat \ {0}
  /\ None \notin Objects

VARIABLES depth,              \* sync::depth_
          last_reaped_epoch,  \* sync::last_reaped_epoch_
          queue,              \* sync::queue_
          scratch,            \* sync::scratch_
          status,             \* linked in a shared structure, unlinked, or freed
          refs,               \* the objects a core may dereference in its region
          victim,             \* what a core has unlinked but not yet queued
          pc                  \* where a core is: user code or do_cleanup

rcuVars == <<depth, last_reaped_epoch, queue, scratch, status, refs, victim, pc>>
vars == <<clockVars, rcuVars>>

to_rcu_ticks(t) == t \div EpochTimeMultiplier

Entry == [obj : Objects, tick : Nat]

Init ==
  /\ ClockInit
  /\ depth = [c \in Cores |-> 0]
  /\ last_reaped_epoch = [c \in Cores |-> 0]
  /\ queue = [c \in Cores |-> {}]
  /\ scratch = [c \in Cores |-> {}]
  /\ status = [o \in Objects |-> "linked"]
  /\ refs = [c \in Cores |-> {}]
  /\ victim = [c \in Cores |-> None]
  /\ pc = [c \in Cores |-> "user"]

-----------------------------------------------------------------------------
(* scoped_rcu_base, user code *)

InRegion(c) == pc[c] = "user" /\ depth[c] > 0

(* Only the outermost region opens an outermost guard. *)
RegionBegin(c) ==
  /\ pc[c] = "user" /\ depth[c] < MaxDepth
  /\ depth' = [depth EXCEPT ![c] = @ + 1]
  /\ IF depth[c] = 0 THEN Pin(c) ELSE UNCHANGED clockVars
  /\ UNCHANGED <<last_reaped_epoch, queue, scratch, status, refs, victim, pc>>

(* The last region of a core gives up its guard and, unless it is a        *)
(* scoped_rcu_base<false>, goes on to do_cleanup.                          *)
RegionEnd(c, DoCleanup) ==
  /\ InRegion(c) /\ victim[c] = None
  /\ depth' = [depth EXCEPT ![c] = @ - 1]
  /\ IF depth[c] = 1
     THEN /\ Unpin(c)
          /\ refs' = [refs EXCEPT ![c] = {}]
          /\ pc' = [pc EXCEPT ![c] = IF DoCleanup THEN "cleanup" ELSE "user"]
     ELSE UNCHANGED <<clockVars, refs, pc>>
  /\ UNCHANGED <<last_reaped_epoch, queue, scratch, status, victim>>

(* A region reads a pointer out of a shared structure. *)
Acquire(c, o) ==
  /\ InRegion(c) /\ status[o] = "linked"
  /\ refs' = [refs EXCEPT ![c] = @ \cup {o}]
  /\ UNCHANGED <<clockVars, depth, last_reaped_epoch, queue, scratch, status,
                 victim, pc>>

Unlink(c, o) ==
  /\ InRegion(c) /\ victim[c] = None /\ status[o] = "linked"
  /\ status' = [status EXCEPT ![o] = "unlinked"]
  /\ victim' = [victim EXCEPT ![c] = o]
  /\ UNCHANGED <<clockVars, depth, last_reaped_epoch, queue, scratch, refs, pc>>

(* The allocator hands freed memory out again. *)
Link(c, o) ==
  /\ InRegion(c) /\ status[o] = "freed"
  /\ status' = [status EXCEPT ![o] = "linked"]
  /\ UNCHANGED <<clockVars, depth, last_reaped_epoch, queue, scratch, refs,
                 victim, pc>>

(* Mutant: no allowance for the cores that are one tick ahead. *)
FreeTickSame(t) == to_rcu_ticks(t)

(* The rcu tick an object freed under guard tick t waits for. *)
FreeTick(t) == to_rcu_ticks(t + 1)

(* Mutant: the global tick is taken instead of the guard's. *)
free_with_fn_global(c) ==
  /\ InRegion(c) /\ victim[c] # None
  /\ queue' = [queue EXCEPT ![c] =
                 @ \cup {[obj |-> victim[c], tick |-> FreeTick(current_tick)]}]
  /\ victim' = [victim EXCEPT ![c] = None]
  /\ UNCHANGED <<clockVars, depth, last_reaped_epoch, scratch, status, refs, pc>>

(* free_with_fn and dealloc_rcu: the tick is that of the caller's guard.   *)
free_with_fn(c) ==
  /\ InRegion(c) /\ victim[c] # None
  /\ queue' = [queue EXCEPT ![c] =
                 @ \cup {[obj |-> victim[c], tick |-> FreeTick(pinned[c])]}]
  /\ victim' = [victim EXCEPT ![c] = None]
  /\ UNCHANGED <<clockVars, depth, last_reaped_epoch, scratch, status, refs, pc>>

-----------------------------------------------------------------------------
(* sync::do_cleanup *)

cleaning_rcu_tick_exclusive == to_rcu_ticks(global_last_tick_exclusive)

(* Mutant: an entry at the cleaning tick itself is left behind. *)
AcceptedStrictly(q, clean) == {e \in q : e.tick < clean}

(* What empty_accept_from takes from the queue. *)
Accepted(q, clean) == {e \in q : e.tick <= clean}

(* What empty_accept_from leaves in the queue. *)
Left(q, batch) == q \ batch

(* The new last_reaped_epoch_. *)
ReapedEpoch(clean) == clean

do_cleanup(c) ==
  /\ pc[c] = "cleanup"
  /\ LET clean == cleaning_rcu_tick_exclusive - 1
         batch == Accepted(queue[c], clean)
     IN \/ /\ cleaning_rcu_tick_exclusive = 0 \/ last_reaped_epoch[c] = clean
           /\ pc' = [pc EXCEPT ![c] = "user"]
           /\ UNCHANGED <<last_reaped_epoch, queue, scratch>>
        \/ /\ cleaning_rcu_tick_exclusive # 0 /\ last_reaped_epoch[c] # clean
           /\ last_reaped_epoch' = [last_reaped_epoch EXCEPT ![c] = ReapedEpoch(clean)]
           /\ scratch' = [scratch EXCEPT ![c] = batch]
           /\ queue' = [queue EXCEPT ![c] = Left(@, batch)]
           /\ pc' = [pc EXCEPT ![c] = IF batch = {} THEN "user" ELSE "open"]
  /\ UNCHANGED <<clockVars, depth, status, refs, victim>>

(* The region in which the batch is freed. *)
ReapBegin(c) ==
  /\ pc[c] = "open"
  /\ Pin(c)
  /\ depth' = [depth EXCEPT ![c] = @ + 1]
  /\ pc' = [pc EXCEPT ![c] = "reap"]
  /\ UNCHANGED <<last_reaped_epoch, queue, scratch, status, refs, victim>>

(* delete_entry::run on one entry. *)
Reap(c, e) ==
  /\ pc[c] = "reap" /\ e \in scratch[c]
  /\ status' = [status EXCEPT ![e.obj] = "freed"]
  /\ scratch' = [scratch EXCEPT ![c] = @ \ {e}]
  /\ UNCHANGED <<clockVars, depth, last_reaped_epoch, queue, refs, victim, pc>>

(* Leaving that region runs do_cleanup again. *)
ReapEnd(c) ==
  /\ pc[c] = "reap" /\ scratch[c] = {}
  /\ Unpin(c)
  /\ depth' = [depth EXCEPT ![c] = @ - 1]
  /\ pc' = [pc EXCEPT ![c] = "cleanup"]
  /\ UNCHANGED <<last_reaped_epoch, queue, scratch, status, refs, victim>>

-----------------------------------------------------------------------------
ClockStep == (Bump \/ Publish) /\ UNCHANGED rcuVars

CleanStep(c) ==
  \/ do_cleanup(c) \/ ReapBegin(c) \/ ReapEnd(c)
  \/ \E e \in scratch[c] : Reap(c, e)

Next ==
  \/ ClockStep
  \/ \E c \in Cores :
       \/ RegionBegin(c)
       \/ \E b \in BOOLEAN : RegionEnd(c, b)
       \/ \E o \in Objects : Acquire(c, o) \/ Unlink(c, o) \/ Link(c, o)
       \/ free_with_fn(c)
       \/ CleanStep(c)

Spec == Init /\ [][Next]_vars

(* Cores keep running transactions.  A transaction is finite, so its core  *)
(* leaves every region, the outermost in particular, and cleans up when it *)
(* does.  The ticker keeps ticking.                                        *)
Fairness ==
  /\ WF_vars(ClockStep)
  /\ \A c \in Cores :
       /\ WF_vars(RegionBegin(c) /\ depth[c] = 0)
       /\ SF_vars(RegionEnd(c, TRUE))
       /\ SF_vars(RegionEnd(c, TRUE) /\ depth[c] = 1)
       /\ WF_vars(free_with_fn(c))
       /\ WF_vars(CleanStep(c))

FairSpec == Spec /\ Fairness

-----------------------------------------------------------------------------
(* The types of the clock, of the sync objects (depth_, last_reaped_epoch_, *)
(* queue_, scratch_) and of the objects RCU looks after.                    *)
TypeOK ==
  /\ ClockTypeOK
  /\ depth \in [Cores -> Nat]
  /\ last_reaped_epoch \in [Cores -> Nat]
  /\ queue \in [Cores -> SUBSET Entry]
  /\ scratch \in [Cores -> SUBSET Entry]
  /\ status \in [Objects -> {"linked", "unlinked", "freed"}]
  /\ refs \in [Cores -> SUBSET Objects]
  /\ victim \in [Cores -> Objects \cup {None}]
  /\ pc \in [Cores -> {"user", "cleanup", "open", "reap"}]

(* What a region has read stays allocated until the region ends: do_cleanup *)
(* on another core never frees it under the reader's feet.                  *)
NoUseAfterFree ==
  \A c \in Cores : \A o \in refs[c] : status[o] # "freed"

(* "rcu_ticks can only go up!", the assumption of px_queue::enqueue: what  *)
(* the guarded core would enqueue now is not below anything in its queue,  *)
(* so empty_accept_from, which stops at the first later group, misses none.*)
QueueTicksGoUp ==
  \A c \in Cores : pinned[c] # 0 =>
    \A e \in queue[c] : e.tick <= FreeTick(pinned[c])

(* The checks at the head of do_cleanup, which it also meets when it runs  *)
(* again from inside the region it opened itself: it never finds an epoch  *)
(* it has reaped ahead of the clock, and the scratch queue is empty.       *)
CleanupEntryOK ==
  \A c \in Cores :
    /\ last_reaped_epoch[c] # 0 => last_reaped_epoch[c] < cleaning_rcu_tick_exclusive
    /\ pc[c] \in {"user", "cleanup"} => scratch[c] = {}

Pending(c) == queue[c] \cup scratch[c]

(* An object waits in one place only, and only after it was unlinked, so   *)
(* it is freed exactly once.                                               *)
FreedOnce ==
  /\ \A c, d \in Cores : \A e \in Pending(c), f \in Pending(d) :
       e.obj = f.obj => c = d /\ e = f
  /\ \A c \in Cores : queue[c] \cap scratch[c] = {}
  /\ \A c \in Cores : \A e \in Pending(c) :
       status[e.obj] = "unlinked" /\ \A d \in Cores : victim[d] # e.obj

(* The bookkeeping behind deferred deletion, while clean-ups run within    *)
(* the regions they open: ticks go up along a queue, do_cleanup's checks   *)
(* hold, and nothing waits, or is freed, twice.                            *)
CleanupOK == TypeOK /\ QueueTicksGoUp /\ CleanupEntryOK /\ FreedOnce

\* One core: when it is guarded, what it may hold, and how old the entries of its queues are.
CoreOK(c) ==
  /\ pinned[c] # 0 <=> depth[c] > 0
  /\ refs[c] # {} => pc[c] = "user" /\ depth[c] > 0
  /\ victim[c] # None => pc[c] = "user" /\ depth[c] > 0 /\ status[victim[c]] = "unlinked"
  /\ pc[c] \in {"cleanup", "open"} => depth[c] = 0
  /\ pc[c] = "reap" => depth[c] = 1
  /\ pinned[c] = 0 => \A e \in queue[c] : e.tick <= FreeTick(current_tick)
  /\ \A e \in scratch[c] : e.tick < cleaning_rcu_tick_exclusive

\* A region that still refers to an object waiting to be freed began in its rcu tick or before.
GraceOK ==
  \A c, d \in Cores : \A e \in Pending(c) :
    e.obj \in refs[d] => to_rcu_ticks(pinned[d]) <= e.tick

(* The inductive invariant behind NoUseAfterFree and CleanupOK: an object  *)
(* is unlinked by one core, waits in one place, and waits for longer than  *)
(* any region that can have seen it.                                       *)
RcuInv ==
  /\ CleanupOK /\ PinnedWindow /\ GraceOK /\ NoUseAfterFree
  /\ \A c \in Cores : CoreOK(c)
  /\ \A c, d \in Cores : victim[c] # None /\ victim[c] = victim[d] => c = d

(* An object queued under an rcu tick that the clock can still pass is     *)
(* freed in the end.                                                       *)
Freed(o) ==
  (\E c \in Cores : \E e \in queue[c] : e.obj = o /\ e.tick < to_rcu_ticks(MaxTick))
    ~> (status[o] = "freed")

(* While the core that queued it keeps opening regions, an object whose    *)
(* rcu tick the clock can still pass is eventually freed.  Init and Next   *)
(* treat all objects alike, so one of them stands for any.                 *)
EventuallyFreed == Freed(CHOOSE o \in Objects : TRUE)
=============================================================================

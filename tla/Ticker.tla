------------------------------- MODULE Ticker -------------------------------
(***************************************************************************)
(* ticker.h: the epoch ticker.  One loop, spawned on the last core, bumps  *)
(* current_tick_, visits every tickinfo slot under its spinlock, and then  *)
(* publishes the previous tick in last_tick_inclusive_.  A core opens a    *)
(* guard by bumping its depth, taking its own slot's lock, reading the     *)
(* global tick and storing it in its slot; nested guards only reuse the    *)
(* slot.  Every access to memory shared with the other side is a step.     *)
(***************************************************************************)
EXTENDS Integers, Sequences

CONSTANTS NMAXCORES, MaxTick, MaxDepth

ASSUME TickerAssumption ==
  /\ NMAXCORES \in Nat \ {0}
  /\ MaxTick \in Nat \ {0}
  /\ MaxDepth \in Nat \ {0}

Cores == 0 .. NMAXCORES - 1

VARIABLES current_tick,         \* which tick are we on
          last_tick_inclusive,  \* all ticks up to this one have completed
          slot_tick,            \* tickinfo::current_tick_ of every core
          depth,                \* tickinfo::depth_ of every core
          slot_lock,            \* tickinfo::lock_ of every core, with its holder
          guards,               \* tick_ of the live guards of a core, outermost first
          local_tick,           \* tick_ of a guard still under construction
          guard_pc,             \* where each core is in guard's ctor / dtor
          loop,                 \* where tickerloop is
          visit                 \* its loop index i

tickVars == <<current_tick, last_tick_inclusive, slot_tick, depth, slot_lock, guards,
          local_tick, guard_pc, loop, visit>>

TickInit ==
  /\ current_tick = 1
  /\ last_tick_inclusive = 0
  /\ slot_tick = [c \in Cores |-> 1]
  /\ depth = [c \in Cores |-> 0]
  /\ slot_lock = [c \in Cores |-> "free"]
  /\ guards = [c \in Cores |-> <<>>]
  /\ local_tick = [c \in Cores |-> 0]
  /\ guard_pc = [c \in Cores |-> "run"]
  /\ loop = "delay"
  /\ visit = 0

-----------------------------------------------------------------------------
(* guard::guard *)

(* The depth goes up before the lock is taken. *)
GuardOutermost(c) ==
  /\ guard_pc[c] = "run" /\ depth[c] = 0
  /\ depth' = [depth EXCEPT ![c] = 1]
  /\ guard_pc' = [guard_pc EXCEPT ![c] = "lock"]
  /\ UNCHANGED <<current_tick, last_tick_inclusive, slot_tick, slot_lock, guards,
                 local_tick, loop, visit>>

(* A nested guard takes no lock and reuses the tick in the slot. *)
GuardNested(c) ==
  /\ guard_pc[c] = "run" /\ depth[c] \in 1 .. MaxDepth - 1
  /\ depth' = [depth EXCEPT ![c] = @ + 1]
  /\ guards' = [guards EXCEPT ![c] = Append(@, slot_tick[c])]
  /\ UNCHANGED <<current_tick, last_tick_inclusive, slot_tick, slot_lock,
                 local_tick, guard_pc, loop, visit>>

GuardLock(c) ==
  /\ guard_pc[c] = "lock" /\ slot_lock[c] = "free"
  /\ slot_lock' = [slot_lock EXCEPT ![c] = "core"]
  /\ guard_pc' = [guard_pc EXCEPT ![c] = "read"]
  /\ UNCHANGED <<current_tick, last_tick_inclusive, slot_tick, depth, guards,
                 local_tick, loop, visit>>

GuardReadTick(c) ==
  /\ guard_pc[c] = "read"
  /\ local_tick' = [local_tick EXCEPT ![c] = current_tick]
  /\ guard_pc' = [guard_pc EXCEPT ![c] = "store"]
  /\ UNCHANGED <<current_tick, last_tick_inclusive, slot_tick, depth, slot_lock,
                 guards, loop, visit>>

GuardStoreTick(c) ==
  /\ guard_pc[c] = "store"
  /\ slot_tick' = [slot_tick EXCEPT ![c] = local_tick[c]]
  /\ guards' = [guards EXCEPT ![c] = <<local_tick[c]>>]
  /\ local_tick' = [local_tick EXCEPT ![c] = 0]
  /\ guard_pc' = [guard_pc EXCEPT ![c] = "run"]
  /\ UNCHANGED <<current_tick, last_tick_inclusive, depth, slot_lock, loop, visit>>

(* guard::~guard: the innermost guard goes; the outermost one unlocks. *)
GuardEnd(c) ==
  /\ guard_pc[c] = "run" /\ depth[c] > 0
  /\ depth' = [depth EXCEPT ![c] = @ - 1]
  /\ guards' = [guards EXCEPT ![c] = SubSeq(@, 1, Len(@) - 1)]
  /\ guard_pc' = [guard_pc EXCEPT ![c] = IF depth[c] = 1 THEN "unlock" ELSE "run"]
  /\ UNCHANGED <<current_tick, last_tick_inclusive, slot_tick, slot_lock,
                 local_tick, loop, visit>>

GuardUnlock(c) ==
  /\ guard_pc[c] = "unlock"
  /\ slot_lock' = [slot_lock EXCEPT ![c] = "free"]
  /\ guard_pc' = [guard_pc EXCEPT ![c] = "run"]
  /\ UNCHANGED <<current_tick, last_tick_inclusive, slot_tick, depth, guards,
                 local_tick, loop, visit>>

(* The steps between two of a core's own instructions. *)
GuardEnter(c) == GuardLock(c) \/ GuardReadTick(c) \/ GuardStoreTick(c) \/ GuardUnlock(c)

GuardStep(c) ==
  \/ GuardNested(c)   \/ GuardLock(c)  \/ GuardReadTick(c)
  \/ GuardStoreTick(c) \/ GuardEnd(c)  \/ GuardUnlock(c)

-----------------------------------------------------------------------------
(* tickerloop *)

(* Mutant: the round starts at the second slot. *)
LoopBumpFromOne ==
  /\ loop = "delay" /\ current_tick < MaxTick
  /\ current_tick' = current_tick + 1
  /\ visit' = 1
  /\ loop' = "scan"
  /\ UNCHANGED <<last_tick_inclusive, slot_tick, depth, slot_lock, guards,
                 local_tick, guard_pc>>

LoopBump ==
  /\ loop = "delay" /\ current_tick < MaxTick
  /\ current_tick' = current_tick + 1
  /\ visit' = 0
  /\ loop' = "scan"
  /\ UNCHANGED <<last_tick_inclusive, slot_tick, depth, slot_lock, guards,
                 local_tick, guard_pc>>

(* Mutant: a slot already at the new tick is looked at again for ever. *)
LoopReadAgain ==
  /\ loop = "scan" /\ visit < NMAXCORES
  /\ slot_tick[visit] # current_tick
  /\ loop' = "lock"
  /\ UNCHANGED <<current_tick, last_tick_inclusive, slot_tick, depth, slot_lock,
                 guards, local_tick, guard_pc, visit>>

(* The slot is read without its lock; a slot already at the new tick is    *)
(* skipped.                                                                *)
LoopRead ==
  /\ loop = "scan" /\ visit < NMAXCORES
  /\ IF slot_tick[visit] = current_tick
     THEN visit' = visit + 1 /\ UNCHANGED loop
     ELSE loop' = "lock" /\ UNCHANGED visit
  /\ UNCHANGED <<current_tick, last_tick_inclusive, slot_tick, depth, slot_lock,
                 guards, local_tick, guard_pc>>

(* Mutant: try_lock, and a busy slot is left for the next round. *)
LoopTryLock ==
  /\ loop = "lock"
  /\ IF slot_lock[visit] = "free"
     THEN /\ slot_lock' = [slot_lock EXCEPT ![visit] = "ticker"]
          /\ loop' = "store" /\ UNCHANGED visit
     ELSE loop' = "scan" /\ visit' = visit + 1 /\ UNCHANGED slot_lock
  /\ UNCHANGED <<current_tick, last_tick_inclusive, slot_tick, depth, guards,
                 local_tick, guard_pc>>

LoopLock ==
  /\ loop = "lock" /\ slot_lock[visit] = "free"
  /\ slot_lock' = [slot_lock EXCEPT ![visit] = "ticker"]
  /\ loop' = "store"
  /\ UNCHANGED <<current_tick, last_tick_inclusive, slot_tick, depth, guards,
                 local_tick, guard_pc, visit>>

LoopStore ==
  /\ loop = "store"
  /\ slot_tick' = [slot_tick EXCEPT ![visit] = current_tick]
  /\ loop' = "unlock"
  /\ UNCHANGED <<current_tick, last_tick_inclusive, depth, slot_lock, guards,
                 local_tick, guard_pc, visit>>

LoopUnlock ==
  /\ loop = "unlock"
  /\ slot_lock' = [slot_lock EXCEPT ![visit] = "free"]
  /\ visit' = visit + 1
  /\ loop' = "scan"
  /\ UNCHANGED <<current_tick, last_tick_inclusive, slot_tick, depth, guards,
                 local_tick, guard_pc>>

(* Mutant: the tick just bumped is published. *)
LoopPublishCurrent ==
  /\ loop = "scan" /\ visit = NMAXCORES
  /\ last_tick_inclusive' = current_tick
  /\ loop' = "delay"
  /\ UNCHANGED <<current_tick, slot_tick, depth, slot_lock, guards, local_tick,
                 guard_pc, visit>>

LoopPublish ==
  /\ loop = "scan" /\ visit = NMAXCORES
  /\ last_tick_inclusive' = current_tick - 1
  /\ loop' = "delay"
  /\ UNCHANGED <<current_tick, slot_tick, depth, slot_lock, guards, local_tick,
                 guard_pc, visit>>

LoopStep ==
  \/ LoopBump \/ LoopRead \/ LoopLock \/ LoopStore \/ LoopUnlock \/ LoopPublish

TickNext ==
  \/ LoopStep
  \/ \E c \in Cores : GuardOutermost(c) \/ GuardStep(c)

TickSpec == TickInit /\ [][TickNext]_tickVars

(* The loop never stops, a critical section of a core ends, and a free     *)
(* spinlock that somebody keeps asking for while nobody else takes it is   *)
(* taken.  Nothing makes a core open a guard, and a spinlock is not fair.  *)
TickFairness ==
  /\ WF_tickVars(LoopStep)
  /\ \A c \in Cores :
       /\ WF_tickVars(GuardEnd(c))
       /\ WF_tickVars(GuardEnter(c))

TickFairSpec == TickSpec /\ TickFairness

-----------------------------------------------------------------------------
(* The types of the tickinfo slots, the guards and the loop: a tick is     *)
(* never 0, and a slot lock has at most one holder.                        *)
TickTypeOK ==
  /\ current_tick \in Nat \ {0}
  /\ last_tick_inclusive \in Nat
  /\ slot_tick \in [Cores -> Nat \ {0}]
  /\ depth \in [Cores -> Nat]
  /\ slot_lock \in [Cores -> {"free", "core", "ticker"}]
  /\ guards \in [Cores -> Seq(Nat)]
  /\ local_tick \in [Cores -> Nat]
  /\ guard_pc \in [Cores -> {"run", "lock", "read", "store", "unlock"}]
  /\ loop \in {"delay", "scan", "lock", "store", "unlock"}
  /\ visit \in 0 .. NMAXCORES

(* Nobody is inside a completed tick: every live guard, nested ones        *)
(* included, is at a tick above last_tick_inclusive_ (the check in guard's *)
(* destructor, and the comment on last_tick_inclusive_).                   *)
NoGuardInCompletedTick ==
  \A c \in Cores : \A i \in 1 .. Len(guards[c]) :
    last_tick_inclusive < guards[c][i]

(* While a core is guarded its slot keeps the tick of its outermost guard, *)
(* so is_locally_guarded and every nested guard answer that same tick,     *)
(* although the ticker writes the slot from another core.                  *)
SlotPinnedByGuard ==
  \A c \in Cores : \A i \in 1 .. Len(guards[c]) : guards[c][i] = slot_tick[c]

(* A slot the ticker is about to visit holds the old tick or the new one,  *)
(* and a slot it has passed holds the new one (the check in tickerloop).   *)
SlotsWithinOneTick ==
  \A c \in Cores :
    /\ slot_tick[c] \in {current_tick - 1, current_tick}
    /\ (loop # "delay" /\ c < visit) => slot_tick[c] = current_tick

(* A slot never goes back to an earlier tick (the check in guard's         *)
(* constructor), although two writers store into it.                       *)
SlotsNeverGoBack ==
  [][\A c \in Cores : slot_tick[c] <= slot_tick'[c]]_tickVars

(* Unless some core keeps retaking its own slot's lock for ever, every     *)
(* round of the loop ends: a bumped tick is eventually followed by the     *)
(* publication of the one before it.                                       *)
RoundsComplete ==
  (\A c \in Cores : <>[](slot_lock[c] # "core")) =>
    (current_tick > last_tick_inclusive + 1) ~> (current_tick = last_tick_inclusive + 1)

(* One core and its slot: the slot's lock is held by the core from lock()  *)
(* to unlock() and by the loop from its own lock() to its own unlock(),    *)
(* never by both; slots already visited hold the new tick; a tick read but *)
(* not yet stored is at least the one in the slot.                         *)
CoreInv(c) ==
  /\ slot_tick[c] \in {current_tick - 1, current_tick}
  /\ (loop = "delay" \/ c < visit \/ (loop = "unlock" /\ c = visit))
       => slot_tick[c] = current_tick
  /\ slot_lock[c] = "core" <=>
       (guard_pc[c] \in {"read", "store", "unlock"} \/ guards[c] # <<>>)
  /\ slot_lock[c] = "ticker" <=> (loop \in {"store", "unlock"} /\ visit = c)
  /\ \/ guard_pc[c] = "run" /\ Len(guards[c]) = depth[c]
     \/ guard_pc[c] \in {"lock", "read", "store"} /\ guards[c] = <<>> /\ depth[c] = 1
     \/ guard_pc[c] = "unlock" /\ guards[c] = <<>> /\ depth[c] = 0
  /\ \A i \in 1 .. Len(guards[c]) : guards[c][i] = slot_tick[c]
  /\ guard_pc[c] = "store" => /\ slot_tick[c] <= local_tick[c]
                        /\ local_tick[c] <= current_tick

(* The loop: during a round it is one tick ahead of what it has published. *)
LoopInv ==
  /\ current_tick = IF loop = "delay" THEN last_tick_inclusive + 1
                                      ELSE last_tick_inclusive + 2
  /\ loop \in {"lock", "store", "unlock"} => visit < NMAXCORES

(* The inductive invariant behind the properties above: who holds a slot's *)
(* lock, which slots hold the new tick, and how far the loop is ahead of   *)
(* what it has published.                                                  *)
TickInv == TickTypeOK /\ LoopInv /\ \A c \in Cores : CoreInv(c)

-----------------------------------------------------------------------------
(* The clock the rest of the system relies on: a core pins the tick its    *)
(* outermost guard has read, from the moment it reads it.                  *)
PinnedTick ==
  [c \in Cores |-> IF guard_pc[c] = "store" THEN local_tick[c]
                   ELSE IF guards[c] # <<>> THEN guards[c][1] ELSE 0]

Clock == INSTANCE EpochClock WITH pinned <- PinnedTick

ImplementsClock == Clock!ClockSpec
=============================================================================

----------------------------- MODULE EpochClock -----------------------------
(***************************************************************************)
(* What the ticker promises to the rest of the system: a global tick that  *)
(* advances one step at a time, guards that pin the tick at which they     *)
(* were opened, and a completed tick that never reaches a pinned one.      *)
(* RCU, the snapshot garbage collector and the commit protocol are         *)
(* specified on top of this clock; Ticker implements it.                   *)
(***************************************************************************)
EXTENDS Naturals

CONSTANTS Cores,    \* the slots of the percore<tickinfo> array
          MaxTick   \* bound on the global tick

ASSUME ClockAssumption == Cores # {} /\ MaxTick \in Nat \ {0}

VARIABLES current_tick,         \* ticker::current_tick_
          last_tick_inclusive,  \* ticker::last_tick_inclusive_
          pinned                \* tick_ of the outermost guard of a core, 0 if none

clockVars == <<current_tick, last_tick_inclusive, pinned>>

ClockInit ==
  /\ current_tick = 1
  /\ last_tick_inclusive = 0
  /\ pinned = [c \in Cores |-> 0]

global_last_tick_exclusive == last_tick_inclusive + 1

(* The tick is bumped only once the previous one has been published. *)
Bump ==
  /\ current_tick = last_tick_inclusive + 1
  /\ current_tick < MaxTick
  /\ current_tick' = current_tick + 1
  /\ UNCHANGED <<last_tick_inclusive, pinned>>

(* The previous tick is published once no guard pins it. *)
Publish ==
  /\ current_tick = last_tick_inclusive + 2
  /\ \A c \in Cores : pinned[c] \in {0, current_tick}
  /\ last_tick_inclusive' = last_tick_inclusive + 1
  /\ UNCHANGED <<current_tick, pinned>>

Pin(c) ==
  /\ pinned[c] = 0
  /\ pinned' = [pinned EXCEPT ![c] = current_tick]
  /\ UNCHANGED <<current_tick, last_tick_inclusive>>

Unpin(c) ==
  /\ pinned[c] # 0
  /\ pinned' = [pinned EXCEPT ![c] = 0]
  /\ UNCHANGED <<current_tick, last_tick_inclusive>>

ClockNext ==
  \/ Bump
  \/ Publish
  \/ \E c \in Cores : Pin(c) \/ Unpin(c)

ClockSpec == ClockInit /\ [][ClockNext]_clockVars

-----------------------------------------------------------------------------
(* The types of the two ticks and of the pinned ticks; 0 stands for a core *)
(* without a guard.                                                        *)
ClockTypeOK ==
  /\ current_tick \in Nat \ {0}
  /\ last_tick_inclusive \in Nat
  /\ pinned \in [Cores -> Nat]

(* A guard pins either the current tick or the one before it, and never a  *)
(* completed one: the grace period of every reclamation scheme above.      *)
PinnedWindow ==
  /\ last_tick_inclusive < current_tick
  /\ current_tick <= last_tick_inclusive + 2
  /\ \A c \in Cores : pinned[c] # 0 =>
       /\ last_tick_inclusive < pinned[c]
       /\ pinned[c] <= current_tick
       /\ current_tick <= pinned[c] + 1
=============================================================================

------------------------------ MODULE MCBlocks ------------------------------
(***************************************************************************)
(* The building blocks that share no state, each on its own: the epoch     *)
(* ticker (Ticker), the deferred-deletion queues of a core (PxQueue), the  *)
(* ring between a core and the logger (Circbuf), the header of a tuple     *)
(* (Tuple) and the core ids (CoreIds).  `which' says whose behaviour this  *)
(* is; the others rest.  The properties of the ticker, of ids and of       *)
(* tuples are those of their modules.                                      *)
(***************************************************************************)
EXTENDS CoreIds, Tuple, Ticker

CONSTANTS NGroups, GroupSize, NQueueGroups, nalloc, MaxRcuTick, MaxEntries,
          Capacity, Enqueuers, MaxItems, nullptr

VARIABLES which,
          item,   \* the item ItemsArrive follows, any but fixed from the start
          next_, pxs_, rcu_tick_, queue_, scratch_, ngroups, cleaner, clean_tick, enqueued,
          buf, head, tail, enqueuer, dequeuer, out

pxVars == <<next_, pxs_, rcu_tick_, queue_, scratch_, ngroups, cleaner, clean_tick, enqueued>>
ringVars == <<buf, head, tail, enqueuer, dequeuer, out>>

Px == INSTANCE PxQueue WITH pc <- cleaner, MaxTick <- MaxRcuTick
Ring == INSTANCE Circbuf WITH null <- nullptr

ASSUME BlocksAssumption == NoWrap /\ Px!Sizes

MCInit ==
  /\ which \in {"ticker", "ids", "px", "ring", "tuple"}
  /\ TickInit /\ IdInit /\ Px!Init /\ Ring!Init /\ Init
  /\ item \in IF which = "ring" THEN Ring!Items ELSE {nullptr}

TickerStep ==
  which = "ticker" /\ TickNext /\ UNCHANGED <<which, item, idvars, pxVars, ringVars, vars>>
IdsStep ==
  which = "ids" /\ IdNext /\ UNCHANGED <<which, item, tickVars, pxVars, ringVars, vars>>
PxStep ==
  which = "px" /\ Px!Next /\ UNCHANGED <<which, item, tickVars, idvars, ringVars, vars>>
RingStep ==
  which = "ring" /\ Ring!Next /\ UNCHANGED <<which, item, tickVars, idvars, pxVars, vars>>
TupleStep ==
  which = "tuple" /\ Next /\ UNCHANGED <<which, item, tickVars, idvars, pxVars, ringVars>>

MCNext == TickerStep \/ IdsStep \/ PxStep \/ RingStep \/ TupleStep

MCSpec ==
  /\ MCInit
  /\ [][MCNext]_<<which, item, tickVars, idvars, pxVars, ringVars, vars>>
  /\ WF_tickVars(which = "ticker" /\ LoopStep)
  /\ \A c \in Cores :
       /\ WF_tickVars(which = "ticker" /\ GuardEnd(c))
       /\ WF_tickVars(which = "ticker" /\ GuardEnter(c))
  /\ \A e \in Enqueuers : WF_ringVars(which = "ring" /\ Ring!EnqNext(e))
  /\ SF_ringVars(which = "ring" /\ Ring!DeqNext)
  /\ WF_ringVars(which = "ring" /\ Ring!PeekNext)
  /\ \A w \in Writers : WF_vars(which = "tuple" /\ WriterNext(w))
  /\ \A r \in Readers : WF_vars(which = "tuple" /\ ReaderNext(r))

-----------------------------------------------------------------------------
(* The groups of the two px_queues of a core are each on one list.         *)
GroupsHaveOneOwner == Px!GroupsHaveOneOwner

(* The px_queues implement the queue that rcu and the collector work on:   *)
(* a clean-up gets every entry that is due, in order, and no other.        *)
ImplementsEpochQueue == Px!ImplementsEpochQueue

(* What peekall of circbuf has collected is a beginning of the queue, and  *)
(* the indices stay within the ring.                                       *)
PeekIsPrefix == Ring!TypeOK /\ Ring!PeekIsPrefix

(* The ring implements a bounded first-in-first-out queue: nothing is      *)
(* lost, duplicated or reordered between enq and deq.                      *)
ImplementsFifo == Ring!ImplementsFifo

(* Every item that enq has begun to put into the ring comes out of deq.    *)
ItemsArrive == (which = "ring" /\ Ring!Entering(item)) ~> (out = item)
=============================================================================

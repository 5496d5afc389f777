------------------------------ MODULE Circbuf -------------------------------
(***************************************************************************)
(* circbuf.h: the ring of pointers between the cores and the logger.  An   *)
(* enqueuer claims the slot at head_ with a compare-and-swap and fills it  *)
(* afterwards; the one dequeuer takes the item at tail_, moves tail_ and   *)
(* clears the slot afterwards.  head_ = tail_ is an empty or a full ring,  *)
(* told apart by the slot's contents.  Every access to the ring is a step. *)
(***************************************************************************)
EXTENDS Naturals, Sequences, SequencesExt

CONSTANTS Capacity,   \* slots of the ring
          Enqueuers,  \* the threads that call enq
          MaxItems,   \* bound on the items each of them enqueues
          null        \* nullptr

VARIABLES buf, head, tail,   \* buf_, head_, tail_
          enqueuer,          \* where each enqueuer is, its icur and its item
          dequeuer,          \* where the dequeuer is, with its locals
          out                \* the item deq returned last

vars == <<buf, head, tail, enqueuer, dequeuer, out>>

Slots == 0 .. Capacity - 1
Items == Enqueuers \X (1 .. MaxItems)

Resting == [pc |-> "idle", ret |-> null, i |-> 0, t |-> 0, ps |-> <<>>]

Init ==
  /\ buf = [i \in Slots |-> null]
  /\ head = 0 /\ tail = 0
  /\ enqueuer = [e \in Enqueuers |-> [pc |-> "idle", icur |-> 0, n |-> 0]]
  /\ dequeuer = Resting
  /\ out = null

Item(e) == <<e, enqueuer[e].n>>

succ(i) == (i + 1) % Capacity

-----------------------------------------------------------------------------
(* enq *)
EnqStep(e, from, new) ==
  /\ enqueuer[e].pc = from
  /\ enqueuer' = [enqueuer EXCEPT ![e] = new]
  /\ UNCHANGED <<tail, dequeuer, out>>

EnqBegin(e) ==
  /\ enqueuer[e].n < MaxItems
  /\ EnqStep(e, "idle", [enqueuer[e] EXCEPT !.pc = "load", !.n = @ + 1])
  /\ UNCHANGED <<buf, head>>

EnqLoad(e) ==
  /\ EnqStep(e, "load", [enqueuer[e] EXCEPT !.pc = "look", !.icur = head])
  /\ UNCHANGED <<buf, head>>

(* Mutant: the slot is taken without a look at what is in it. *)
is_free_always(i) == TRUE

is_free(i) == buf[i] = null

EnqLook(e) ==
  /\ EnqStep(e, "look",
       [enqueuer[e] EXCEPT !.pc = IF is_free(enqueuer[e].icur) THEN "race" ELSE "load"])
  /\ UNCHANGED <<buf, head>>

EnqRace(e) ==
  /\ IF head = enqueuer[e].icur
     THEN /\ EnqStep(e, "race", [enqueuer[e] EXCEPT !.pc = "store"])
          /\ head' = succ(head)
     ELSE /\ EnqStep(e, "race", [enqueuer[e] EXCEPT !.pc = "load"])
          /\ UNCHANGED head
  /\ UNCHANGED buf

EnqStore(e) ==
  /\ EnqStep(e, "store", [enqueuer[e] EXCEPT !.pc = "idle"])
  /\ buf' = [buf EXCEPT ![enqueuer[e].icur] = Item(e)]
  /\ UNCHANGED head

-----------------------------------------------------------------------------
(* deq, peekall *)
DeqStep(from, new) ==
  /\ dequeuer.pc = from
  /\ dequeuer' = new
  /\ UNCHANGED <<head, enqueuer>>

(* The two loads of the slot: until it is filled, and its item. *)
DeqWait ==
  /\ buf[tail] # null
  /\ DeqStep("idle", [dequeuer EXCEPT !.pc = "read"])
  /\ UNCHANGED <<buf, tail, out>>

DeqRead ==
  /\ DeqStep("read", [dequeuer EXCEPT !.pc = "advance", !.ret = buf[tail]])
  /\ UNCHANGED <<buf, tail, out>>

(* postincr(tail_) comes first, the slot is cleared after it. *)
DeqAdvance ==
  /\ DeqStep("advance", [dequeuer EXCEPT !.pc = "clear", !.i = tail])
  /\ tail' = succ(tail)
  /\ out' = dequeuer.ret
  /\ UNCHANGED buf

(* Mutant: the slot is left as it is. *)
cleared_not(i) == buf

cleared(i) == [buf EXCEPT ![i] = null]

DeqClear ==
  /\ DeqStep("clear", Resting)
  /\ buf' = cleared(dequeuer.i)
  /\ UNCHANGED <<tail, out>>

PeekBegin ==
  /\ DeqStep("idle", [Resting EXCEPT !.pc = "peek", !.t = tail, !.i = tail])
  /\ UNCHANGED <<buf, tail, out>>

(* Mutant: the walk goes round and round a full ring. *)
wrapped_never(i) == FALSE

wrapped(i) == i = dequeuer.t

PeekStep ==
  /\ LET p == buf[dequeuer.i]
         i == succ(dequeuer.i)
     IN DeqStep("peek",
          IF p = null THEN [dequeuer EXCEPT !.pc = "peeked"]
          ELSE [dequeuer EXCEPT !.ps = Append(@, p), !.i = i,
                                !.pc = IF wrapped(i) THEN "peeked" ELSE "peek"])
  /\ UNCHANGED <<buf, tail, out>>

PeekEnd ==
  /\ DeqStep("peeked", Resting)
  /\ UNCHANGED <<buf, tail, out>>

-----------------------------------------------------------------------------
EnqNext(e) == EnqLoad(e) \/ EnqLook(e) \/ EnqRace(e) \/ EnqStore(e)
DeqNext == DeqWait \/ DeqRead \/ DeqAdvance \/ DeqClear
PeekNext == PeekStep \/ PeekEnd

Next ==
  \/ \E e \in Enqueuers : EnqBegin(e) \/ EnqNext(e)
  \/ DeqNext \/ PeekBegin \/ PeekNext

Spec == Init /\ [][Next]_vars

(* An enqueuer that has begun goes on.  The dequeuer finishes what it has  *)
(* begun and, however often it peeks, dequeues again and again.            *)
Fairness ==
  /\ \A e \in Enqueuers : WF_vars(EnqNext(e))
  /\ SF_vars(DeqNext) /\ WF_vars(PeekNext)

FairSpec == Spec /\ Fairness

-----------------------------------------------------------------------------
(* The indices stay within the ring. *)
TypeOK ==
  /\ buf \in [Slots -> Items \cup {null}]
  /\ head \in Slots /\ tail \in Slots
  /\ out \in Items \cup {null}
  /\ \A e \in Enqueuers : enqueuer[e].icur \in Slots

(* What a slot holds: its item, or the item of the enqueuer that has       *)
(* claimed it; nothing once the dequeuer has moved on.                     *)
Held(i) ==
  IF dequeuer.pc = "clear" /\ dequeuer.i = i THEN {}
  ELSE ({buf[i]} \ {null})
         \cup {Item(e) : e \in {d \in Enqueuers : enqueuer[d].pc = "store"
                                                 /\ enqueuer[d].icur = i}}

(* The queue: the claimed slots from tail_ on. *)
Queue ==
  LET Slot(k) == (tail + k) % Capacity
      n == CHOOSE m \in 0 .. Capacity :
             /\ \A k \in 0 .. m - 1 : Held(Slot(k)) # {}
             /\ m < Capacity => Held(Slot(m)) = {}
  IN [k \in 1 .. n |-> CHOOSE x \in Held(Slot(k - 1)) : TRUE]

Abstract == INSTANCE Fifo WITH q <- Queue, Bound <- Capacity, none <- null

(* The ring is a first-in-first-out queue of Capacity items, in the order  *)
(* in which enq claimed the slots: nothing is lost, duplicated or          *)
(* reordered while claims, stores, and clears trail behind head_ and       *)
(* tail_.                                                                  *)
ImplementsFifo == Abstract!FifoSpec

(* "takes a current snapshot of all entries in the queue": what peekall    *)
(* has collected is a beginning of the queue, each item once, although     *)
(* items are enqueued meanwhile.                                           *)
PeekIsPrefix ==
  dequeuer.pc \in {"peek", "peeked"} => IsPrefix(dequeuer.ps, Queue)

(* The check enq makes before it stores: "Thread safety is ensured for     *)
(* many concurrent enqueuers", so the slot it has won is empty.            *)
WonSlotIsEmpty ==
  \A e \in Enqueuers : enqueuer[e].pc = "store" => buf[enqueuer[e].icur] = null

Entering(x) == enqueuer[x[1]].n = x[2] /\ enqueuer[x[1]].pc = "load"

(* Whoever begins to enqueue gets its item through to the dequeuer.        *)
ItemsArrive == \A x \in Items : Entering(x) ~> (out = x)
=============================================================================

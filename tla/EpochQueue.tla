----------------------------- MODULE EpochQueue -----------------------------
(***************************************************************************)
(* What the deferred-deletion queues of RCU and of the version collector   *)
(* promise: every entry waits under its tick, a clean-up takes exactly the *)
(* entries up to a tick, and works them off in the order they came.        *)
(***************************************************************************)
EXTENDS Naturals, Sequences

CONSTANTS Entries, Ticks

VARIABLES pending,   \* the entries that wait, as they came
          batch      \* the entries a clean-up has taken

EntryType == [val : Entries, tick : Ticks]

EpochQueueInit == pending = <<>> /\ batch = <<>>

Enqueue(e) ==
  /\ pending' = Append(pending, e)
  /\ UNCHANGED batch

Accept(t) ==
  LET Due(e) == e.tick <= t
      NotDue(e) == ~Due(e)
  IN /\ batch = <<>>
     /\ batch' = SelectSeq(pending, Due)
     /\ pending' = SelectSeq(pending, NotDue)

Clear ==
  /\ batch' = <<>>
  /\ UNCHANGED pending

EpochQueueNext ==
  \/ \E e \in EntryType : Enqueue(e)
  \/ \E t \in Ticks : Accept(t)
  \/ Clear

EpochQueueSpec == EpochQueueInit /\ [][EpochQueueNext]_<<pending, batch>>
=============================================================================

-------------------------------- MODULE Tid ---------------------------------
(***************************************************************************)
(* txn_proto2_impl.h: the layout of transaction ids                        *)
(*    [ core | number | epoch ]   (low bits to high bits)                  *)
(* and the read-only ticks, which snapshots and the garbage collector use. *)
(* The field widths are parameters: a core id is below NMAXCORES and a     *)
(* number below NumIds (2^24 in the code).                                 *)
(***************************************************************************)
EXTENDS Naturals

CONSTANTS NMAXCORES,               \* 2^CoreBits
          NumIds,                  \* 2^NBitsNumber
          ReadOnlyEpochMultiplier  \* ticks per read-only tick

ASSUME TidAssumption ==
  /\ NMAXCORES \in Nat \ {0}
  /\ NumIds \in Nat \ {0}
  /\ ReadOnlyEpochMultiplier \in Nat \ {0}

to_read_only_tick(t) == t \div ReadOnlyEpochMultiplier

CoreId(v) == v % NMAXCORES
NumId(v) == (v \div NMAXCORES) % NumIds
EpochId(v) == v \div (NMAXCORES * NumIds)

MakeTid(core, num, epoch) == core + NMAXCORES * (num + NumIds * epoch)

(* The last tid of the read-only ticks that lie wholly before the given    *)
(* (exclusive) tick; 0 when there is none.                                 *)
ComputeReadOnlyTid(tick_ex) ==
  LET b == to_read_only_tick(tick_ex) * ReadOnlyEpochMultiplier
  IN IF b = 0 THEN MakeTid(0, 0, 0)
     ELSE MakeTid(NMAXCORES - 1, NumIds - 1, b - 1)
=============================================================================

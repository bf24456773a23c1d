--------------------------- MODULE MCMctUserLib ----------------------------
(* MctUserLib for TLC.                                                     *)
EXTENDS MctUserLib

CONSTANTS a1, a2

Bound(l, c, m, r, e) ==
  [threads |-> {a1}, logs |-> [t \in Thread |-> l],
   crashes |-> c, modes |-> m, regs |-> [t \in Thread |-> r], exits |-> e]
(* a1 logs, a2 registers, both unregister.                                 *)
Two(l, r) ==
  [threads |-> {a1, a2}, logs |-> [t \in Thread |-> IF t = a1 THEN l ELSE 0],
   crashes |-> 0, modes |-> 0,
   regs |-> [t \in Thread |-> IF t = a2 THEN r ELSE 0], exits |-> FALSE]
(* A process that goes on for ever, with crashes of the daemon or more     *)
(* changes of the block mode, one that exits: while the mode is blocking,  *)
(* or while the daemon crashes and comes back, and one with two threads.   *)
MCBounds == {Bound(1, 1, 1, 1, FALSE), Bound(3, 0, 2, 1, FALSE),
             Bound(1, 0, 1, 1, TRUE), Bound(1, 1, 0, 1, TRUE), Two(1, 1)}
MCReattach == {Bound(3, 1, 2, 1, FALSE)}
=============================================================================

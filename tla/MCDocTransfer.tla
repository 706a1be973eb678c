--------------------------- MODULE MCDocTransfer ---------------------------
(* DocTransfer between two machines: which of them dials, what goes wrong. *)
EXTENDS DocTransfer

CONSTANTS a, b, none

Surroundings(dialers, reseeders, ea, eb, bound) ==
  [dialers |-> dialers, reseeders |-> reseeders,
   edits |-> [m \in {a, b} |-> IF m = a THEN ea ELSE eb], faults |-> bound]

MCWorld ==
  {Surroundings({a}, {}, 2, 1, 2),        \* one dials; two faults
   Surroundings({a, b}, {}, 1, 1, 0),     \* both dial at once
   Surroundings({a, b}, {}, 2, 0, 1),     \* both dial, one fault
   Surroundings({a}, {a, b}, 1, 1, 0),    \* both go on to a new epoch
   Surroundings({a}, {a, b}, 1, 0, 1),    \* the same, one edit and one fault
   Surroundings({a}, {b}, 1, 1, 1)}       \* one does, one fault

MCReseeded == {Surroundings({a}, {a, b}, 1, 0, 0)}
=============================================================================

-------------------------------- MODULE Pit --------------------------------
(***************************************************************************)
(* The timer driver, kernel/drivers/pit.c: the tick counter and the ritual *)
(* calendar computed from it.                                              *)
(***************************************************************************)
EXTENDS Integers

CONSTANT TICKS     \* the counter wraps at TICKS (2^64)

ASSUME TicksAssumption == TICKS \in Nat \ {0}

VARIABLE ticks

PitTypeOK == ticks \in 0 .. TICKS - 1

PitInit == ticks = 0

(* pit_handler, but for its EOI.                                           *)
pit_handler == ticks' = (ticks + 1) % TICKS
=============================================================================

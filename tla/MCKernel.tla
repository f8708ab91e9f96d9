------------------------------ MODULE MCKernel ------------------------------
(* Values for the constants of Kernel: a ring of three slots, one key with *)
(* the scan code 0x1E, a screen of 8 by 6.                                 *)
EXTENDS Kernel

MCChar == {"a", "^", "v", "<", ">"}
MCUnshifted == [c \in 0 .. 127 |-> IF c = 30 THEN "a" ELSE NUL]
MCShifted   == MCUnshifted

(* Movements that stop at an edge and come back, both of whose bytes have  *)
(* bit 3 clear.                                                            *)
MCMoves == { <<-12, -9, 1>>, <<3, 2, 0>> }

(* A prompt machine with a mouse and one without; one that latches, one    *)
(* that is slow.                                                           *)
MCMachines == { {"mouse"}, {}, {"mouse", "latch"}, {"mouse", "slow"} }
Desktop    == { {"mouse"} }
=============================================================================

-------------------------------- MODULE Pic --------------------------------
(***************************************************************************)
(* The pair of 8259 interrupt controllers as idt.c programs it, and the    *)
(* part of the interrupt path the kernel depends on: a request is latched, *)
(* delivered by priority, in service until its handler sends the EOIs.     *)
(* The chips are external; pic_remap fixes which lines are unmasked and    *)
(* that the slave hangs on line 2 (idt.c:22-47).                           *)
(***************************************************************************)
EXTENDS Integers, FiniteSets

(* The lines something is wired to: timer, keyboard, mouse (on the slave). *)
Timer    == 0
Kbd      == 1
Cascade  == 2
Mouse12  == 12
Line     == {Timer, Kbd, Mouse12}

(* Masks 0xF8 and 0xEF: lines 0, 1, 2 of the master, line 4 of the slave.  *)
MutUnmasked == {Timer, Cascade, Mouse12}
Unmasked == {Timer, Kbd, Cascade, Mouse12}

VARIABLES
  irr,     \* requests latched and not yet delivered
  isr      \* requests in service, the cascade line included

picVars == <<irr, isr>>

PicTypeOK ==
  /\ irr \subseteq Line
  /\ isr \subseteq Line \cup {Cascade}

(* ICW1 clears the latches.                                                *)
PicInit ==
  /\ irr = {}
  /\ isr = {}

MasterOf(n) == IF n < 8 THEN n ELSE Cascade

(* A request goes through when it is unmasked, its line on the master too, *)
(* and nothing of the same or a higher priority is in service.             *)
Deliverable(n) ==
  /\ n \in irr
  /\ {n, MasterOf(n)} \subseteq Unmasked
  /\ \A m \in isr : MasterOf(n) < MasterOf(m)

(* What the CPU is interrupted with: the highest priority first.           *)
Taken(n) ==
  /\ Deliverable(n)
  /\ \A m \in Line : Deliverable(m) => MasterOf(n) <= MasterOf(m)

InService(n) == isr \cup {n, MasterOf(n)}

(* outb(0x20, 0x20) and outb(0xA0, 0x20): each chip ends the service of    *)
(* its highest priority.                                                   *)
EoiMaster(S) == {m \in S : m >= 8 \/ \E k \in S : k < m}
EoiSlave(S)  == {m \in S : m < 8}
=============================================================================

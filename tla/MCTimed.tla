------------------------------ MODULE MCTimed ------------------------------
(* All three tasks, one slot that is used again. *)
EXTENDS Timed

MCSlots == 0 .. 0
=============================================================================

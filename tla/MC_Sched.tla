------------------------------ MODULE MC_Sched ------------------------------
(* Two harts and two processes. *)
EXTENDS Sched
=============================================================================

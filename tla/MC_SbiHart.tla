----------------------------- MODULE MC_SbiHart -----------------------------
(* Hart control with hart 0 and two others. *)
EXTENDS SbiHart
=============================================================================

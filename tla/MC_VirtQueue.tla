--------------------------- MODULE MC_VirtQueue ---------------------------
(* The request queue with small indices, so that they wrap. *)
EXTENDS VirtQueue
=============================================================================

--------------------------- MODULE MC_PageSteps ---------------------------
(* The bytewise page allocator, on one hart and on two. *)
EXTENDS PageSteps
=============================================================================

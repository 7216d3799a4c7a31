--------------------------- MODULE MC_PageAlloc ---------------------------
(* The page allocator on a table of seven pages. *)
EXTENDS PageAlloc
=============================================================================

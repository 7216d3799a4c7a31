------------------------------- MODULE MC_Vfs -------------------------------
(* The file system and its cache on a disk of a few zones. *)
EXTENDS Vfs

TypedNames == {Path("a", FALSE), Path("b", TRUE)}
=============================================================================

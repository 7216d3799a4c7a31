----------------------------- MODULE MC_Memory -----------------------------
(* Instances of ProcessMemory for TLC. *)
EXTENDS ProcessMemory

CONSTANTS h1, h2, p1, p2

Scene(harts, procs, requests, n) ==
    [harts |-> harts, procs |-> procs, requests |-> requests, held |-> n]

\* The heap alone, from two harts; two processes at a time, and little else;
\* a process that comes and goes between requests of more than a page.
MCScenes ==
    { Scene({h1, h2}, {}, {1, 7} \X BOOLEAN, 3),
      Scene({h1}, {p1, p2}, {<<1, FALSE>>}, 3),
      Scene({h1, h2}, {p1, p2}, {<<7, FALSE>>}, 3) }
=============================================================================

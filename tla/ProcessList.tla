---------------------------- MODULE ProcessList ----------------------------
(***************************************************************************)
(* The process lists of src/src/process.c, as sequences.  A list is kept   *)
(* in ascending order of virtual run time by process_insert; the head is   *)
(* the process the scheduler runs next.  A doubly linked node is a position*)
(* of the list.  Each insertion gets its node from kmalloc, which is taken *)
(* to succeed: the code prints a message and goes on behind NULL otherwise*)
(***************************************************************************)
EXTENDS Integers, Sequences, FiniteSets

\* The processes that occur in a list.
Elems(l) == {l[i] : i \in 1..Len(l)}

\* The list with p linked in front of its i-th node (at the end when i is one
\* past the last node).
LinkAt(l, i, p) ==
    [j \in 1..(Len(l) + 1) |-> IF j < i THEN l[j]
                               ELSE IF j = i THEN p ELSE l[j-1]]

\* Mutation: the node is left where it was.
UnlinkAt_Kept(l, i) == l

\* The list without its i-th node.
UnlinkAt(l, i) ==
    [j \in 1..(Len(l) - 1) |-> IF j < i THEN l[j] ELSE l[j+1]]

\* Mutation: always at the head, as a plain push would do.
InsertPos_Push(vruntime, l, v) == 1

\* Where process_insert links a process of run time v: in front of the first
\* node whose run time is not smaller, so a newcomer goes before its equals.
InsertPos(vruntime, l, v) ==
    IF \E i \in 1..Len(l) : v <= vruntime[l[i]]
    THEN CHOOSE i \in 1..Len(l) :
            /\ v <= vruntime[l[i]]
            /\ \A j \in 1..(i-1) : vruntime[l[j]] < v
    ELSE Len(l) + 1

process_insert(vruntime, l, p) == LinkAt(l, InsertPos(vruntime, l, vruntime[p]), p)

\* process_remove_lowest takes the head; process_remove unlinks a given node.
process_remove_lowest(l) == UnlinkAt(l, 1)
process_remove(l, i) == UnlinkAt(l, i)

\* No process has two nodes in the list.
NoDuplicates(l) == \A i, j \in 1..Len(l) : l[i] = l[j] => i = j

\* Ascending run time, the order process_insert relies on and maintains.
Ascending(vruntime, l) ==
    \A i, j \in 1..Len(l) : i < j => vruntime[l[i]] <= vruntime[l[j]]

=============================================================================

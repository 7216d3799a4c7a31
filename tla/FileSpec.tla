------------------------------ MODULE FileSpec ------------------------------
(***************************************************************************)
(* What the file system promises: a set of files, each a sequence of units *)
(* to which units are appended; a directory is a file of entries, and an   *)
(* entry that is removed leaves its place empty.  The promise ends (`ok'   *)
(* is FALSE) with the first command the file system does not come back     *)
(* from or that it carries out wrongly.                                    *)
(***************************************************************************)
EXTENDS Integers, Sequences, TLC

CONSTANTS
    Names,
    Lengths,   \* how many units a command appends
    Datum(_)   \* the units it appends

VARIABLES
    ok,
    content,  \* inode number -> sequence of units, for the files there are
    kind      \* inode number -> "reg" or "dir"

Entry(n, s) == [inode_num |-> n, name |-> s]
Dirs == {i \in DOMAIN content : kind[i] = "dir"}
Names_in(p) == {content[p][u].name : u \in {v \in DOMAIN content[p] : content[p][v].inode_num # 0}}

Init ==
    /\ ok = TRUE
    /\ content = (1 :> <<Entry(1, "."), Entry(1, "..")>>)
    /\ kind = (1 :> "dir")

Create(p, name, i, k) ==
    /\ k \in {"reg", "dir"}
    /\ name \notin Names_in(p)
    /\ kind' = (i :> k) @@ kind
    /\ content' = (i :> IF k = "dir" THEN <<Entry(i, "."), Entry(p, "..")>> ELSE <<>>)
                  @@ [content EXCEPT ![p] = Append(@, Entry(i, name))]

\* The file i that is entry u of directory p.
Remove(p, u, i) ==
    /\ i # 1 /\ i # p /\ content[p][u].name \in Names
    /\ i \in Dirs => Len(content[i]) = 2
    /\ content' = [k \in DOMAIN content \ {i} |->
                     IF k = p THEN [content[p] EXCEPT ![u].inode_num = 0] ELSE content[k]]
    /\ kind' = [k \in DOMAIN content \ {i} |-> kind[k]]

\* A new file that is filled at once.
CreateWith(p, name, i, units) ==
    /\ name \notin Names_in(p)
    /\ kind' = (i :> "reg") @@ kind
    /\ content' = (i :> units) @@ [content EXCEPT ![p] = Append(@, Entry(i, name))]

Extend(i, units) ==
    /\ kind[i] = "reg" /\ Len(content'[i]) = Len(content[i]) + Len(units)
    /\ content' = [content EXCEPT ![i] = @ \o units]
    /\ UNCHANGED kind

Fail == ok' = FALSE /\ content' = <<>> /\ kind' = <<>>

\* The file that appears or goes is read off the next state.
Next ==
    /\ ok
    /\ \/ Fail
       \/ /\ ok'
          /\ \/ \E i \in DOMAIN content' \ DOMAIN content, p \in Dirs, name \in Names :
                   \/ Create(p, name, i, kind'[i])
                   \/ \E n \in Lengths : CreateWith(p, name, i, Datum(n))
             \/ \E i \in DOMAIN content \ DOMAIN content', p \in Dirs :
                   \E u \in DOMAIN content[p] : content[p][u].inode_num = i /\ Remove(p, u, i)
             \/ /\ DOMAIN content' = DOMAIN content
                /\ \E i \in DOMAIN content, n \in Lengths : Extend(i, Datum(n))

Spec == Init /\ [][Next]_<<ok, content, kind>>
=============================================================================

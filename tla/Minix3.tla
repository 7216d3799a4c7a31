------------------------------- MODULE Minix3 -------------------------------
(***************************************************************************)
(* The Minix 3 file system, src/src/minix3.c, on one disk.  Sizes are      *)
(* counted in units of 64 bytes, the size of a directory entry; a zone     *)
(* holds BlockSize units or PPZ pointers.  `d' is always the disk (a value *)
(* of `disk'), `f' an inode in memory.                                     *)
(*                                                                         *)
(* A search of the bitmaps that never ends is recorded in d.hung: the      *)
(* console never comes back from it, and none of the writes that would     *)
(* have followed happens.                                                  *)
(***************************************************************************)
EXTENDS Integers, FiniteSets, Sequences, SequencesExt, FiniteSetsExt

CONSTANTS
    NumInodes,      \* sb->num_inodes
    FirstDataZone,  \* sb->first_data_zone
    NumZones,       \* sb->num_zones; zones are numbered from 0 on the disk
    BlockSize,      \* units of 64 bytes in a zone
    PPZ,            \* pointers in a zone
    MX3_IDZONE,     \* number of direct zones, 7 in minix3.h
    StrayZone       \* what minix3_clear_all_zones reads behind its buffer

ASSUME DiskAssumption ==
    /\ {NumInodes, FirstDataZone, NumZones, BlockSize, PPZ, MX3_IDZONE} \subseteq Nat \ {0}
    /\ 1 < FirstDataZone /\ FirstDataZone < NumZones

VARIABLE disk

Zones == FirstDataZone .. NumZones - 1
Inodes == 1 .. NumInodes
MX3_IIDZONE == MX3_IDZONE + 1
MX3_IIIDZONE == MX3_IDZONE + 2

\* A unit of a zone read as mx3_dir_entry_t; inode_num is 0 in the data of a
\* file and in an entry that was removed.
Entry(n, s) == [inode_num |-> n, name |-> s]
ZeroUnit == Entry(0, "")

NoPointers == [j \in 0 .. PPZ - 1 |-> 0]
NoUnits == [j \in 0 .. BlockSize - 1 |-> ZeroUnit]

\* mx3_inode_t; uid, gid and the times play no part.
Inode(m, n) == [mode |-> m, nlinks |-> n, size |-> 0,
                zones |-> [i \in 0 .. MX3_IIIDZONE |-> 0]]

\* A freshly formatted disk: the root directory in the first data zone, and
\* the bits of what does not exist set.
Formatted ==
    [imap |-> {1},            \* inodes whose bit is set
     zmap |-> {FirstDataZone},
     icur |-> 1,              \* static test_available_inode_num
     zcur |-> 0,              \* static test_available_zone_num
     inode |-> [i \in Inodes |->
                  IF i = 1 THEN [Inode("dir", 2) EXCEPT !.size = 2, !.zones[0] = FirstDataZone]
                           ELSE Inode("none", 0)],
     ptr |-> [z \in Zones |-> NoPointers],
     data |-> [z \in Zones |-> IF z = FirstDataZone
                  THEN [NoUnits EXCEPT ![0] = Entry(1, "."), ![1] = Entry(1, "..")]
                  ELSE NoUnits],
     hung |-> "no"]
----------------------------------------------------------------------------
(* Bitmaps and allocation. *)

\* minix3_set_zone_as, with the zones it refuses.
set_zone_as(d, z, as) ==
    IF d.hung # "no" \/ z \notin Zones THEN d
    ELSE [d EXCEPT !.zmap = IF as THEN @ \union {z} ELSE @ \ {z}]

\* minix3_set_inode_as
set_inode_as(d, i, as) ==
    IF d.hung # "no" \/ i \notin Inodes THEN d
    ELSE [d EXCEPT !.imap = IF as THEN @ \union {i} ELSE @ \ {i}]

\* minix3_is_zone_in_range and minix3_is_zone_occupied: the first zones of the
\* disk are neither in range nor free, and the image marks what lies behind
\* its end.
ZoneFree(d, z) == z \in Zones /\ z \notin d.zmap

\* minix3_is_inode_in_range and minix3_is_inode_occupied.  One number too many
\* is in range; the image marks it.
InodeFree(d, i) == i \in Inodes /\ i \notin d.imap

\* minix3_get_available_zone: the search goes on from where the last one ended.
\* Behind the last zone it starts again at zone 0, which is not in range, and
\* so goes back to zone 0 for ever.
get_available_zone(d) ==
    LET from == IF d.zcur = 0 THEN FirstDataZone ELSE d.zcur
        free == {z \in from .. NumZones - 1 : ZoneFree(d, z)}
    IN IF d.hung # "no" THEN [d |-> d, zone |-> 0]
       ELSE IF free = {} THEN [d |-> [d EXCEPT !.hung = "zone"], zone |-> 0]
       ELSE [d |-> [d EXCEPT !.zcur = Min(free), !.ptr[Min(free)] = NoPointers,
                             !.data[Min(free)] = NoUnits],
             zone |-> Min(free)]

\* minix3_get_available_inode: this search does start again.
get_available_inode(d) ==
    LET behind == {i \in d.icur .. NumInodes : InodeFree(d, i)}
        free == IF behind # {} THEN behind ELSE {i \in Inodes : InodeFree(d, i)}
    IN IF d.hung # "no" THEN [d |-> d, inode |-> 0]
       ELSE IF free = {} THEN [d |-> [d EXCEPT !.hung = "inode"], inode |-> 0]
       ELSE [d |-> [d EXCEPT !.icur = Min(free)], inode |-> Min(free)]

\* A pointer zone: allocated, marked and zeroed.
Marked(r) == [r EXCEPT !.d = set_zone_as(@, r.zone, TRUE)]
new_zone(d) == Marked(get_available_zone(d))
----------------------------------------------------------------------------
(* A file as a row of zones. *)

get_file_max_zones == MX3_IDZONE + PPZ + PPZ * PPZ + PPZ * PPZ * PPZ

\* The first index of the doubly and of the triply indirect zones.
II == MX3_IDZONE + PPZ
III == II + PPZ * PPZ

Pointer(d, z, j) == IF z = 0 THEN 0 ELSE d.ptr[z][j]

\* Where the pointer to zone i of the file is kept: <<pointer zone, index>>,
\* pointer zone 0 when there is none.  The inode itself is zone InInode.  The
\* walk below a triply indirect zone goes on in the doubly indirect one.
InInode == -1
Slot(d, f, i) ==
    CASE i < MX3_IDZONE -> <<InInode, i>>
      [] i >= MX3_IDZONE /\ i < II -> <<f.zones[MX3_IDZONE], i - MX3_IDZONE>>
      [] i >= II /\ i < III ->
            <<Pointer(d, f.zones[MX3_IIDZONE], (i - II) \div PPZ), (i - II) % PPZ>>
      [] OTHER ->
            LET n == i - III
                above == Pointer(d, f.zones[MX3_IIIDZONE], n \div (PPZ * PPZ))
                middle == IF above = 0 THEN 0 ELSE f.zones[MX3_IIDZONE]
            IN <<Pointer(d, middle, (n \div PPZ) % PPZ), n % PPZ>>

HasSlot(d, f, i) == Slot(d, f, i)[1] # 0
AtSlot(d, f, s) == IF s[1] = InInode THEN f.zones[s[2]] ELSE Pointer(d, s[1], s[2])
ZoneAt(d, f, i) == AtSlot(d, f, Slot(d, f, i))

\* The walk stops at the first index not below i whose pointer exists; behind
\* the last one the zone it returns is not initialised.
Uninitialised == get_file_max_zones
Reached(d, f, i) ==
    IF HasSlot(d, f, i) THEN i
    ELSE IF \A k \in MX3_IDZONE .. MX3_IIIDZONE : f.zones[k] = 0 THEN Uninitialised
    ELSE Min({k \in i .. get_file_max_zones - 1 : HasSlot(d, f, k)} \union {Uninitialised})

\* minix3_zone_walker, reading: the zone (minix3_get_zone), and what of the
\* file's size is left in front of it (minix3_gzbars).
ZoneReached(d, f, at) == IF at = Uninitialised THEN Uninitialised ELSE ZoneAt(d, f, at)
get_zone(d, f, i) == ZoneReached(d, f, Reached(d, f, i))
remaining_size(d, f, i) ==
    LET before == {k \in 0 .. Reached(d, f, i) - 1 : ZoneAt(d, f, k) # 0}
    IN Max({0, f.size - BlockSize * Cardinality(before)})

\* The pointer zones minix3_zone_walker allocates when it is to set zone i: at
\* the first index of a level and of each of its pointer zones, even where
\* there was one.
InodePoints(w, k, r) == [d |-> r.d, f |-> [w.f EXCEPT !.zones[k] = r.zone]]
PointInInode(w, k, due) == IF due THEN InodePoints(w, k, new_zone(w.d)) ELSE w
ZonePoints(w, z, j, r) ==
    [w EXCEPT !.d = IF r.d.hung # "no" THEN r.d ELSE [r.d EXCEPT !.ptr[z][j] = r.zone]]
PointInZone(w, k, j, due) ==
    IF due /\ w.f.zones[k] # 0 THEN ZonePoints(w, w.f.zones[k], j, new_zone(w.d)) ELSE w
add_pointer_zones(d, f, i) ==
    LET single(w) == PointInInode(w, MX3_IDZONE, i = MX3_IDZONE)
        double(w) == PointInZone(PointInInode(w, MX3_IIDZONE, i = II),
                                 MX3_IIDZONE, (i - II) \div PPZ,
                                 i >= II /\ i < III /\ (i - II) % PPZ = 0)
        top(w) == PointInZone(PointInInode(w, MX3_IIIDZONE, i = III),
                              MX3_IIIDZONE, (i - III) \div (PPZ * PPZ),
                              i >= III /\ (i - III) % (PPZ * PPZ) = 0)
        triple(w) == PointInZone(top(w), MX3_IIDZONE, ((i - III) \div PPZ) % PPZ,
                                 i >= III /\ (i - III) % PPZ = 0)
    IN triple(double(single([d |-> d, f |-> f])))

\* minix3_zone_walker, setting zone i of the file (minix3_set_zone_to).
StoreIn(w, s, z) ==
    IF s[1] = InInode THEN [w EXCEPT !.f.zones[s[2]] = z] ELSE [w EXCEPT !.d.ptr[s[1]][s[2]] = z]
StoreAt(w, at, z) ==
    IF w.d.hung # "no" \/ at = Uninitialised THEN w ELSE StoreIn(w, Slot(w.d, w.f, at), z)
StoreFrom(w, i, z) == StoreAt(w, Reached(w.d, w.f, i), z)
set_zone_to(d, f, i, z) == StoreFrom(add_pointer_zones(d, f, i), i, z)

\* minix3_get_last_file_zone: a first guess, and on from there if it was short.
get_last_file_zone(d, f) ==
    LET guess == (f.size - 1) \div BlockSize
    IN IF f.size = 0 THEN 0
       ELSE IF remaining_size(d, f, guess) <= BlockSize THEN guess
       ELSE Min({i \in guess + 1 .. get_file_max_zones : remaining_size(d, f, i) <= BlockSize})

\* minix3_append_zone: [d, f] with the new zone, marked, at the end of the file.
NextIndex(d, f) == IF f.size = 0 THEN 0 ELSE get_last_file_zone(d, f) + 1
append_zone_Unmarked(d, f, i) ==
    LET r == get_available_zone(d)
    IN set_zone_to(r.d, f, i, r.zone)
append_zone(d, f, i) ==
    LET r == get_available_zone(d)
    IN set_zone_to(set_zone_as(r.d, r.zone, TRUE), f, i, r.zone)

\* minix3_clear_zone on a direct zone; the inode stays in memory.
clear_zone(d, f, i) == set_zone_as(d, get_zone(d, f, i), FALSE)

\* minix3_clear_all_zones.  It stops at the level at which the size is used up.
\* Below the doubly indirect zone the pointer zones stay marked, and in their
\* place goes the number behind the end of the buffer; below a triply indirect
\* one the walk reads the boot block.
Leaves(d, z) == {d.ptr[z][j] : j \in 0 .. PPZ - 1} \ {0}
clear_all_zones(d, f) ==
    LET direct == {f.zones[i] : i \in 0 .. MX3_IDZONE - 1} \ {0}
        I == f.zones[MX3_IDZONE]
        single == IF I = 0 THEN {} ELSE Leaves(d, I)
        D == f.zones[MX3_IIDZONE]
        double == IF D = 0 THEN {} ELSE UNION {Leaves(d, z) : z \in Leaves(d, D)}
        past1 == f.size > BlockSize * Cardinality(direct)
        past2 == f.size > BlockSize * (Cardinality(direct) + Cardinality(single))
        past3 == f.size > BlockSize * (Cardinality(direct) + Cardinality(single)
                                                            + Cardinality(double))
    IN [d EXCEPT !.zmap = @ \ (direct
           \union (IF past1 THEN single \union {I} ELSE {})
           \union (IF past2 /\ D # 0 THEN double \union {D, StrayZone} ELSE {})
           \union (IF past3 THEN {f.zones[MX3_IIIDZONE]} ELSE {}))]
----------------------------------------------------------------------------
(* Inodes and directories. *)

\* minix3_get_inode and minix3_put_inode (minix3_inode_transfer_common)
get_inode(d, i) == d.inode[i]
put_inode(d, i, f) == IF d.hung # "no" THEN d ELSE [d EXCEPT !.inode[i] = f]

\* The zones a walk over a directory looks at, until no size is left.
Walked_Direct(d, f) ==
    {i \in 0 .. MX3_IDZONE - 1 : get_zone(d, f, i) \in Zones /\ remaining_size(d, f, i) # 0}
Walked(d, f) ==
    {i \in 0 .. get_file_max_zones - 1 :
        get_zone(d, f, i) \in Zones /\ remaining_size(d, f, i) # 0}

\* minix3_get_inode_from_name: the inode number, 0 if there is none.  The first
\* match in a zone counts, and of several zones the last.
get_inode_from_name(d, f, name) ==
    LET hits(i) == {j \in 0 .. BlockSize - 1 :
                      LET e == d.data[get_zone(d, f, i)][j] IN e.inode_num # 0 /\ e.name = name}
        has == {i \in Walked(d, f) : hits(i) # {}}
    IN IF has = {} THEN 0 ELSE d.data[get_zone(d, f, Max(has))][Min(hits(Max(has)))].inode_num

\* The loop at the end of minix3_rm and minix3_rmdir: in every zone of the
\* directory the first entry with that inode number loses it.
forget_entry(d, f, child) ==
    LET zs == {get_zone(d, f, i) : i \in Walked(d, f)}
        hit(z) == {j \in 0 .. BlockSize - 1 : d.data[z][j].inode_num = child}
    IN IF d.hung # "no" THEN d
       ELSE [d EXCEPT !.data = [z \in Zones |->
               IF z \in zs /\ hit(z) # {} THEN [@[z] EXCEPT ![Min(hit(z))].inode_num = 0]
               ELSE @[z]]]

\* block_write_arbitrary of units into a zone, from unit o on
WriteUnits(d, z, o, units) ==
    IF d.hung # "no" \/ z \notin Zones THEN d
    ELSE [d EXCEPT !.data[z] = [j \in 0 .. BlockSize - 1 |->
             IF j \in o .. o + Len(units) - 1 THEN units[j - o + 1] ELSE @[j]]]

\* minix3_append_to_file: the rest of the last zone, then a zone for every
\* block.  The inode is written back at the end.
BlockAppended(w, i, a, units) ==
    IF w.d.hung # "no" \/ a.d.hung # "no" THEN [w EXCEPT !.d = a.d]
    ELSE [d |-> WriteUnits(a.d, get_zone(a.d, a.f, i), 0, units),
          f |-> [a.f EXCEPT !.size = @ + Len(units)]]
NewBlock(w, i, units) == BlockAppended(w, i, append_zone(w.d, w.f, i), units)
AppendBlock(w, units) == NewBlock(w, NextIndex(w.d, w.f), units)
Blocks(units) ==
    [k \in 1 .. (Len(units) + BlockSize - 1) \div BlockSize |->
       SubSeq(units, (k - 1) * BlockSize + 1, Min({k * BlockSize, Len(units)}))]
FillUp_NewZone(d, f, z, left, n, units) ==
    FoldLeft(AppendBlock, [d |-> d, f |-> f], Blocks(units))
FillUp(d, f, z, left, n, units) ==
    FoldLeft(AppendBlock,
             [d |-> WriteUnits(d, z, left, SubSeq(units, 1, n)), f |-> [f EXCEPT !.size = @ + n]],
             Blocks(SubSeq(units, n + 1, Len(units))))
FillLast(d, f, z, left, units) ==
    FillUp(d, f, z, left, IF z \in Zones THEN Min({BlockSize - left, Len(units)}) ELSE 0, units)
WriteBack(i, w) == put_inode(w.d, i, w.f)
append_to_file(d, i, units) ==
    LET f == get_inode(d, i)
        last == get_last_file_zone(d, f)
    IN WriteBack(i, FillLast(d, f, get_zone(d, f, last), remaining_size(d, f, last), units))

\* minix3_read_from_zone and minix3_read_whole_file: zones that are missing
\* read as zero.
read_from_zone(d, f, i) ==
    LET z == get_zone(d, f, i) IN IF z \in Zones THEN d.data[z] ELSE NoUnits
read_whole_file(d, f) ==
    [u \in 1 .. f.size |-> read_from_zone(d, f, (u - 1) \div BlockSize)[(u - 1) % BlockSize]]

\* minix3_ls: the entries it prints, zone after zone.
ls(d, f) ==
    FlattenSeq([i \in 1 .. Cardinality(Walked(d, f)) |->
        SelectSeq([j \in 1 .. BlockSize |-> read_from_zone(d, f, i - 1)[j - 1]],
                  LAMBDA e : e.inode_num # 0)])
----------------------------------------------------------------------------
(* The operations: [d, ret], ret the return code. *)

\* minix3_touch_common (minix3_touch_reg, minix3_touch_dir)
new_file(r, p, name, mode) ==
    append_to_file(put_inode(set_inode_as(r.d, r.inode, TRUE), r.inode, Inode(mode, 1)),
                   p, <<Entry(r.inode, name)>>)
touch_common(d, p, name, mode) ==
    LET f == get_inode(d, p)
    IN CASE f.mode # "dir" -> [d |-> d, ret |-> "parent is no directory"]
         [] f.mode = "dir" /\ get_inode_from_name(d, f, name) # 0 -> [d |-> d, ret |-> "exists"]
         [] OTHER -> [d |-> new_file(get_available_inode(d), p, name, mode), ret |-> "ok"]

\* minix3_rm.  A name that is not found is answered like a directory.
rm_child(d, f, child) ==
    LET g == get_inode(d, child)
        d1 == IF g.size > 0 THEN clear_all_zones(d, g) ELSE d
    IN CASE f.mode # "dir" -> [d |-> d, ret |-> "parent is no directory"]
         [] f.mode = "dir" /\ child = 0 -> [d |-> d, ret |-> "is a directory"]
         [] f.mode = "dir" /\ child # 0 /\ g.mode = "dir" -> [d |-> d, ret |-> "is a directory"]
         [] OTHER -> [d |-> forget_entry(set_inode_as(d1, child, FALSE), f, child), ret |-> "ok"]
rm(d, p, name) ==
    rm_child(d, get_inode(d, p), get_inode_from_name(d, get_inode(d, p), name))

\* minix3_mkdir: the file, then the two links, then the two entries.
dots(d, p, child) ==
    append_to_file(append_to_file(d, child, <<Entry(child, ".")>>), child, <<Entry(p, "..")>>)
mkdir_links_OneLink(d, p, child) == d
mkdir_links(d, p, child) ==
    LET f == get_inode(d, p)
        g == get_inode(d, child)
    IN put_inode(put_inode(d, p, [f EXCEPT !.nlinks = @ + 1]),
                 child, [g EXCEPT !.nlinks = @ + 1])
mkdir_child(d, p, child) == dots(mkdir_links(d, p, child), p, child)
mkdir_touched(t, p, name) ==
    IF t.ret # "ok" \/ t.d.hung # "no" THEN t
    ELSE [t EXCEPT !.d = mkdir_child(@, p, get_inode_from_name(@, get_inode(@, p), name))]
mkdir(d, p, name) == mkdir_touched(touch_common(d, p, name, "dir"), p, name)

\* minix3_rmdir_check: entries are never taken out of a directory, so one that
\* ever held a file counts as not empty.
rmdir_check(d, g) ==
    IF g.size # 2 THEN "not empty"
    ELSE LET dot == get_inode_from_name(d, g, ".")
         IN IF dot # 0 /\ get_inode(d, dot).mode = "dir" THEN "ok" ELSE "unknown error"

\* minix3_rmdir
rmdir_child(d, p, f, child) ==
    LET g == get_inode(d, child)
        check == rmdir_check(d, g)
        d1 == set_inode_as(clear_zone(d, g, 0), child, FALSE)
    IN CASE f.mode # "dir" -> [d |-> d, ret |-> "parent is no directory"]
         [] f.mode = "dir" /\ child = 0 -> [d |-> d, ret |-> "not found"]
         [] f.mode = "dir" /\ child # 0 /\ g.mode # "dir" -> [d |-> d, ret |-> "not a directory"]
         [] OTHER ->
              IF check # "ok" THEN [d |-> d, ret |-> check]
              ELSE IF child = 1 \/ get_last_file_zone(d, g) # 0
                   THEN [d |-> d, ret |-> "unknown error"]
              ELSE [d |-> put_inode(forget_entry(d1, f, child), p, [f EXCEPT !.nlinks = @ - 1]),
                    ret |-> "ok"]
rmdir(d, p, name) ==
    rmdir_child(d, p, get_inode(d, p), get_inode_from_name(d, get_inode(d, p), name))
=============================================================================

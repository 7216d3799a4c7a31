-------------------------------- MODULE Vfs --------------------------------
(***************************************************************************)
(* The virtual file system, src/src/vfs.c, over the Minix 3 file system,   *)
(* with the commands of the console that reach it (execute_command in      *)
(* src/src/main.c): the tree of directories the console has been in is     *)
(* cached and never looked up again.                                       *)
(*                                                                         *)
(* `mishap' records commands that leave the disk or the tree wrong; the    *)
(* model follows the console past the ones in Tolerated.                   *)
(***************************************************************************)
EXTENDS Minix3

CONSTANTS
    Typed,      \* the paths an operator types, a set of [name, slash]
    Lengths,    \* how many units `append' writes
    Images,     \* how many units `bmp2file' writes
    NodeIds,    \* bound: addresses of cached nodes
    MaxCommands,\* bound: commands that change the disk
    Tolerated   \* mishaps past which the model goes on

VARIABLES
    node,       \* vfs_directory_t, by address; children_llist newest first
    pwd,        \* v_dir_pwd
    mishap,
    commands    \* how many commands changed the disk

vars == <<disk, node, pwd, mishap, commands>>

Root == 1                     \* v_dir_root
Mishaps == {"freed a stray zone", "removed itself", "cached twice", "wrote to no file"}

ASSUME VfsAssumption ==
    /\ \A p \in Typed : p.slash \in BOOLEAN
    /\ Root \in NodeIds /\ NodeIds \subseteq Nat /\ Tolerated \subseteq Mishaps
    /\ Lengths \union Images \union {MaxCommands} \subseteq Nat \ {0}

Path(s, slash) == [name |-> s, slash |-> slash]

\* vfs_process_path: what names a node.  vfs_path_to_minix3_path: the name of
\* the directory entry.
vfs_process_path(p) == [p EXCEPT !.slash = TRUE]
vfs_path_to_minix3_path(p) == p.name

Vdir(path, i, parent, type) ==
    [path |-> path, inode_num |-> i, parent |-> parent, children |-> <<>>, fs_type |-> type]

\* vfs_init: the root, which belongs to no file system yet.
vfs_init == (Root :> Vdir(Path("", TRUE), 0, Root, "os"))

\* minix3_init and vfs_mount_minix3: `found' says whether a drive holds the
\* magic number.
vfs_mount_minix3(n, found) ==
    IF found THEN [n EXCEPT ![Root].fs_type = "minix3", ![Root].inode_num = 1] ELSE n

Init ==
    /\ disk = Formatted
    /\ \E found \in BOOLEAN : node = vfs_mount_minix3(vfs_init, found)
    /\ pwd = Root
    /\ mishap = {}
    /\ commands = 0
----------------------------------------------------------------------------
(* The cached tree. *)

Cached(n, dir, path) == SelectSeq(n[dir].children, LAMBDA c : n[c].path = path)

\* vfs_is_path_cached
vfs_is_path_cached(n, dir, path) == Cached(n, dir, path) # <<>>

\* vfs_cache_path: [n, ret].  A directory that is found becomes the first
\* child, whether or not there is one of that name.
FreshId(n) == Min(NodeIds \ DOMAIN n)
vfs_cache_path(d, n, dir, path) ==
    LET f == get_inode(d, n[dir].inode_num)
        child == get_inode_from_name(d, f, vfs_path_to_minix3_path(path))
        new == FreshId(n)
    IN CASE n[dir].fs_type # "minix3" -> [n |-> n, ret |-> "invalid directory"]
         [] n[dir].fs_type = "minix3" /\ child = 0 -> [n |-> n, ret |-> "not found"]
         [] n[dir].fs_type = "minix3" /\ child # 0 /\ get_inode(d, child).mode # "dir" ->
              [n |-> n, ret |-> "not a directory"]
         [] OTHER ->
              [n |-> (new :> Vdir(path, child, dir, "minix3"))
                      @@ [n EXCEPT ![dir].children = <<new>> \o @],
               ret |-> "ok"]

\* The search in vfs_rmdir, vfs_remove_from_llist and
\* vfs_free_directory_llist_node: the newest child of that name is unlinked,
\* and freed unless it has children itself.
uncache(n, dir, path) ==
    LET hits == Cached(n, dir, path)
        c == hits[1]
        m == [n EXCEPT ![dir].children = SelectSeq(@, LAMBDA x : x # c)]
    IN IF hits = <<>> THEN n
       ELSE IF n[c].children # <<>> THEN m
       ELSE [k \in DOMAIN m \ {c} |-> m[k]]
----------------------------------------------------------------------------
(* The commands. *)

Cwd == node[pwd].inode_num
OnMinix3 == node[pwd].fs_type = "minix3"
Room == NodeIds \ DOMAIN node # {}

\* cd: vfs_cd, with vfs_cd_into_cached_path.
Cd(path) ==
    LET p == vfs_process_path(path)
        r == IF vfs_is_path_cached(node, pwd, p) THEN [n |-> node, ret |-> "ok"]
             ELSE vfs_cache_path(disk, node, pwd, p)
    IN /\ Room
       /\ \/ path = Path(".", FALSE) /\ UNCHANGED <<node, pwd>>
          \/ path = Path("..", FALSE) /\ pwd' = node[pwd].parent /\ UNCHANGED node
          \/ /\ path \notin {Path(".", FALSE), Path("..", FALSE)}
             /\ node' = r.n
             /\ pwd' = IF r.ret = "ok" THEN Cached(r.n, pwd, p)[1] ELSE pwd
       /\ UNCHANGED <<disk, mishap>>

\* cd without an argument
CdRoot == pwd' = Root /\ UNCHANGED <<disk, node, mishap>>

\* touch: vfs_touch
Touch(path) ==
    /\ disk' = touch_common(disk, Cwd, vfs_path_to_minix3_path(path), "reg").d
    /\ UNCHANGED <<node, pwd, mishap>>

\* rm: vfs_rm
Rm(path) ==
    LET name == vfs_path_to_minix3_path(path)
        r == rm(disk, Cwd, name)
        g == get_inode(disk, get_inode_from_name(disk, get_inode(disk, Cwd), name))
    IN /\ disk' = r.d
       /\ mishap' = IF r.ret = "ok" /\ g.zones[MX3_IIDZONE] # 0
                    THEN mishap \union {"freed a stray zone"} ELSE mishap
       /\ UNCHANGED <<node, pwd>>

\* mkdir: vfs_mkdir, which caches the path also when minix3_mkdir failed.
MadeAndCached(p, d, n) ==
    /\ disk' = d
    /\ node' = IF d.hung = "no" THEN n ELSE node
    /\ mishap' = IF d.hung = "no" /\ vfs_is_path_cached(node, pwd, p) /\ n # node
                 THEN mishap \union {"cached twice"} ELSE mishap
    /\ UNCHANGED pwd
Made(p, d) == MadeAndCached(p, d, vfs_cache_path(d, node, pwd, p).n)
Mkdir(path) ==
    /\ Room
    /\ Made(vfs_process_path(path), mkdir(disk, Cwd, vfs_path_to_minix3_path(path)).d)

\* rmdir: vfs_rmdir
Rmdir_KeepsNode(path) ==
    /\ disk' = rmdir(disk, Cwd, vfs_path_to_minix3_path(path)).d
    /\ UNCHANGED <<node, mishap, pwd>>
Rmdir(path) ==
    LET r == rmdir(disk, Cwd, vfs_path_to_minix3_path(path))
    IN /\ disk' = r.d
       /\ node' = IF r.ret = "ok" THEN uncache(node, pwd, vfs_process_path(path)) ELSE node
       /\ mishap' = IF r.ret = "ok" /\ path.name = "."
                    THEN mishap \union {"removed itself"} ELSE mishap
       /\ UNCHANGED pwd

\* append: vfs_append.  It goes on when the name is that of a directory or of
\* nothing, with an inode number that is then not initialised.
Datum(n) == [u \in 1 .. n |-> Entry(0, IF u % 2 = 1 THEN "x" ELSE "y")]
vfs_append(d, name, n) ==
    LET child == get_inode_from_name(d, get_inode(d, Cwd), name)
        file == child # 0 /\ get_inode(d, child).mode = "reg"
    IN \E i \in IF child # 0 THEN {child} ELSE Inodes :
          /\ disk' = append_to_file(d, i, Datum(n))
          /\ mishap' = IF file \/ d.hung # "no" THEN mishap ELSE mishap \union {"wrote to no file"}
Append_(path, n) ==
    /\ vfs_append(disk, vfs_path_to_minix3_path(path), n)
    /\ UNCHANGED <<node, pwd>>

\* bmp2file: vfs_bmp_to_file, a touch and an append of the whole image.
BmpToFile(path, n) ==
    /\ vfs_append(touch_common(disk, Cwd, vfs_path_to_minix3_path(path), "reg").d,
                  vfs_path_to_minix3_path(path), n)
    /\ UNCHANGED <<node, pwd>>

\* minix3 avail zone | inode: a search that only moves on the search's start.
AvailZone == disk' = get_available_zone(disk).d /\ UNCHANGED <<node, pwd, mishap>>
AvailInode == disk' = get_available_inode(disk).d /\ UNCHANGED <<node, pwd, mishap>>

\* A command on a root that is no file system: "unsupported file system".
NoFileSystem == ~OnMinix3 /\ UNCHANGED <<disk, node, pwd, mishap>>

\* The console spins in a search for ever, or the model does not follow it.
Stopped == disk.hung # "no" \/ ~(mishap \subseteq Tolerated)
Spin == Stopped /\ UNCHANGED vars

Dots == {Path(".", FALSE), Path("..", FALSE)}
Command ==
    \/ \E path \in Typed \union Dots : Cd(path) \/ (OnMinix3 /\ Rmdir(path))
    \/ /\ OnMinix3
       /\ \E path \in Typed :
          \/ Touch(path) \/ Rm(path) \/ Mkdir(path)
          \/ \E n \in Lengths : Append_(path, n)
          \/ \E n \in Images : BmpToFile(path, n)
    \/ CdRoot
    \/ OnMinix3 /\ (AvailZone \/ AvailInode)
    \/ NoFileSystem

Next ==
    \/ /\ ~Stopped
       /\ Command
       /\ commands' = IF disk' = disk THEN commands ELSE commands + 1
       /\ commands' <= MaxCommands
    \/ Spin

Spec == Init /\ [][Next]_vars
----------------------------------------------------------------------------
(* Properties *)

Good == disk.hung = "no" /\ mishap = {}
IsDir(i) == disk.inode[i].mode = "dir"

\* Every place that holds a zone number, for the files there are: in an inode
\* or in a pointer zone.
PointerZones(f) ==
    LET top == {f.zones[k] : k \in MX3_IDZONE .. MX3_IIIDZONE} \ {0}
        D == f.zones[MX3_IIDZONE]
    IN top \union (IF D = 0 THEN {} ELSE Leaves(disk, D))
InodeRefs ==
    {<<i, k>> \in disk.imap \X (0 .. MX3_IIIDZONE) : disk.inode[i].zones[k] # 0}
ZoneRefs ==
    {<<z, j>> \in (UNION {PointerZones(disk.inode[i]) : i \in disk.imap}) \X (0 .. PPZ - 1) :
        disk.ptr[z][j] # 0}
Referenced ==
    {disk.inode[r[1]].zones[r[2]] : r \in InodeRefs} \union {disk.ptr[r[1]][r[2]] : r \in ZoneRefs}

\* The zone bitmap is exact: a zone is marked when a file's inode or one of its
\* pointer zones refers to it, no zone is referred to from two places, and rm
\* and rmdir give back every zone (minix3_append_zone, minix3_zone_walker,
\* minix3_clear_all_zones, minix3_clear_zone).
ZonesAccounted ==
    Good => /\ disk.zmap = Referenced
            /\ Cardinality(InodeRefs) + Cardinality(ZoneRefs) = Cardinality(Referenced)

\* The directories form a tree: an entry names a file there is, every file but
\* the root is named once, "." and ".." name the directory and its parent, and
\* nlinks counts the names of a directory (minix3_mkdir, minix3_rmdir).
TreeSound ==
    Good =>
      LET text == [i \in {k \in disk.imap : IsDir(k)} |-> read_whole_file(disk, disk.inode[i])]
          named == UNION {{<<p, u>> : u \in {v \in 3 .. Len(text[p]) : text[p][v].inode_num # 0}}
                           : p \in DOMAIN text}
          child(r) == text[r[1]][r[2]].inode_num
      IN /\ {child(r) : r \in named} = disk.imap \ {1}
         /\ Cardinality(named) = Cardinality(disk.imap) - 1
         /\ \A r \in named : IsDir(child(r)) =>
               SubSeq(text[child(r)], 1, 2) = <<Entry(child(r), "."), Entry(r[1], "..")>>
         /\ \A i \in disk.imap : disk.inode[i].nlinks =
               IF IsDir(i) THEN 2 + Cardinality({r \in named : r[1] = i /\ IsDir(child(r))})
                           ELSE 1

\* ls, the search for a name and reading the directory as a file agree on what
\* is in it, over direct and indirect zones and removed entries.
ReadersAgree ==
    Good => \A i \in {k \in disk.imap : IsDir(k)} :
      LET f == disk.inode[i]
          live == SelectSeq(read_whole_file(disk, f), LAMBDA e : e.inode_num # 0)
      IN /\ ls(disk, f) = live
         /\ \A k \in DOMAIN live : get_inode_from_name(disk, f, live[k].name) = live[k].inode_num

\* A cached directory is on the disk, under its name, in the directory its
\* parent stands for.
CacheAgrees ==
    \A n \in DOMAIN node \ {Root} :
      LET up == node[node[n].parent].inode_num
      IN /\ node[n].inode_num \in disk.imap /\ up \in disk.imap
         /\ get_inode_from_name(disk, disk.inode[up], node[n].path.name) = node[n].inode_num

\* The cached tree does not lie (vfs_mkdir, vfs_rmdir, vfs_cd).
CacheFollowsDisk == Good => CacheAgrees

\* A search for a zone or an inode goes on for ever only when there is none
\* left ("full file system", the comment in minix3_get_available_zone).
HangsOnlyWhenFull ==
    /\ disk.hung = "zone" => \A z \in Zones : ~ZoneFree(disk, z)
    /\ disk.hung = "inode" => \A i \in Inodes : ~InodeFree(disk, i)

\* touch, rm, mkdir, rmdir, append and bmp2file implement the abstract file
\* system: what is appended is read back in order, whatever else is created,
\* grown and removed, and a zone that is given to another file takes nothing
\* along.
Abstract == INSTANCE FileSpec WITH
    Names <- {p.name : p \in Typed} \ {".", ".."},
    Lengths <- Lengths \union Images,
    ok <- Good,
    content <- IF Good THEN [i \in disk.imap |-> read_whole_file(disk, disk.inode[i])] ELSE <<>>,
    kind <- IF Good THEN [i \in disk.imap |-> disk.inode[i].mode] ELSE <<>>
ImplementsFileSpec == Abstract!Spec
=============================================================================

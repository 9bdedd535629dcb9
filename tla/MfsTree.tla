------------------------------- MODULE MfsTree -------------------------------
(***************************************************************************)
(* link, unlink, rmdir and rename of the file server MFS (mfs/link.c) on   *)
(* the directories of one volume.  MFS has one thread and answers one      *)
(* request at a time, so a handler is one step.                            *)
(*                                                                         *)
(* The volume is the root volume and is written to; names are not longer   *)
(* than MFS_NAME_MAX.  Whether the disk is full is chosen at each call.    *)
(* How an inode is got and put is left out: an inode is freed when it has  *)
(* no links and VFS does not hold it.                                      *)
(***************************************************************************)
EXTENDS Integers, FiniteSets

CONSTANTS
    Inodes, ROOT_INODE, NO_INODE,
    Names, dot1, dot2,  \* names of files, and "." and ".."
    LINK_MAX

AllNames == Names \cup {dot1, dot2}

ASSUME TreeAssumption ==
    /\ IsFiniteSet(Inodes) /\ IsFiniteSet(Names)
    /\ ROOT_INODE \in Inodes /\ NO_INODE \notin Inodes
    /\ dot1 \notin Names /\ dot2 \notin Names /\ dot1 # dot2
    /\ LINK_MAX \in Nat /\ LINK_MAX > 2

VARIABLES
    type,       \* type[i]: "dir", "file", or "free"
    entry,      \* entry[d][n]: the inode that n names in directory d
    i_nlinks,
    held,       \* inodes VFS holds: open files, working directories
    mounted,    \* i_mountpoint: directories another volume is mounted on
    r,          \* the answer to the last request
    dirlinks    \* history: the superuser gave a directory a second name

vars == <<type, entry, i_nlinks, held, mounted, r, dirlinks>>

NoEntries == [n \in AllNames |-> NO_INODE]

Init ==
    /\ type = [i \in Inodes |-> IF i = ROOT_INODE THEN "dir" ELSE "free"]
    /\ entry = [i \in Inodes |->
                  IF i # ROOT_INODE THEN NoEntries
                  ELSE [NoEntries EXCEPT ![dot1] = ROOT_INODE, ![dot2] = ROOT_INODE]]
    /\ i_nlinks = [i \in Inodes |-> IF i = ROOT_INODE THEN 2 ELSE 0]
    /\ held = {ROOT_INODE} /\ mounted = {}
    /\ r = "OK" /\ dirlinks = FALSE

-----------------------------------------------------------------------------
\* Mutants: a mount point is like any directory; so is one without links.
NeverMounted(i) == FALSE
AlwaysExists(d) == TRUE

\* advance comes to a mount point (EENTERMOUNT).
EntersMount(i) == i \in mounted

\* A directory that was removed but is still someone's working directory does
\* not actually exist.
Exists(d) == i_nlinks[d] # 0

\* A handler works on the entries and link counts of the volume.
Volume == [entry |-> entry, nlinks |-> i_nlinks]

Entries(v, d) == {n \in AllNames : v.entry[d][n] # NO_INODE}

\* A full disk has room only in a directory that lost an entry in this call.
Room(v, d, full) ==
    full => Cardinality(Entries(v, d)) < Cardinality(Entries(Volume, d))

\* search_dir with ENTER and with DELETE: the entry alone.
Enter(v, d, n, i) == [v EXCEPT !.entry[d][n] = i]
Delete(v, d, n) == [v EXCEPT !.entry[d][n] = NO_INODE]

\* search_dir with IS_EMPTY.
IsEmpty(d) == Entries(Volume, d) \subseteq {dot1, dot2}

unlink_file(v, d, n) ==
    IF v.entry[d][n] = NO_INODE THEN v
    ELSE [Delete(v, d, n) EXCEPT !.nlinks[v.entry[d][n]] = @ - 1]

\* Mutant: ".." is left in the directory and its link with the parent.
RemoveButParent(v, d, n) == unlink_file(unlink_file(v, d, n), v.entry[d][n], dot1)

remove_dir(v, d, n) ==
    LET x == v.entry[d][n]
    IN  unlink_file(unlink_file(unlink_file(v, d, n), x, dot1), x, dot2)

\* The conditions of remove_dir on directory x named n.
Removable(x, n) ==
    type[x] = "dir" /\ IsEmpty(x) /\ n \notin {dot1, dot2} /\ x # ROOT_INODE

-----------------------------------------------------------------------------
\* put_inode frees an inode that nobody holds and nothing links to.
Settle(v, holders) ==
    LET gone == {i \in Inodes : v.nlinks[i] = 0 /\ i \notin holders}
    IN  /\ type' = [i \in Inodes |-> IF i \in gone THEN "free" ELSE type[i]]
        /\ entry' = [i \in Inodes |-> IF i \in gone THEN NoEntries ELSE v.entry[i]]
        /\ i_nlinks' = v.nlinks
        /\ held' = holders

Fail == r' = "error" /\ UNCHANGED <<type, entry, i_nlinks, held, mounted, dirlinks>>

Succeed(v) == r' = "OK" /\ Settle(v, held) /\ UNCHANGED mounted

\* link: rip, which VFS found by a name, gets the name n in directory d.  That
\* the superuser links "." or ".." into a directory that has lost them by a
\* rmdir of its other name is left out.
fs_link(rip, d, n, su, full) ==
    LET permitted == /\ i_nlinks[rip] < LINK_MAX
                     /\ type[rip] # "dir" \/ su
                     /\ Exists(d)
                     /\ entry[d][n] = NO_INODE
                     /\ Room(Volume, d, full)
    IN  /\ type[d] = "dir" /\ i_nlinks[rip] > 0 /\ (n \in Names \/ entry[d][n] # NO_INODE)
        /\ IF permitted
           THEN /\ Succeed([Enter(Volume, d, n, rip) EXCEPT !.nlinks[rip] = @ + 1])
                /\ dirlinks' = (dirlinks \/ type[rip] = "dir")
           ELSE Fail

\* unlink and rmdir: request is REQ_UNLINK or REQ_RMDIR.
fs_unlink(d, n, request) ==
    LET rip == entry[d][n]
        found == rip # NO_INODE /\ ~EntersMount(rip)
    IN  /\ type[d] = "dir"
        /\ CASE found /\ request = "REQ_UNLINK" /\ type[rip] # "dir" ->
                  Succeed(unlink_file(Volume, d, n)) /\ UNCHANGED dirlinks
             [] found /\ request = "REQ_RMDIR" /\ Removable(rip, n) ->
                  Succeed(remove_dir(Volume, d, n)) /\ UNCHANGED dirlinks
             [] OTHER -> Fail

-----------------------------------------------------------------------------
\* The directory k steps above d, or NO_INODE when a ".." is missing; the
\* root is above itself.
Above(d) == LET up[k \in 0 .. Cardinality(Inodes)] ==
                  IF k = 0 THEN d
                  ELSE IF up[k - 1] = NO_INODE THEN NO_INODE
                  ELSE entry[up[k - 1]][dot2]
            IN  up

\* Mutant: only the new directory and its parent are looked at.
TwoAreChecked(x, d) == x \in {d, entry[d][dot2]}

\* The loop of rename: x is d or above it, or ".." is missing on the way.
Superdirectory(x, d) ==
    \E k \in DOMAIN Above(d) : Above(d)[k] \in {x, NO_INODE}

\* What rename decides before it writes.
RenameCheck(od, on, nd, nn) ==
    LET old == entry[od][on]
        new == entry[nd][nn]
        odir == type[old] = "dir"
        misplaced == \/ odir /\ od # nd /\ Superdirectory(old, nd)
                     \/ {on, nn} \cap {dot1, dot2} # {}
        replaceable == IF odir THEN Removable(new, nn) ELSE type[new] # "dir"
        full == odir /\ od # nd /\ i_nlinks[nd] >= LINK_MAX
    IN  IF old = NO_INODE \/ EntersMount(old) \/ ~Exists(nd) \/ EntersMount(new) THEN "error"
        ELSE IF old = new THEN "SAME"
        ELSE IF misplaced \/ (IF new = NO_INODE THEN full ELSE ~replaceable) THEN "error"
        ELSE "OK"

\* The name that is there is removed.
Replaced(v, d, n, odir) == IF v.entry[d][n] = NO_INODE THEN v
                           ELSE IF odir THEN remove_dir(v, d, n)
                           ELSE unlink_file(v, d, n)

\* ".." of x, which moved to directory d.
Reparented(v, x, d, full) ==
    LET w == unlink_file(v, x, dot2)
    IN  IF Room(w, x, full) THEN [Enter(w, x, dot2, d) EXCEPT !.nlinks[d] = @ + 1]
        ELSE w

\* Mutant: the entry of the replaced file is not free for the new name.
MoveToNewEntry(old, od, on, nd, nn, full) ==
    LET odir == type[old] = "dir"
        v == Replaced(Volume, nd, nn, odir)
        moved == Enter(Delete(v, od, on), nd, nn, old)
    IN  /\ IF od = nd \/ ~full
           THEN Succeed(IF odir /\ od # nd THEN Reparented(moved, old, nd, full) ELSE moved)
           ELSE r' = "error" /\ Settle(v, held) /\ UNCHANGED mounted
        /\ UNCHANGED dirlinks

\* The writes of rename.  In one directory the old name goes first, to make
\* room for the new one; between two the new name is entered first.
Move(old, od, on, nd, nn, full) ==
    LET odir == type[old] = "dir"
        v == Replaced(Volume, nd, nn, odir)
        moved == Enter(Delete(v, od, on), nd, nn, old)
    IN  /\ IF od = nd \/ Room(v, nd, full)
           THEN Succeed(IF odir /\ od # nd THEN Reparented(moved, old, nd, full) ELSE moved)
           ELSE r' = "error" /\ Settle(v, held) /\ UNCHANGED mounted
        /\ UNCHANGED dirlinks

fs_rename(od, on, nd, nn) ==
    LET check == RenameCheck(od, on, nd, nn)
    IN  /\ type[od] = "dir" /\ type[nd] = "dir"
        /\ \/ /\ check = "OK"
              /\ \E full \in BOOLEAN : Move(entry[od][on], od, on, nd, nn, full)
           \/ check = "SAME" /\ Succeed(Volume) /\ UNCHANGED dirlinks
           \/ check = "error" /\ Fail

-----------------------------------------------------------------------------
\* Requests of other files of MFS: creating, mounting, and the inodes VFS holds.
fs_create(d, n, i) ==
    /\ type[d] = "dir" /\ Exists(d) /\ n \in Names /\ entry[d][n] = NO_INODE
    /\ type[i] = "free"
    /\ type' = [type EXCEPT ![i] = "file"]
    /\ entry' = [entry EXCEPT ![d][n] = i]
    /\ i_nlinks' = [i_nlinks EXCEPT ![i] = 1]
    /\ r' = "OK" /\ UNCHANGED <<held, mounted, dirlinks>>

fs_mkdir(d, n, i) ==
    /\ type[d] = "dir" /\ i_nlinks[d] \in 1 .. LINK_MAX - 1
    /\ n \in Names /\ entry[d][n] = NO_INODE /\ type[i] = "free"
    /\ type' = [type EXCEPT ![i] = "dir"]
    /\ entry' = [entry EXCEPT ![d][n] = i,
                   ![i] = [NoEntries EXCEPT ![dot1] = i, ![dot2] = d]]
    /\ i_nlinks' = [i_nlinks EXCEPT ![d] = @ + 1, ![i] = 2]
    /\ r' = "OK" /\ UNCHANGED <<held, mounted, dirlinks>>

fs_lookup(i) ==
    /\ i_nlinks[i] > 0 /\ i \notin held
    /\ held' = held \cup {i}
    /\ r' = "OK" /\ UNCHANGED <<type, entry, i_nlinks, mounted, dirlinks>>

fs_putnode(i) == /\ i \in held \ (mounted \cup {ROOT_INODE})
                 /\ Settle(Volume, held \ {i})
                 /\ r' = "OK" /\ UNCHANGED <<mounted, dirlinks>>

fs_mountpoint(i) ==
    /\ i \in held \ (mounted \cup {ROOT_INODE})
    /\ type[i] = "dir" /\ i_nlinks[i] > 0
    /\ mounted' = mounted \cup {i}
    /\ r' = "OK" /\ UNCHANGED <<type, entry, i_nlinks, held, dirlinks>>

unmount(i) == /\ i \in mounted
              /\ mounted' = mounted \ {i}
              /\ r' = "OK" /\ UNCHANGED <<type, entry, i_nlinks, held, dirlinks>>

Next ==
    \/ \E i \in Inodes : fs_lookup(i) \/ fs_putnode(i) \/ fs_mountpoint(i) \/ unmount(i)
    \/ \E d \in Inodes, n \in AllNames :
          \/ \E i \in Inodes : fs_create(d, n, i) \/ fs_mkdir(d, n, i)
          \/ \E rip \in Inodes, su, full \in BOOLEAN : fs_link(rip, d, n, su, full)
          \/ \E request \in {"REQ_UNLINK", "REQ_RMDIR"} : fs_unlink(d, n, request)
          \/ \E e \in Inodes, m \in AllNames : fs_rename(d, n, e, m)

Spec == Init /\ [][Next]_vars

-----------------------------------------------------------------------------
LinksIn(e, i) == {p \in Inodes \X AllNames : e[p[1]][p[2]] = i}

Links(i) == LinksIn(entry, i)

NamesOf(i) == {p \in Inodes \X Names : entry[p[1]][p[2]] = i}

\* The link count of an inode is the number of entries that name it, "." and
\* ".." among them, on every path through link, unlink, rmdir and rename and
\* whatever the superuser links: no inode is freed while an entry names it,
\* and none is kept for nothing.
LinkCounts == \A i \in Inodes : i_nlinks[i] = Cardinality(Links(i))

\* The directories are a tree: but for the root each has one name, in the
\* directory its ".." names, and the root is above all.  Second names given by
\* the superuser break that, and rmdir of one takes the ".." away, but the way
\* up ends all the same, so that the loop in rename does not hang.
TreeShape ==
    \A d \in Inodes : type[d] = "dir" /\ i_nlinks[d] > 0 =>
      /\ Above(d)[Cardinality(Inodes)] \in {ROOT_INODE, NO_INODE}
      /\ dirlinks \/ /\ Above(d)[Cardinality(Inodes)] = ROOT_INODE
                     /\ entry[d][dot1] = d
                     /\ d = ROOT_INODE \/ \E n \in Names :
                                            NamesOf(d) = {<<entry[d][dot2], n>>}

\* A directory that lost its last name is empty and stays so as long as
\* someone works in it, so that nothing is lost when it is freed.
RemovedStayEmpty == \A d \in Inodes :
    i_nlinks[d] = 0 => Entries(Volume, d) = {}

\* A call that fails has changed nothing: above all, rename does not remove the
\* file it was to replace and then find no room for the new name.
FailuresChangeNothing == [][
    r' = "error" => UNCHANGED <<type, entry, i_nlinks, held, mounted>>]_vars

\* A directory that a volume is mounted on keeps its names, however links and
\* renames try to move it or to put another in its place.
MountPointsStay == [][\A m \in mounted \cap mounted' :
                        NamesOf(m) \subseteq NamesOf(m)']_vars

-----------------------------------------------------------------------------
\* The inductive invariant, TreeInv of all but TreeShape.
TypeOK == /\ type \in [Inodes -> {"dir", "file", "free"}]
          /\ entry \in [Inodes -> [AllNames -> Inodes \cup {NO_INODE}]]
          /\ i_nlinks \in [Inodes -> Nat]
          /\ mounted \subseteq held /\ held \subseteq Inodes /\ ROOT_INODE \in held

Named(e, d) == \E p \in Inodes, n \in Names : e[p][n] = d

\* Only directories have entries; "." is the directory itself.
Dotted(e, t) ==
    /\ \A d \in Inodes : t[d] # "dir" => e[d] = NoEntries
    /\ \A d \in Inodes : e[d][dot1] \in {d, NO_INODE}
    /\ t[ROOT_INODE] = "dir" /\ e[ROOT_INODE][dot1] = ROOT_INODE

\* A directory with entries has a name, and the one that ".." names has a name
\* for the directory, second names given by the superuser or not.
Reached(e) ==
    /\ \A d \in Inodes \ {ROOT_INODE} : e[d] # NoEntries => Named(e, d)
    /\ \A d, p \in Inodes : e[d][dot2] = p =>
         (d = ROOT_INODE /\ p = ROOT_INODE) \/ \E n \in Names : e[p][n] = d

\* An inode is free when it has no links and VFS does not hold it.
FreeOnes == \A i \in Inodes : type[i] = "free" <=> i_nlinks[i] = 0 /\ i \notin held

TreeInv == TypeOK /\ LinkCounts /\ Dotted(entry, type) /\ Reached(entry) /\ FreeOnes

\* No directories lie above each other: among any of them is one whose parent is
\* not.  The root is its own.
Upward(e) ==
    /\ e[ROOT_INODE][dot2] = ROOT_INODE
    /\ \A S \in SUBSET (Inodes \ {ROOT_INODE}) : S # {} => \E d \in S : e[d][dot2] \notin S

\* A directory has one name, in the directory that its ".." names.
OneName(e, t) ==
    \A d, p \in Inodes, n \in Names : t[d] = "dir" /\ e[p][n] = d =>
        /\ d # ROOT_INODE /\ e[d][dot1] = d /\ e[d][dot2] = p
        /\ \A m \in Names : e[p][m] = d => m = n

DirInv == TreeInv /\ Upward(entry) /\ (dirlinks \/ OneName(entry, type))
=============================================================================

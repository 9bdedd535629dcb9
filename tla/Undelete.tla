------------------------------- MODULE Undelete -------------------------------
(***************************************************************************)
(* Undeleting files (Project3): the tool testp3.c, run by several users,   *)
(* and what the root file system's MFS remembers for it (mfs/new.c).  The  *)
(* tool deletes a file by moving it to /tmp, under a name made of the      *)
(* file's name and of two inode numbers, and undeletes it by moving it     *)
(* back or by removing it, as MFS answers.  A system call, a mv and a rm   *)
(* are each one step; between them other users' tools run.                 *)
(*                                                                         *)
(* VFS sends all requests to the MFS of the root volume, on which /tmp is  *)
(* too; directories may be on another volume, "home", with inode numbers   *)
(* of its own.  A directory stands for its inode number; no directory is   *)
(* removed, and MFS's table of inodes in memory does not fill up.          *)
(***************************************************************************)
EXTENDS Integers, FiniteSets, Sequences

CONSTANTS
    Dirs, Names, Files, Users, NONE,
    RootDirs,   \* the directories on the root volume
    Prefix,     \* <<c, d>>: the digits of c begin those of d
    Inodes,     \* inode numbers of files, on either volume
    ENTRIES     \* the places of rcdirs and of rcnodes, 100 in the code

ASSUME UndeleteAssumption ==
    /\ RootDirs \subseteq Dirs
    /\ Prefix \subseteq Dirs \X Dirs /\ \A d \in Dirs : <<d, d>> \in Prefix
    /\ Inodes \subseteq Nat \ {0}
    /\ ENTRIES \in Nat \ {0}
    /\ NONE \notin Files

VARIABLES
    made,       \* directories that exist
    entry,      \* entry[d][n]: the file n of directory d
    saved,      \* saved[n, d, i]: the file /tmp/n.d.i
    inode,      \* the number of each file on its volume; 0 when it is gone
    rcdirs,     \* MFS: directories made by rcmkdir
    rcnodes,    \* MFS: records of deleted files, the oldest first
    kept, ghosts, \* MFS: numbers got with links, without, and never put
    tool,       \* where each user's tool is, and with what
    fault,      \* rcdirs or rcnodes was written past its end
    unrecorded  \* history: deletions that MFS did not record

disk == <<made, entry, saved, inode>>
mfs == <<rcdirs, rcnodes, kept, ghosts, fault>>
vars == <<disk, mfs, tool, unrecorded>>

Key == Names \X Dirs \X Inodes
AtMenu == [step |-> "menu", dir |-> NONE, name |-> NONE, node |-> 0]

Init == /\ made = {}
        /\ entry = [d \in Dirs |-> [n \in Names |-> NONE]]
        /\ saved = [k \in Key |-> NONE]
        /\ inode = [f \in Files |-> 0]
        /\ rcdirs = {} /\ rcnodes = <<>>
        /\ kept = {} /\ ghosts = {}
        /\ tool = [u \in Users |-> AtMenu]
        /\ fault = FALSE /\ unrecorded = {}

-----------------------------------------------------------------------------
VolumeOf(d) == IF d \in RootDirs THEN "root" ELSE "home"

FilesOn(volume) ==
    {entry[d][n] : d \in {d \in Dirs : VolumeOf(d) = volume}, n \in Names}
      \cup (IF volume = "root" THEN {saved[k] : k \in Key} ELSE {})

Used(volume) == {inode[f] : f \in FilesOn(volume) \ {NONE}}

\* The numbers a new file may get.  MFS frees the number of a file without
\* links when the last one who got its inode puts it, and kept never do.
Fresh(volume) == Inodes \ (Used(volume) \cup IF volume = "root" THEN kept ELSE {})

\* The numbers file f may have after a mv that replaces old: between volumes
\* it is copied, over the old file or to a new one.
Numbers(f, old, from, to) ==
    IF from = to THEN {inode[g] : g \in {f} \ {NONE}}
    ELSE Fresh(to) \cup {inode[o] : o \in {old} \ {NONE}}

Renumber(f, i, old) ==
    inode' = [g \in Files |-> IF g = f THEN i ELSE IF g = old THEN 0 ELSE inode[g]]

\* mv fails when there is no such file, and when the volume is full.
MvFails == UNCHANGED disk

Goto(u, step, d, n, node) ==
    tool' = [tool EXCEPT ![u] = [step |-> step, dir |-> d, name |-> n, node |-> node]]

Done(u) == tool' = [tool EXCEPT ![u] = AtMenu]

-----------------------------------------------------------------------------
\* Any program makes a directory, or a file.
Mkdir(d) == /\ d \notin made
            /\ made' = made \cup {d}
            /\ UNCHANGED <<entry, saved, inode, mfs, tool, unrecorded>>

Create(d, n) ==
    /\ d \in made /\ entry[d][n] = NONE
    /\ \E f \in Files, i \in Fresh(VolumeOf(d)) :
          /\ inode[f] = 0
          /\ entry' = [entry EXCEPT ![d][n] = f]
          /\ inode' = [inode EXCEPT ![f] = i]
    /\ UNCHANGED <<made, saved, mfs, tool, unrecorded>>

-----------------------------------------------------------------------------
\* Choice 5: mkdir, which fails when the directory is there; then the call.
rcmkdir(u, d) ==
    /\ tool[u].step = "menu" /\ d \notin made
    /\ made' = made \cup {d}
    /\ Goto(u, "rcmkdir", d, NONE, 0)
    /\ UNCHANGED <<entry, saved, inode, mfs, unrecorded>>

fs_rcmkdir(d) ==
    /\ IF d \in rcdirs \/ Cardinality(rcdirs) < ENTRIES
       THEN rcdirs' = rcdirs \cup {d} /\ UNCHANGED fault
       ELSE fault' = TRUE /\ UNCHANGED rcdirs
    /\ UNCHANGED <<rcnodes, kept, ghosts>>

\* VFS passes a request on, or finds no way to the volume.
VfsFails == UNCHANGED mfs

do_rcmkdir(u) ==
    /\ tool[u].step = "rcmkdir"
    /\ fs_rcmkdir(tool[u].dir) \/ VfsFails
    /\ Done(u)
    /\ UNCHANGED <<disk, unrecorded>>

\* Choice 3 begins: the inode numbers of the directory and of the file.
damageInode(u, d, n) ==
    /\ tool[u].step = "menu" /\ d \in made /\ entry[d][n] # NONE
    /\ Goto(u, "damage", d, n, inode[entry[d][n]])
    /\ UNCHANGED <<disk, mfs, unrecorded>>

\* A record in the place behind the last one, which may be none of the array.
Record(d, n, i) ==
    IF Len(rcnodes) < ENTRIES
    THEN /\ rcnodes' = Append(rcnodes, [pinode |-> d, finode |-> i, fname |-> n])
         /\ UNCHANGED fault
    ELSE fault' = TRUE /\ UNCHANGED rcnodes

\* Mutant: a name that is recorded already is not recorded again.
DamageOnce(d, n, i) ==
    /\ IF d \notin rcdirs \/ \E k \in DOMAIN rcnodes :
                                rcnodes[k].pinode = d /\ rcnodes[k].fname = n
       THEN UNCHANGED <<rcnodes, fault>>
       ELSE Record(d, n, i)
    /\ UNCHANGED <<rcdirs, kept, ghosts>>

fs_damageinode(d, n, i) ==
    /\ IF d \notin rcdirs THEN UNCHANGED <<rcnodes, fault>> ELSE Record(d, n, i)
    /\ UNCHANGED <<rcdirs, kept, ghosts>>

\* The tool does not look at the answer.
do_damageinode(u) ==
    LET t == tool[u]
        key == <<t.name, t.dir, t.node>>
    IN  /\ t.step = "damage"
        /\ \/ /\ fs_damageinode(t.dir, t.name, t.node)
              /\ unrecorded' = IF t.dir \in rcdirs /\ ~fault'
                               THEN unrecorded \ {key} ELSE unrecorded \cup {key}
           \/ VfsFails /\ unrecorded' = unrecorded \cup {key}
        /\ Goto(u, "mv", t.dir, t.name, t.node)
        /\ UNCHANGED disk

\* ... and ends: mv moves the file that has the name now.
MvToTmp(u) ==
    LET t == tool[u]
        key == <<t.name, t.dir, t.node>>
        f == entry[t.dir][t.name]
        numbers == Numbers(f, saved[key], VolumeOf(t.dir), "root")
    IN  /\ t.step = "mv"
        /\ \/ f # NONE /\ \E i \in numbers :
                 /\ entry' = [entry EXCEPT ![t.dir][t.name] = NONE]
                 /\ saved' = [saved EXCEPT ![key] = f]
                 /\ Renumber(f, i, saved[key])
                 /\ UNCHANGED made
           \/ (f = NONE \/ numbers = {}) /\ MvFails
        /\ Done(u)
        /\ UNCHANGED <<mfs, unrecorded>>

-----------------------------------------------------------------------------
Recorded(d, n) == {k \in DOMAIN rcnodes : rcnodes[k].pinode = d /\ rcnodes[k].fname = n}

\* Mutant: the search goes on to the last record.
LastRecord(d, n) == rcnodes[CHOOSE k \in Recorded(d, n) :
                              \A l \in Recorded(d, n) : l <= k].finode

\* The number of the first record of file n of directory d.
FoundNode(d, n) == rcnodes[CHOOSE k \in Recorded(d, n) :
                             \A l \in Recorded(d, n) : k <= l].finode

\* What get_inode may say of the links of inode i of the root volume: a ghost
\* is an inode in memory from the time when the number was free.
LinksSeen(i) == {IF i \in Used("root") THEN 1 ELSE 0}
                  \cup (IF i \in ghosts THEN {0} ELSE {})

\* The inode is got to look at its links, and never put.
fs_restoreinode(d, n, answer) ==
    /\ IF d \notin rcdirs \/ Recorded(d, n) = {}
       THEN answer = -1 /\ UNCHANGED <<kept, ghosts>>
       ELSE LET i == FoundNode(d, n)
            IN  \E links \in LinksSeen(i) :
                   /\ answer = IF links = 0 THEN i ELSE 0
                   /\ kept' = IF links = 0 THEN kept ELSE kept \cup {i}
                   /\ ghosts' = IF links = 0 THEN ghosts \cup {i} ELSE ghosts
    /\ UNCHANGED <<rcdirs, rcnodes, fault>>

\* Choice 4 begins: the answer for the path.
restoreInode(u, d, n) ==
    /\ tool[u].step = "menu" /\ d \in made
    /\ \E answer \in Inodes \cup {0, -1} :
          /\ \/ fs_restoreinode(d, n, answer)
             \/ answer = -1 /\ VfsFails
          /\ Goto(u, "restore", d, n, answer)
    /\ UNCHANGED <<disk, unrecorded>>

\* Mutant: rm /tmp/n*
RemovedByName(n, d) == {k \in Key : k[1] = n}

\* rm /tmp/n.d*
Removed(n, d) == {k \in Key : k[1] = n /\ <<d, k[2]>> \in Prefix}

\* ... and ends, by the answer: mv back, rm, or nothing.
MvBack(u) ==
    LET t == tool[u]
        key == <<t.name, t.dir, t.node>>
        f == saved[key]
        old == entry[t.dir][t.name]
        numbers == Numbers(f, old, "root", VolumeOf(t.dir))
    IN  /\ t.step = "restore" /\ t.node > 0
        /\ \/ f # NONE /\ \E i \in numbers :
                 /\ entry' = [entry EXCEPT ![t.dir][t.name] = f]
                 /\ saved' = [saved EXCEPT ![key] = NONE]
                 /\ Renumber(f, i, old)
                 /\ UNCHANGED made
           \/ (f = NONE \/ numbers = {}) /\ MvFails
        /\ Done(u)
        /\ UNCHANGED <<mfs, unrecorded>>

RmSaved(u) ==
    LET t == tool[u]
        gone == Removed(t.name, t.dir)
    IN  /\ t.step = "restore" /\ t.node = 0
        /\ saved' = [k \in Key |-> IF k \in gone THEN NONE ELSE saved[k]]
        /\ inode' = [f \in Files |->
                       IF \E k \in gone : saved[k] = f THEN 0 ELSE inode[f]]
        /\ Done(u)
        /\ UNCHANGED <<made, entry, mfs, unrecorded>>

NotRestored(u) == /\ tool[u].step = "restore" /\ tool[u].node < 0
                  /\ Done(u)
                  /\ UNCHANGED <<disk, mfs, unrecorded>>

Step ==
    \/ \E d \in Dirs : Mkdir(d) \/ \E n \in Names : Create(d, n)
    \/ \E u \in Users :
          \/ do_rcmkdir(u) \/ do_damageinode(u) \/ MvToTmp(u)
          \/ MvBack(u) \/ RmSaved(u) \/ NotRestored(u)
          \/ \E d \in Dirs : \/ rcmkdir(u, d)
                             \/ \E n \in Names : damageInode(u, d, n)
                                                 \/ restoreInode(u, d, n)

Next == \/ ~fault /\ Step
        \/ fault /\ UNCHANGED vars

Spec == Init /\ [][Next]_vars

-----------------------------------------------------------------------------
\* The file of k, a member of Key, has a record; it has the first of its name.
RecordOf(k) == [pinode |-> k[2], finode |-> k[3], fname |-> k[1]]

HasRecord(nodes, k) == \E r \in DOMAIN nodes : nodes[r] = RecordOf(k)

HasFirstRecord(nodes, k) == \E r \in DOMAIN nodes :
    /\ nodes[r] = RecordOf(k)
    /\ \A q \in 1 .. r - 1 : nodes[q].pinode # k[2] \/ nodes[q].fname # k[1]

\* A file that is in /tmp has its record, unless its directory was not known
\* or VFS failed: whatever other tools do between the call and the mv, no file
\* is moved away under a number that MFS was not told.
SavedIsRecorded == \A k \in Key :
    saved[k] # NONE => k \in unrecorded \/ HasRecord(rcnodes, k)

Undeleting(u, k) == /\ tool[u].step = "restore"
                    /\ <<tool[u].dir, k[2]>> \in Prefix /\ tool[u].name = k[1]

\* The file that a tool at t has asked or told MFS about.
KeyOf(t) == <<t.name, t.dir, t.node>>

Replacing(u, k) == tool[u].step = "mv" /\ KeyOf(tool[u]) = k

LeavesIfAsked(k) == saved[k] # NONE /\ saved'[k] # saved[k] =>
    \E u \in Users : tool'[u] = AtMenu /\ (Undeleting(u, k) \/ Replacing(u, k))

\* A file leaves /tmp, or gives way to another there, only by an undelete of
\* its name in a directory whose number begins its own, or by a deletion of a
\* file of the same name, directory and number.
SavedUntilAsked == [][\A k \in Key : LeavesIfAsked(k)]_vars

ComesBackIfFirst(k) ==
    saved[k] # NONE /\ entry'[k[2]][k[1]] = saved[k] => HasFirstRecord(rcnodes, k)

\* Only the file that was deleted first under its name comes back: records
\* are never dropped, and the first one of a name answers for all, however
\* many files of that name are deleted between the answer and the mv.
FirstComesBack == [][\A k \in Key : ComesBackIfFirst(k)]_vars

-----------------------------------------------------------------------------
\* The inductive invariant.  The disk: a file is in one place, and then it has
\* a number.
DiskTypeOK == /\ made \subseteq Dirs
              /\ entry \in [Dirs -> [Names -> Files \cup {NONE}]]
              /\ saved \in [Key -> Files \cup {NONE}]
              /\ inode \in [Files -> Inodes \cup {0}]

InOnePlace ==
    /\ \A d, e \in Dirs, m, n \in Names :
          entry[d][m] = entry[e][n] /\ entry[d][m] # NONE => d = e /\ m = n
    /\ \A k, l \in Key : saved[k] = saved[l] /\ saved[k] # NONE => k = l
    /\ \A k \in Key, d \in Dirs, n \in Names : entry[d][n] = saved[k] => saved[k] = NONE

Numbered ==
    /\ \A d \in Dirs, n \in Names : entry[d][n] # NONE => inode[entry[d][n]] \in Inodes
    /\ \A k \in Key : saved[k] # NONE => inode[saved[k]] \in Inodes

DiskInv == DiskTypeOK /\ InOnePlace /\ Numbered

\* The tools: what each remembers at its step.
ToolState ==
    {AtMenu}
      \cup [step : {"rcmkdir"}, dir : Dirs, name : {NONE}, node : {0}]
      \cup [step : {"damage", "mv"}, dir : Dirs, name : Names, node : Inodes]
      \cup [step : {"restore"}, dir : Dirs, name : Names, node : Inodes \cup {0, -1}]

ToolInv == tool \in [Users -> ToolState]

\* The records: a tool that is about to move a file has told MFS of it, and an
\* answer is that of the first record of its name.
ToldBefore == \A u \in Users :
    tool[u].step = "mv" => KeyOf(tool[u]) \in unrecorded \/ HasRecord(rcnodes, KeyOf(tool[u]))

AnswersFirst == \A u \in Users :
    tool[u].step = "restore" /\ tool[u].node > 0 => HasFirstRecord(rcnodes, KeyOf(tool[u]))

RecordInv == /\ rcnodes \in Seq([pinode : Dirs, finode : Inodes, fname : Names])
             /\ SavedIsRecorded /\ ToldBefore /\ AnswersFirst

UndeleteInv == DiskInv /\ ToolInv /\ RecordInv

-----------------------------------------------------------------------------
\* The tool's menu: "4 undelete a file".  Undeleting a file that was deleted
\* does not remove it.
UndeleteKeepsFile == [][\A u \in Users, f \in Files :
    /\ tool[u].step = "restore" /\ tool'[u] = AtMenu
    /\ \E i \in Inodes : saved[<<tool[u].name, tool[u].dir, i>>] = f
    => inode'[f] # 0]_vars
=============================================================================

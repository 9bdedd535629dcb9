------------------------------ MODULE VfsLocks ------------------------------
(***************************************************************************)
(* The calls of vfs/link.c and vfs/new.c: the locks they take on volumes   *)
(* (vmnt) and files (vnode), the references and grants they hold, and the  *)
(* requests they make of the file servers.  VFS runs one thread per call;  *)
(* a thread gives way only where it waits for a lock or for a file server, *)
(* and those waits are the steps here.                                     *)
(*                                                                         *)
(* The path lookup (eat_path, last_dir, advance) and the locks themselves  *)
(* are outside the sources.  They are modelled from their use: a lookup    *)
(* locks the volume, walks the path, then locks the vnode, as asked for in *)
(* l_vmnt_lock and l_vnode_lock; what the thread has locked before is not  *)
(* locked again, and the caller's pointer to it stays NULL; a lookup that  *)
(* fails leaves nothing locked.                                            *)
(*                                                                         *)
(* do_unlink is unlink and rmdir; "report" is do_inodeviewer and           *)
(* do_rcmkdir, "record" do_damageinode and do_restoreinode.  The file that *)
(* is linked is not a directory, and the name tested under a sticky        *)
(* directory is in it and on its volume.                                   *)
(***************************************************************************)
EXTENDS Integers, FiniteSets

CONSTANTS
    Threads,
    Volumes,        \* mounted file systems
    Dirs, Files,    \* vnodes
    VolumeOf,       \* v_vmnt, v_fs_e: the volume of each vnode
    Device,         \* the vnode of /dev/c0d0p0s2
    Lengths,        \* of files
    Grouped,        \* threads that serve a process with supplementary groups
    NULL

Vnodes == Dirs \cup Files

ASSUME VfsAssumption ==
    /\ Device \in Files /\ Dirs \cap Files = {}
    /\ VolumeOf \in [Vnodes -> Volumes]
    /\ NULL \notin Vnodes \cup Volumes

VARIABLES
    locks,      \* locks.vmnt[v][t], locks.vnode[x][t]: how t holds it; locks.refs[t][x]:
                \* references; locks.fault: one was dropped that was not held
    thread,     \* thread[t]: the call t serves and how far it is
    grants,     \* grants[t]: memory t's call has opened to a file server
    v_size,     \* the length VFS believes a file has
    size        \* and the one it has

vars == <<locks, thread, grants, v_size, size>>

Calls == {"link", "unlink", "rename", "truncate", "ftruncate", "slink",
          "rdlink", "report", "record"}

Idle == [call |-> NULL, at |-> "idle", vp |-> NULL, vmp |-> NULL,
         vp2 |-> NULL, vmp2 |-> NULL, vp2_l |-> NULL, wanted |-> NULL, length |-> NULL]

Init ==
    /\ locks = [vmnt |-> [v \in Volumes |-> [t \in Threads |-> "free"]],
                vnode |-> [x \in Vnodes |-> [t \in Threads |-> "free"]],
                refs |-> [t \in Threads |-> [x \in Vnodes |-> 0]],
                fault |-> FALSE]
    /\ thread = [t \in Threads |-> Idle]
    /\ grants = [t \in Threads |-> 0]
    /\ size \in [Files -> Lengths] /\ v_size = size

-----------------------------------------------------------------------------
(* Locks and references, outside the sources.  A volume locked to write has  *)
(* one writer and may have readers; upgrade_vmnt_lock waits until they left. *)

\* The threads but t that keep t from a lock on volume v, or on vnode x.
VmntHolders(v, t, mode) ==
    {u \in Threads \ {t} :
        CASE mode = "read" -> locks.vmnt[v][u] = "excl"
          [] mode = "write" -> locks.vmnt[v][u] \in {"write", "excl"}
          [] mode = "excl" -> locks.vmnt[v][u] # "free"}

VnodeHolders(x, t, mode) ==
    {u \in Threads \ {t} :
        locks.vnode[x][u] # "free" /\ {mode, locks.vnode[x][u]} # {"read"}}

VmntFree(v, t, mode) == VmntHolders(v, t, mode) = {}

VnodeFree(x, t, mode) == VnodeHolders(x, t, mode) = {}

unlock_vmnt(l, t, v) ==
    [l EXCEPT !.vmnt[v][t] = "free", !.fault = @ \/ l.vmnt[v][t] = "free"]

unlock_vnode(l, t, x) ==
    [l EXCEPT !.vnode[x][t] = "free", !.fault = @ \/ l.vnode[x][t] = "free"]

put_vnode(l, t, x) ==
    [l EXCEPT !.refs[t][x] = @ - 1, !.fault = @ \/ l.refs[t][x] = 0]

\* What most calls do when they are through with a path.
Release(l, t, vp, vmp) == put_vnode(unlock_vmnt(unlock_vnode(l, t, vp), t, vmp), t, vp)

-----------------------------------------------------------------------------
(* The steps of a thread.                                                   *)

At(t, call, place) == thread[t].call = call /\ thread[t].at = place

GoTo(t, place) == thread' = [thread EXCEPT ![t].at = place]

Return(t, l) == locks' = l /\ thread' = [thread EXCEPT ![t] = Idle]

\* A thread is given a call and looks up its first path, one of places.
Begin(t, call, places) ==
    /\ thread[t] = Idle
    /\ \E x \in places :
          thread' = [thread EXCEPT ![t] =
              [Idle EXCEPT !.call = call, !.wanted = x,
                           !.at = IF call = "ftruncate" THEN "filp" ELSE "vmnt"]]
    /\ UNCHANGED <<locks, grants, v_size, size>>

-----------------------------------------------------------------------------
(* Requests (vfs/request.c): memory is granted to the file server, the       *)
(* thread waits for its answer, the grants are revoked and the call returns. *)

Sendrec(t, ready, n, l) ==
    \/ /\ ready /\ GoTo(t, "fs")
       /\ grants' = [grants EXCEPT ![t] = @ + n]
       /\ UNCHANGED <<locks, v_size, size>>
    \/ /\ thread[t].at = "fs" /\ Return(t, l)
       /\ grants' = [grants EXCEPT ![t] = @ - n]
       /\ UNCHANGED <<v_size, size>>

\* req_lookup: the file server walks a path.  It is granted the path and, when
\* the process is in several groups, its credentials.  The path may name nothing.
LookupGrants(t) == IF t \in Grouped THEN 2 ELSE 1

req_lookup(t, found, failed) ==
    /\ grants' = [grants EXCEPT ![t] = @ - LookupGrants(t)]
    /\ \/ GoTo(t, found) /\ UNCHANGED locks
       \/ Return(t, failed)
    /\ UNCHANGED <<v_size, size>>

req_link(t, ready, l) == Sendrec(t, ready, 1, l)
req_unlink(t, ready, l) == Sendrec(t, ready, 1, l)
req_rename(t, ready, l) == Sendrec(t, ready, 2, l)
req_slink(t, ready, l) == Sendrec(t, ready, 2, l)
req_rdlink(t, ready, l) == Sendrec(t, ready, 1, l)
req_inodeviewer(t, ready, l) == Sendrec(t, ready, 0, l)
req_damageinode(t, ready, l) == Sendrec(t, ready, 1, l)

\* An error on the way: nothing but locks and references to give back.
Refuse(t, l) == Return(t, l) /\ UNCHANGED <<grants, v_size, size>>

\* eat_path, last_dir for the first path: vp and vmp, or nothing.
FirstPath(t, vmntLock, vnodeLock) ==
    LET x == thread[t].wanted
        v == VolumeOf[x]
    IN  \/ /\ thread[t].at = "vmnt" /\ VmntFree(v, t, vmntLock)
           /\ locks' = [locks EXCEPT !.vmnt[v][t] = vmntLock]
           /\ thread' = [thread EXCEPT ![t].at = "lookup", ![t].vmp = v]
           /\ grants' = [grants EXCEPT ![t] = LookupGrants(t)]
           /\ UNCHANGED <<v_size, size>>
        \/ thread[t].at = "lookup" /\ req_lookup(t, "vnode", unlock_vmnt(locks, t, v))
        \/ /\ thread[t].at = "vnode" /\ VnodeFree(x, t, vnodeLock)
           /\ locks' = [locks EXCEPT !.vnode[x][t] = vnodeLock, !.refs[t][x] = @ + 1]
           /\ thread' = [thread EXCEPT ![t].at = "found", ![t].vp = x, ![t].wanted = NULL]
           /\ UNCHANGED <<grants, v_size, size>>

\* The same for a second path: vp2, and NULL in vmp2 or vp2_l for what the thread
\* had locked already.  If it fails, failed are the locks that are left.
SecondPath(t, vmntLock, vnodeLock, failed) ==
    LET x == thread[t].wanted
        v == VolumeOf[x]
        vmp2 == thread[t].vmp2
        had == locks.vmnt[v][t] # "free"
    IN  \/ /\ thread[t].at = "vmnt2"
           /\ \/ had /\ GoTo(t, "lookup2") /\ UNCHANGED locks
              \/ /\ ~had /\ VmntFree(v, t, vmntLock)
                 /\ locks' = [locks EXCEPT !.vmnt[v][t] = vmntLock]
                 /\ thread' = [thread EXCEPT ![t].at = "lookup2", ![t].vmp2 = v]
           /\ grants' = [grants EXCEPT ![t] = LookupGrants(t)]
           /\ UNCHANGED <<v_size, size>>
        \/ thread[t].at = "lookup2" /\ req_lookup(t, "vnode2",
              IF vmp2 = NULL THEN failed ELSE unlock_vmnt(failed, t, vmp2))
        \/ /\ thread[t].at = "vnode2"
           /\ \/ /\ locks.vnode[x][t] # "free"
                 /\ locks' = [locks EXCEPT !.refs[t][x] = @ + 1]
                 /\ thread' = [thread EXCEPT ![t].at = "found2", ![t].vp2 = x,
                                             ![t].wanted = NULL]
              \/ /\ locks.vnode[x][t] = "free" /\ VnodeFree(x, t, vnodeLock)
                 /\ locks' = [locks EXCEPT !.vnode[x][t] = vnodeLock, !.refs[t][x] = @ + 1]
                 /\ thread' = [thread EXCEPT ![t].at = "found2", ![t].vp2 = x,
                                             ![t].vp2_l = x, ![t].wanted = NULL]
           /\ UNCHANGED <<grants, v_size, size>>

-----------------------------------------------------------------------------
\* Mutant: the directory stays locked.
DoneVolumeOnly(t) ==
    put_vnode(unlock_vmnt(locks, t, thread[t].vmp), t, thread[t].vp)

\* The locks when a call with one path returns, at any of its returns.
Done(t) == Release(locks, t, thread[t].vp, thread[t].vmp)

-----------------------------------------------------------------------------
(* vfs/link.c                                                               *)

\* The end of do_link: vp and dirp are different vnodes.
DoneLink(t) ==
    LET p == thread[t]
        l == unlock_vnode(unlock_vnode(locks, t, p.vp), t, p.vp2)
        m == unlock_vmnt(IF p.vmp2 = NULL THEN l ELSE unlock_vmnt(l, t, p.vmp2), t, p.vmp)
    IN  put_vnode(put_vnode(m, t, p.vp), t, p.vp2)

\* Mutant: the second directory is unlocked though it is the first one.
DoneRenameTwice(t) ==
    LET p == thread[t]
        l == unlock_vnode(unlock_vmnt(unlock_vnode(locks, t, p.vp), t, p.vmp), t, p.vp2)
        n == IF p.vmp2 = NULL THEN l ELSE unlock_vmnt(l, t, p.vmp2)
    IN  put_vnode(put_vnode(n, t, p.vp), t, p.vp2)

\* The end of do_rename: the two directories, and their volumes, may be one.
DoneRename(t) ==
    LET p == thread[t]
        l == unlock_vmnt(unlock_vnode(locks, t, p.vp), t, p.vmp)
        m == IF p.vp2_l = NULL THEN l ELSE unlock_vnode(l, t, p.vp2_l)
        n == IF p.vmp2 = NULL THEN m ELSE unlock_vmnt(m, t, p.vmp2)
    IN  put_vnode(put_vnode(n, t, p.vp), t, p.vp2)

\* The second name is fetched, or cannot be.
SecondName(t) ==
    /\ \E x \in Dirs : thread' = [thread EXCEPT ![t].at = "vmnt2", ![t].wanted = x]
    /\ UNCHANGED <<locks, grants, v_size, size>>

SameVolume(t) == VolumeOf[thread[t].vp] = VolumeOf[thread[t].vp2]

do_link(t) ==
    \/ Begin(t, "link", Files)
    \/ /\ thread[t].call = "link"
       /\ \/ FirstPath(t, "write", "read")
          \/ thread[t].at = "found" /\ (Refuse(t, Done(t)) \/ SecondName(t))
          \/ SecondPath(t, "read", "write", Done(t))
          \/ thread[t].at = "found2" /\ Refuse(t, DoneLink(t))
          \/ req_link(t, thread[t].at = "found2" /\ SameVolume(t), DoneLink(t))

\* Mutant: a removal reads the volume before it asks for it alone.
ReadFirst == "read"

\* How do_unlink and do_rename lock the volume at first: only one call can hold
\* it so, and no two wait to be alone there.
RemovalVmntLock == "write"

\* Mutant: the lock is not upgraded.
NotUpgraded(t) == GoTo(t, "ready") /\ UNCHANGED <<locks, grants, v_size, size>>

\* The directories may be changed (forbidden) and are on one volume.
Checked(t) == GoTo(t, "checked") /\ UNCHANGED <<locks, grants, v_size, size>>

\* Exclusive access, when the volume's readers have left.
upgrade_vmnt_lock(t) ==
    LET v == thread[t].vmp
    IN  /\ VmntFree(v, t, "excl")
        /\ locks' = [locks EXCEPT !.vmnt[v][t] = "excl"]
        /\ GoTo(t, "ready")
        /\ UNCHANGED <<grants, v_size, size>>

\* In a directory with the sticky bit the file itself is looked up and locked,
\* to see whose it is, and unlocked at once.
StickyCheck(t, next) ==
    LET x == thread[t].wanted
    IN  \/ /\ thread[t].at = "found"
           /\ \E y \in Vnodes \ {thread[t].vp} :
                 /\ VolumeOf[y] = thread[t].vmp
                 /\ thread' = [thread EXCEPT ![t].at = "stickylookup", ![t].wanted = y]
           /\ grants' = [grants EXCEPT ![t] = LookupGrants(t)]
           /\ UNCHANGED <<locks, v_size, size>>
        \/ thread[t].at = "stickylookup" /\ req_lookup(t, "sticky", Done(t))
        \/ /\ thread[t].at = "sticky" /\ VnodeFree(x, t, "read")
           /\ \/ thread' = [thread EXCEPT ![t].at = next, ![t].wanted = NULL]
                 /\ UNCHANGED locks
              \/ Return(t, Done(t))
           /\ UNCHANGED <<grants, v_size, size>>

do_unlink(t) ==
    \/ Begin(t, "unlink", Dirs)
    \/ /\ thread[t].call = "unlink"
       /\ \/ FirstPath(t, RemovalVmntLock, "write")
          \/ thread[t].at = "found" /\ (Refuse(t, Done(t)) \/ Checked(t))
          \/ StickyCheck(t, "checked")
          \/ thread[t].at = "checked" /\ upgrade_vmnt_lock(t)
          \/ req_unlink(t, thread[t].at = "ready", Done(t))

do_rename(t) ==
    \/ Begin(t, "rename", Dirs)
    \/ /\ thread[t].call = "rename"
       /\ \/ FirstPath(t, RemovalVmntLock, "write")
          \/ StickyCheck(t, "mine")
          \/ thread[t].at \in {"found", "mine"} /\ (Refuse(t, Done(t)) \/ SecondName(t))
          \/ SecondPath(t, "read", "write", Done(t))
          \/ thread[t].at = "found2" /\ Refuse(t, DoneRename(t))
          \/ thread[t].at = "found2" /\ SameVolume(t) /\ Checked(t)
          \/ thread[t].at = "checked" /\ upgrade_vmnt_lock(t)
          \/ req_rename(t, thread[t].at = "ready", DoneRename(t))

\* Mutant: the length is taken over whatever the answer.
TakesAnyLength(t, ok) == [v_size EXCEPT ![thread[t].vp] = thread[t].length]

\* What VFS believes of the length after the file server's answer.
NewLength(t, ok) ==
    IF ok THEN [v_size EXCEPT ![thread[t].vp] = thread[t].length] ELSE v_size

\* req_ftrunc: nothing is granted; the file is truncated before the answer is
\* read, or left as it is.
req_ftrunc(t, l) ==
    \/ /\ thread[t].at = "fs" /\ GoTo(t, "truncated")
       /\ size' = [size EXCEPT ![thread[t].vp] = thread[t].length]
       /\ UNCHANGED <<locks, grants, v_size>>
    \/ /\ \/ thread[t].at = "fs" /\ v_size' = NewLength(t, FALSE)
          \/ thread[t].at = "truncated" /\ v_size' = NewLength(t, TRUE)
       /\ Return(t, l)
       /\ UNCHANGED <<grants, size>>

\* truncate_vnode, when the length changes, of a regular file or a pipe.
truncate_vnode(t, l) ==
    \/ /\ thread[t].at = "found" /\ thread[t].vp \in Files
       /\ \E newsize \in Lengths \ {v_size[thread[t].vp]} :
             thread' = [thread EXCEPT ![t].at = "fs", ![t].length = newsize]
       /\ UNCHANGED <<locks, grants, v_size, size>>
    \/ req_ftrunc(t, l)

do_truncate(t) ==
    \/ Begin(t, "truncate", Vnodes)
    \/ /\ thread[t].call = "truncate"
       /\ \/ FirstPath(t, "read", "write")
          \/ thread[t].at = "found" /\ Refuse(t, Done(t))
          \/ truncate_vnode(t, Done(t))

\* The file is open: get_filp locks it without its volume.
do_ftruncate(t) ==
    LET x == thread[t].wanted
        l == unlock_vnode(locks, t, thread[t].vp)
    IN  \/ Begin(t, "ftruncate", Files)
        \/ /\ At(t, "ftruncate", "filp") /\ VnodeFree(x, t, "write")
           /\ locks' = [locks EXCEPT !.vnode[x][t] = "write"]
           /\ thread' = [thread EXCEPT ![t].at = "found", ![t].vp = x, ![t].wanted = NULL]
           /\ UNCHANGED <<grants, v_size, size>>
        \/ At(t, "ftruncate", "found") /\ Refuse(t, l)
        \/ thread[t].call = "ftruncate" /\ truncate_vnode(t, l)

do_slink(t) ==
    \/ Begin(t, "slink", Dirs)
    \/ /\ thread[t].call = "slink"
       /\ \/ FirstPath(t, "write", "write")
          \/ thread[t].at = "found" /\ Refuse(t, Done(t))
          \/ req_slink(t, thread[t].at = "found", Done(t))

do_rdlink(t) ==
    \/ Begin(t, "rdlink", Vnodes)
    \/ /\ thread[t].call = "rdlink"
       /\ \/ FirstPath(t, "read", "read")
          \/ thread[t].at = "found" /\ Refuse(t, Done(t))
          \/ req_rdlink(t, thread[t].at = "found", Done(t))

-----------------------------------------------------------------------------
(* vfs/new.c                                                                *)

\* do_inodeviewer and do_rcmkdir let go of the volume before the request.
do_inodeviewer(t) ==
    \/ Begin(t, "report", {Device})
    \/ /\ thread[t].call = "report"
       /\ \/ FirstPath(t, "read", "read")
          \/ /\ thread[t].at = "found" /\ locks' = Done(t) /\ GoTo(t, "ready")
             /\ UNCHANGED <<grants, v_size, size>>
          \/ req_inodeviewer(t, thread[t].at = "ready", locks)

\* do_damageinode and do_restoreinode.
do_damageinode(t) ==
    \/ Begin(t, "record", {Device})
    \/ /\ thread[t].call = "record"
       /\ \/ FirstPath(t, "read", "read")
          \/ req_damageinode(t, thread[t].at = "found", Done(t))

-----------------------------------------------------------------------------
Step(t) ==
    \/ do_link(t) \/ do_unlink(t) \/ do_rename(t) \/ do_truncate(t) \/ do_ftruncate(t)
    \/ do_slink(t) \/ do_rdlink(t) \/ do_inodeviewer(t) \/ do_damageinode(t)

Next == \E t \in Threads : Step(t)

Spec == Init /\ [][Next]_vars

\* A thread that waits is not passed over for ever, neither by the locks nor by
\* the file servers; calls need not come.
Fairness == \A t \in Threads : SF_vars(thread[t] # Idle /\ Step(t))

FairSpec == Spec /\ Fairness

-----------------------------------------------------------------------------
\* A thread without a call holds no lock, reference or grant, and no call drops
\* what it does not hold: every return of link.c and new.c, also with one
\* directory, or one volume, given twice.
AllReleased ==
    /\ ~locks.fault
    /\ \A t \in Threads : thread[t] = Idle =>
          /\ \A v \in Volumes : locks.vmnt[v][t] = "free"
          /\ \A x \in Vnodes : locks.vnode[x][t] = "free" /\ locks.refs[t][x] = 0
          /\ grants[t] = 0

\* While an entry is removed or renamed, no other call is at its volume, or has
\* a lock there, but the calls that lock no volume for their request: ftruncate,
\* do_inodeviewer and do_rcmkdir.
Removing(t) == thread[t].call \in {"unlink", "rename"} /\ thread[t].at = "fs"

RemovalAlone ==
    \A t, u \in Threads : Removing(t) /\ u # t =>
        /\ locks.vmnt[thread[t].vmp][u] = "free"
        /\ thread[u].at = "fs" /\ thread[u].vp # NULL /\ VolumeOf[thread[u].vp] = thread[t].vmp
              => thread[u].call \in {"ftruncate", "report"}

\* The length VFS keeps for a file (v_size, by which do_truncate decides that
\* there is nothing to do) is the file's, but while a call truncates it.
SizesAgree ==
    \A x \in Files : v_size[x] # size[x] =>
        \E t \in Threads : thread[t].at = "truncated" /\ thread[t].vp = x

\* The locks a call asks for on its first path (l_vmnt_lock, l_vnode_lock).
FirstVmntLock(call) ==
    CASE call \in {"link", "slink"} -> "write"
      [] call \in {"unlink", "rename"} -> RemovalVmntLock
      [] OTHER -> "read"

FirstVnodeLock(call) ==
    IF call \in {"link", "rdlink", "report", "record"} THEN "read" ELSE "write"

\* Blockers(t): the threads whose locks t waits for.
Blockers(t) ==
    LET p == thread[t]
        x == p.wanted
        v == VolumeOf[x]
    IN  CASE p.at = "vmnt" -> VmntHolders(v, t, FirstVmntLock(p.call))
          [] p.at = "vmnt2" /\ locks.vmnt[v][t] = "free" -> VmntHolders(v, t, "read")
          [] p.at = "checked" -> VmntHolders(p.vmp, t, "excl")
          [] p.at = "vnode" -> VnodeHolders(x, t, FirstVnodeLock(p.call))
          [] p.at = "filp" -> VnodeHolders(x, t, "write")
          [] p.at = "vnode2" /\ locks.vnode[x][t] = "free" -> VnodeHolders(x, t, "write")
          [] p.at = "sticky" -> VnodeHolders(x, t, "read")
          [] OTHER -> {}

\* Threads that wait for one another, and for ever.
Stuck(S) == S # {} /\ \A t \in S : Blockers(t) \cap S # {}

Crossing(t) ==
    /\ At(t, "rename", "vnode2")
    /\ VolumeOf[thread[t].wanted] # thread[t].vmp

\* A removal or rename waits for the readers of its volume to leave while it has
\* a directory locked that one of them wants, or a rename has a directory on one
\* volume and wants one on another (EXDEV is found only when both are locked).
Known(S) ==
    \E t \in S :
        \/ Crossing(t)
        \/ /\ thread[t].at = "checked"
           /\ \E u \in S : /\ thread[u].wanted # NULL
                            /\ locks.vmnt[thread[t].vmp][u] = "read"
                            /\ locks.vnode[thread[u].wanted][t] # "free"

\* No calls wait for each other, but behind one that waits in these two ways.
DeadlocksKnown == \A S \in SUBSET Threads : Stuck(S) => Known(S)

\* Every call returns, unless it waits in such a circle.
CallsReturn ==
    \A t \in Threads :
        thread[t] # Idle ~> (thread[t] = Idle \/ \E S \in SUBSET Threads : t \in S /\ Stuck(S))
=============================================================================

---------------------------- MODULE VfsLocksProofs ----------------------------
(***************************************************************************)
(* Proof that the calls of vfs/link.c and vfs/new.c give back what they    *)
(* take, that removals are alone on their volume, and that VFS keeps the   *)
(* right lengths, for any number of threads, volumes and vnodes; and that  *)
(* no calls wait for one another but in the two ways of Known.             *)
(*                                                                         *)
(* The inductive invariant says of a thread's place what it holds: a       *)
(* record of the call determines the thread's locks, references and        *)
(* grants.  For the circles it is strengthened by where the paths of a     *)
(* call lie and by how it holds its volume: at most one call at a time     *)
(* holds a volume to change directories, and who waits with a vnode locked *)
(* is such a call.                                                         *)
(***************************************************************************)
EXTENDS VfsLocks, TLAPS

Modes == {"free", "read", "write", "excl"}

LockState == [vmnt : [Volumes -> [Threads -> Modes]],
              vnode : [Vnodes -> [Threads -> Modes]],
              refs : [Threads -> [Vnodes -> Int]],
              fault : BOOLEAN]

Places == {"idle", "vmnt", "filp", "lookup", "vnode", "found", "stickylookup", "sticky",
           "mine", "vmnt2", "lookup2", "vnode2", "found2", "checked", "ready", "fs",
           "truncated"}

ThreadState == [call : Calls \cup {NULL}, at : Places,
                vp : Vnodes \cup {NULL}, vmp : Volumes \cup {NULL},
                vp2 : Vnodes \cup {NULL}, vmp2 : Volumes \cup {NULL},
                vp2_l : Vnodes \cup {NULL}, wanted : Vnodes \cup {NULL},
                length : Lengths \cup {NULL}]

\* No lock is dropped that is not held, and locks exclude each other.
Sound(l) ==
    /\ l \in LockState /\ l.fault = FALSE
    /\ \A v \in Volumes : \A t, u \in Threads :
          t # u /\ l.vmnt[v][t] = "excl" => l.vmnt[v][u] = "free"
    /\ \A x \in Vnodes : \A t, u \in Threads :
          t # u /\ l.vnode[x][t] = "write" => l.vnode[x][u] = "free"

\* The record of a call, by the place where the call is.
Shape(p) ==
    /\ p \in ThreadState
    /\ p.at = "idle" => p = Idle
    /\ p.at # "idle" => p.call \in Calls
    /\ p.vp = NULL <=> p.at \in {"idle", "vmnt", "filp", "lookup", "vnode"}
    /\ p.vmp = NULL <=> p.at \in {"idle", "vmnt", "filp"} \/ p.call = "ftruncate"
    /\ p.call = "ftruncate" => p.at \in {"idle", "filp", "found", "fs", "truncated"}
    /\ p.call # "ftruncate" =>
          /\ p.at # "filp"
          /\ p.at \in {"lookup", "vnode"} => p.vmp = VolumeOf[p.wanted]
          /\ p.vp # NULL => p.vmp = VolumeOf[p.vp]
    /\ p.wanted = NULL <=> p.at \notin {"vmnt", "filp", "lookup", "vnode", "stickylookup",
                                        "sticky", "vmnt2", "lookup2", "vnode2"}
    /\ p.vp2 = NULL <=> ~(/\ p.call \in {"link", "rename"}
                          /\ p.at \in {"found2", "checked", "ready", "fs"})
    /\ p.vp2_l = IF p.vp2 = p.vp THEN NULL ELSE p.vp2
    /\ p.vmp2 # NULL => /\ p.vmp2 # p.vmp /\ p.call \in {"link", "rename"}
                        /\ p.at \in {"lookup2", "vnode2", "found2", "checked", "ready", "fs"}
    /\ p.call = "link" /\ p.at # "idle" =>
          /\ p.vp = NULL => p.wanted \in Files
          /\ p.vp # NULL => p.vp \in Files /\ p.wanted \notin Files
          /\ p.vp2 \notin Files
    /\ p.at = "truncated" => p.call \in {"truncate", "ftruncate"}
    /\ p.call \in {"truncate", "ftruncate"} /\ p.at \in {"fs", "truncated"} =>
          p.vp \in Files /\ p.length \in Lengths

\* do_inodeviewer and do_rcmkdir have let go of everything.
LetGo(p) == p.call = "report" /\ p.at \in {"ready", "fs"}

RequestGrants(call) ==
    IF call \in {"link", "unlink", "rdlink", "record"} THEN 1
    ELSE IF call \in {"rename", "slink"} THEN 2 ELSE 0

\* What thread t holds, serving a call with record p.
HoldsVmnt(p, l, t) == \A v \in Volumes :
    l.vmnt[v][t] = "free" <=> LetGo(p) \/ v \notin {p.vmp, p.vmp2}

HoldsVnode(p, l, t) == \A x \in Vnodes :
    l.vnode[x][t] = "free" <=> LetGo(p) \/ x \notin {p.vp, p.vp2_l}

HoldsRefs(p, l, t) == \A x \in Vnodes :
    l.refs[t][x] = IF LetGo(p) \/ p.call = "ftruncate" THEN 0
                   ELSE (IF x = p.vp THEN 1 ELSE 0) + (IF x = p.vp2 THEN 1 ELSE 0)

HoldsGrants(p, g, t) ==
    g = IF p.at \in {"lookup", "lookup2", "stickylookup"} THEN LookupGrants(t)
        ELSE IF p.at = "fs" THEN RequestGrants(p.call) ELSE 0

HoldsAlone(p, l, t) ==
    /\ p.call \in {"unlink", "rename"} /\ p.at \in {"ready", "fs"} =>
          l.vmnt[p.vmp][t] = "excl"
    /\ p.call \in {"truncate", "ftruncate"} /\ p.vp # NULL => l.vnode[p.vp][t] = "write"

Holds(p, l, g, t) ==
    /\ HoldsVmnt(p, l, t) /\ HoldsVnode(p, l, t) /\ HoldsRefs(p, l, t)
    /\ HoldsGrants(p, g, t) /\ HoldsAlone(p, l, t)

VfsInv ==
    /\ Sound(locks)
    /\ thread \in [Threads -> ThreadState]
    /\ grants \in [Threads -> Int]
    /\ \A t \in Threads : Shape(thread[t]) /\ Holds(thread[t], locks, grants[t], t)
    /\ v_size \in [Files -> Lengths] /\ size \in [Files -> Lengths]
    /\ \A t \in Threads : thread[t].at = "truncated" => size[thread[t].vp] = thread[t].length
    /\ SizesAgree

\* What other threads hold is as it was.
Others(l, m, t) == \A u \in Threads \ {t} :
    /\ \A v \in Volumes : m.vmnt[v][u] = l.vmnt[v][u]
    /\ \A x \in Vnodes : m.vnode[x][u] = l.vnode[x][u] /\ m.refs[u][x] = l.refs[u][x]

\* A step from locks l to m that frees locks of t, or takes what is to be had.
Takes(l, m, t) ==
    /\ m \in LockState /\ m.fault = FALSE /\ Others(l, m, t)
    /\ \A v \in Volumes :
          \/ m.vmnt[v][t] \in {"free", l.vmnt[v][t]}
          \/ m.vmnt[v][t] = "excl" /\ \A u \in Threads \ {t} : l.vmnt[v][u] = "free"
          \/ m.vmnt[v][t] # "excl" /\ \A u \in Threads \ {t} : l.vmnt[v][u] # "excl"
    /\ \A x \in Vnodes :
          \/ m.vnode[x][t] \in {"free", l.vnode[x][t]}
          \/ m.vnode[x][t] = "write" /\ \A u \in Threads \ {t} : l.vnode[x][u] = "free"
          \/ m.vnode[x][t] # "write" /\ \A u \in Threads \ {t} : l.vnode[x][u] # "write"

-----------------------------------------------------------------------------
\* Locks.
LEMMA TakesSound ==
  ASSUME NEW l, Sound(l), NEW t \in Threads, NEW m, Takes(l, m, t)
  PROVE  Sound(m)
<1>1. ASSUME NEW v \in Volumes, NEW a \in Threads, NEW b \in Threads,
             a # b, m.vmnt[v][a] = "excl"
      PROVE  m.vmnt[v][b] = "free"
  BY <1>1 DEF Sound, Takes, Others
<1>2. ASSUME NEW x \in Vnodes, NEW a \in Threads, NEW b \in Threads,
             a # b, m.vnode[x][a] = "write"
      PROVE  m.vnode[x][b] = "free"
  BY <1>2 DEF Sound, Takes, Others
<1> QED  BY <1>1, <1>2 DEF Sound, Takes

\* m is l without the lock on v; without the lock on x; without a reference to x.
FreesVmnt(l, m, t, v) ==
    /\ m \in LockState /\ m.vnode = l.vnode /\ m.refs = l.refs
    /\ l.fault = FALSE /\ l.vmnt[v][t] # "free" => m.fault = FALSE
    /\ \A w \in Volumes : \A u \in Threads : m.vmnt[w][u] =
          IF w = v /\ u = t THEN "free" ELSE l.vmnt[w][u]

FreesVnode(l, m, t, x) ==
    /\ m \in LockState /\ m.vmnt = l.vmnt /\ m.refs = l.refs
    /\ l.fault = FALSE /\ l.vnode[x][t] # "free" => m.fault = FALSE
    /\ \A y \in Vnodes : \A u \in Threads : m.vnode[y][u] =
          IF y = x /\ u = t THEN "free" ELSE l.vnode[y][u]

PutsVnode(l, m, t, x) ==
    /\ m \in LockState /\ m.vmnt = l.vmnt /\ m.vnode = l.vnode
    /\ l.fault = FALSE /\ l.refs[t][x] # 0 => m.fault = FALSE
    /\ \A y \in Vnodes : \A u \in Threads : m.refs[u][y] =
          IF y = x /\ u = t THEN l.refs[u][y] - 1 ELSE l.refs[u][y]

LEMMA UnlockVmnt ==
  ASSUME NEW l \in LockState, NEW t \in Threads, NEW v \in Volumes
  PROVE  FreesVmnt(l, unlock_vmnt(l, t, v), t, v)
BY DEF FreesVmnt, unlock_vmnt, LockState, Modes

LEMMA UnlockVnode ==
  ASSUME NEW l \in LockState, NEW t \in Threads, NEW x \in Vnodes
  PROVE  FreesVnode(l, unlock_vnode(l, t, x), t, x)
BY DEF FreesVnode, unlock_vnode, LockState, Modes

LEMMA PutVnode ==
  ASSUME NEW l \in LockState, NEW t \in Threads, NEW x \in Vnodes
  PROVE  PutsVnode(l, put_vnode(l, t, x), t, x)
<1> DEFINE m == put_vnode(l, t, x)
           refs == [l.refs EXCEPT ![t] = [l.refs[t] EXCEPT ![x] = l.refs[t][x] - 1]]
<1>1. /\ m.vmnt = l.vmnt /\ m.vnode = l.vnode /\ m.refs = refs
      /\ l.fault = FALSE /\ l.refs[t][x] # 0 => m.fault = FALSE
  BY DEF put_vnode, LockState
<1>2. l.refs \in [Threads -> [Vnodes -> Int]]
  BY DEF LockState
<1>3. refs \in [Threads -> [Vnodes -> Int]]
  BY <1>2
<1>4. m \in LockState
  BY <1>3 DEF put_vnode, LockState
<1>5. \A y \in Vnodes : \A u \in Threads :
        refs[u][y] = IF y = x /\ u = t THEN l.refs[u][y] - 1 ELSE l.refs[u][y]
  BY <1>2
<1> HIDE DEF m, refs
<1>6. PutsVnode(l, m, t, x)
  BY <1>1, <1>4, <1>5 DEF PutsVnode
<1> QED  BY <1>6 DEF m

\* Release drops one lock of each kind and a reference.
Releases(l, m, t, x, v) ==
    /\ m \in LockState /\ m.fault = FALSE
    /\ \A w \in Volumes : \A u \in Threads : m.vmnt[w][u] =
          IF w = v /\ u = t THEN "free" ELSE l.vmnt[w][u]
    /\ \A y \in Vnodes : \A u \in Threads :
          /\ m.vnode[y][u] = IF y = x /\ u = t THEN "free" ELSE l.vnode[y][u]
          /\ m.refs[u][y] = IF y = x /\ u = t THEN l.refs[u][y] - 1 ELSE l.refs[u][y]

LEMMA ReleaseFacts ==
  ASSUME NEW l \in LockState, l.fault = FALSE,
         NEW t \in Threads, NEW x \in Vnodes, NEW v \in Volumes,
         l.vnode[x][t] # "free", l.vmnt[v][t] # "free", l.refs[t][x] # 0
  PROVE  Releases(l, Release(l, t, x, v), t, x, v)
<1>1. PICK a : a = unlock_vnode(l, t, x)
  OBVIOUS
<1>2. PICK b : b = unlock_vmnt(a, t, v)
  OBVIOUS
<1>3. PICK m : m = put_vnode(b, t, x)
  OBVIOUS
<1>4. m = Release(l, t, x, v)
  BY <1>1, <1>2, <1>3 DEF Release
<1>5. FreesVnode(l, a, t, x)
  BY <1>1, UnlockVnode
<1>6. a \in LockState /\ a.fault = FALSE /\ a.vmnt[v][t] # "free"
  BY <1>5 DEF FreesVnode
<1>7. FreesVmnt(a, b, t, v)
  BY <1>2, <1>6, UnlockVmnt
<1>8. b \in LockState /\ b.fault = FALSE /\ b.refs[t][x] # 0
  BY <1>5, <1>6, <1>7 DEF FreesVnode, FreesVmnt
<1>9. PutsVnode(b, m, t, x)
  BY <1>3, <1>8, PutVnode
<1>10. Releases(l, m, t, x, v)
  BY <1>5, <1>7, <1>8, <1>9 DEF FreesVnode, FreesVmnt, PutsVnode, Releases
<1> QED  BY <1>4, <1>10
-----------------------------------------------------------------------------
\* A step of a thread touches only what is that thread's.
LEMMA HoldsOther ==
  ASSUME NEW t \in Threads, NEW u \in Threads \ {t}, NEW l, NEW m, Others(l, m, t),
         NEW p, Shape(p), NEW g, Holds(p, l, g, u)
  PROVE  Holds(p, m, g, u)
<1>1. /\ \A v \in Volumes : m.vmnt[v][u] = l.vmnt[v][u]
      /\ \A x \in Vnodes : m.vnode[x][u] = l.vnode[x][u] /\ m.refs[u][x] = l.refs[u][x]
  BY DEF Others
<1>2. p.call \in {"unlink", "rename"} /\ p.at \in {"ready", "fs"} => p.vmp \in Volumes
  BY DEF Shape, ThreadState
<1>3. p.vp # NULL => p.vp \in Vnodes
  BY DEF Shape, ThreadState
<1>4. HoldsVmnt(p, m, u)
  BY <1>1 DEF Holds, HoldsVmnt
<1>5. HoldsVnode(p, m, u)
  BY <1>1 DEF Holds, HoldsVnode
<1>6. HoldsRefs(p, m, u)
  BY <1>1 DEF Holds, HoldsRefs
<1>7. HoldsAlone(p, m, u)
  BY <1>1, <1>2, <1>3 DEF Holds, HoldsAlone
<1> QED  BY <1>4, <1>5, <1>6, <1>7 DEF Holds

\* Whatever becomes of the lengths.
CallsInv ==
    /\ Sound(locks)
    /\ thread \in [Threads -> ThreadState]
    /\ grants \in [Threads -> Int]
    /\ \A t \in Threads : Shape(thread[t]) /\ Holds(thread[t], locks, grants[t], t)

LEMMA CallStep ==
  ASSUME VfsInv, NEW t \in Threads, NEW p, Shape(p), thread' = [thread EXCEPT ![t] = p],
         Takes(locks, locks', t), NEW g \in Int, grants' = [grants EXCEPT ![t] = g],
         Holds(p, locks', g, t)
  PROVE  CallsInv'
<1>1. Sound(locks)'
  BY TakesSound DEF VfsInv
<1>2. /\ (thread \in [Threads -> ThreadState])' /\ (grants \in [Threads -> Int])'
      /\ \A u \in Threads : thread'[u] = IF u = t THEN p ELSE thread[u]
      /\ \A u \in Threads : grants'[u] = IF u = t THEN g ELSE grants[u]
  BY DEF VfsInv, Shape
<1>3. ASSUME NEW u \in Threads PROVE (Shape(thread[u]) /\ Holds(thread[u], locks, grants[u], u))'
  <2>1. CASE u = t
    BY <1>2, <2>1
  <2>2. CASE u # t
    <3>1. Shape(thread[u]) /\ Holds(thread[u], locks, grants[u], u)
      BY DEF VfsInv
    <3>2. Holds(thread[u], locks', grants[u], u)
      BY <2>2, <3>1, HoldsOther DEF Takes
    <3> QED  BY <1>2, <2>2, <3>1, <3>2
  <2> QED  BY <2>1, <2>2
<1> QED  BY <1>1, <1>2, <1>3 DEF CallsInv

LEMMA LocalStep ==
  ASSUME VfsInv, NEW t \in Threads, NEW p, Shape(p), thread' = [thread EXCEPT ![t] = p],
         Takes(locks, locks', t), NEW g \in Int, grants' = [grants EXCEPT ![t] = g],
         Holds(p, locks', g, t), UNCHANGED <<v_size, size>>,
         thread[t].at # "truncated", p.at # "truncated"
  PROVE  VfsInv'
<1>1. CallsInv'
  BY CallStep
<1>2. \A u \in Threads : thread'[u] = IF u = t THEN p ELSE thread[u]
  BY DEF VfsInv
<1>3. (v_size \in [Files -> Lengths] /\ size \in [Files -> Lengths])'
  BY DEF VfsInv
<1>4. (\A u \in Threads : thread[u].at = "truncated" => size[thread[u].vp] = thread[u].length)'
  BY <1>2 DEF VfsInv
<1>5. SizesAgree'
  BY <1>2 DEF VfsInv, SizesAgree
<1> QED  BY <1>1, <1>3, <1>4, <1>5 DEF VfsInv, CallsInv

\* A step that leaves the locks alone.
LEMMA GoStep ==
  ASSUME VfsInv, NEW t \in Threads, NEW p, Shape(p), thread' = [thread EXCEPT ![t] = p],
         NEW g \in Int, grants' = [grants EXCEPT ![t] = g], Holds(p, locks, g, t),
         UNCHANGED <<locks, v_size, size>>, thread[t].at # "truncated", p.at # "truncated"
  PROVE  VfsInv'
<1>1. Takes(locks, locks', t)
  BY DEF Takes, Others, VfsInv, Sound
<1> QED  BY <1>1, LocalStep

\* Locks l in which t, as opposed to locks, holds nothing.
Freed(l, t) ==
    /\ l \in LockState /\ l.fault = FALSE /\ Others(locks, l, t)
    /\ \A v \in Volumes : l.vmnt[v][t] = "free"
    /\ \A x \in Vnodes : l.vnode[x][t] = "free" /\ l.refs[t][x] = 0

LEMMA IdleFacts ==
  /\ Shape(Idle)
  /\ \A t \in Threads : \A l : Freed(l, t) => Holds(Idle, l, 0, t)
<1>1. Shape(Idle)
  BY VfsAssumption DEF Shape, Idle, ThreadState, Places, Calls
<1>2. ASSUME NEW t \in Threads, NEW l, Freed(l, t) PROVE Holds(Idle, l, 0, t)
  <2>1. Idle.at = "idle" /\ Idle.vp = NULL /\ Idle.vmp = NULL /\ Idle.vp2 = NULL
        /\ Idle.vmp2 = NULL /\ Idle.vp2_l = NULL
    BY DEF Idle
  <2>2. ~LetGo(Idle) /\ \A v \in Volumes : v \notin {Idle.vmp, Idle.vmp2}
    BY <2>1, VfsAssumption DEF LetGo
  <2>3. \A x \in Vnodes : x \notin {Idle.vp, Idle.vp2_l}
    BY <2>1, VfsAssumption
  <2>4. HoldsVmnt(Idle, l, t)
    BY <1>2, <2>2 DEF Freed, HoldsVmnt
  <2>5. HoldsVnode(Idle, l, t) /\ HoldsRefs(Idle, l, t)
    BY <1>2, <2>1, <2>3 DEF Freed, HoldsVnode, HoldsRefs
  <2>6. HoldsGrants(Idle, 0, t)
    BY <2>1 DEF HoldsGrants
  <2>7. HoldsAlone(Idle, l, t)
    BY <2>1 DEF HoldsAlone
  <2> QED  BY <2>4, <2>5, <2>6, <2>7 DEF Holds
<1> QED  BY <1>1, <1>2

\* A return is right when nothing is left.
LEMMA ReturnStep ==
  ASSUME VfsInv, NEW t \in Threads, NEW l, Freed(l, t), Return(t, l),
         grants' = [grants EXCEPT ![t] = 0], UNCHANGED <<v_size, size>>,
         thread[t].at # "truncated"
  PROVE  VfsInv'
<1>1. locks' = l /\ thread' = [thread EXCEPT ![t] = Idle]
  BY DEF Return
<1>2. Takes(locks, l, t)
  BY DEF Takes, Freed
<1>3. Idle.at # "truncated" /\ 0 \in Int
  BY DEF Idle
<1>4. Shape(Idle) /\ Holds(Idle, l, 0, t)
  BY IdleFacts
<1>5. Takes(locks, locks', t) /\ Holds(Idle, locks', 0, t)
  BY <1>1, <1>2, <1>4
<1> QED  BY <1>1, <1>3, <1>4, <1>5, LocalStep
-----------------------------------------------------------------------------
\* What the returns give back.
LEMMA PlaceFacts ==
  ASSUME VfsInv, NEW t \in Threads
  PROVE  /\ Shape(thread[t]) /\ Holds(thread[t], locks, grants[t], t)
         /\ HoldsVmnt(thread[t], locks, t) /\ HoldsVnode(thread[t], locks, t)
         /\ HoldsRefs(thread[t], locks, t) /\ HoldsGrants(thread[t], grants[t], t)
         /\ HoldsAlone(thread[t], locks, t)
         /\ thread[t] \in ThreadState
         /\ locks \in LockState /\ locks.fault = FALSE
         /\ VolumeOf \in [Vnodes -> Volumes] /\ NULL \notin Vnodes /\ NULL \notin Volumes
BY VfsAssumption DEF VfsInv, Sound, Shape, Holds

LEMMA DoneFreed ==
  ASSUME VfsInv, NEW t \in Threads, thread[t].vp # NULL, thread[t].call # "ftruncate",
         ~LetGo(thread[t]), thread[t].vp2 = NULL, thread[t].vmp2 = NULL
  PROVE  Freed(Done(t), t)
<1>1. PICK p : p = thread[t]
  OBVIOUS
<1>2. /\ Shape(p) /\ HoldsVmnt(p, locks, t) /\ HoldsVnode(p, locks, t)
      /\ HoldsRefs(p, locks, t) /\ locks \in LockState /\ locks.fault = FALSE
      /\ NULL \notin Vnodes /\ NULL \notin Volumes
  BY <1>1, PlaceFacts
<1>3. p.vp \in Vnodes /\ p.vmp \in Volumes /\ p.vp2_l = NULL
  BY <1>1, <1>2 DEF Shape, ThreadState
<1>4. \A v \in Volumes : locks.vmnt[v][t] = "free" <=> v # p.vmp
  BY <1>1, <1>2, <1>3 DEF HoldsVmnt
<1>5. \A x \in Vnodes : locks.vnode[x][t] = "free" <=> x # p.vp
  BY <1>1, <1>2, <1>3 DEF HoldsVnode
<1>6. \A x \in Vnodes : locks.refs[t][x] = IF x = p.vp THEN 1 ELSE 0
  BY <1>1, <1>2, <1>3 DEF HoldsRefs
<1>7. /\ locks.vmnt[p.vmp][t] # "free" /\ locks.vnode[p.vp][t] # "free"
      /\ locks.refs[t][p.vp] # 0
  BY <1>3, <1>4, <1>5, <1>6
<1>8. PICK m : m = Done(t)
  OBVIOUS
<1>9. Releases(locks, Release(locks, t, p.vp, p.vmp), t, p.vp, p.vmp)
  BY <1>2, <1>3, <1>7, ReleaseFacts
<1>10. Releases(locks, m, t, p.vp, p.vmp)
  BY <1>1, <1>8, <1>9 DEF Done
<1>11. Freed(m, t)
  BY <1>3, <1>4, <1>5, <1>6, <1>10 DEF Releases, Freed, Others
<1> QED  BY <1>8, <1>11

\* The same when the second volume has been locked as well.
LEMMA DoneBothFreed ==
  ASSUME VfsInv, NEW t \in Threads, thread[t].vp # NULL,
         thread[t].vp2 = NULL, thread[t].vmp2 # NULL
  PROVE  Freed(unlock_vmnt(Done(t), t, thread[t].vmp2), t)
<1>1. PICK p : p = thread[t]
  OBVIOUS
<1>2. /\ Shape(p) /\ HoldsVmnt(p, locks, t) /\ HoldsVnode(p, locks, t)
      /\ HoldsRefs(p, locks, t) /\ locks \in LockState /\ locks.fault = FALSE
      /\ NULL \notin Vnodes /\ NULL \notin Volumes
  BY <1>1, PlaceFacts
<1>3. /\ p.vp \in Vnodes /\ p.vmp \in Volumes /\ p.vp2_l = NULL
      /\ p.vmp2 \in Volumes /\ p.vmp2 # p.vmp /\ p.call \in {"link", "rename"}
  BY <1>1, <1>2 DEF Shape, ThreadState
<1>4. ~LetGo(p)
  BY <1>3 DEF LetGo
<1>5. \A v \in Volumes : locks.vmnt[v][t] = "free" <=> v \notin {p.vmp, p.vmp2}
  BY <1>2, <1>4 DEF HoldsVmnt
<1>6. \A x \in Vnodes : locks.vnode[x][t] = "free" <=> x # p.vp
  BY <1>2, <1>3, <1>4 DEF HoldsVnode
<1>7. \A x \in Vnodes : locks.refs[t][x] = IF x = p.vp THEN 1 ELSE 0
  BY <1>1, <1>2, <1>3, <1>4 DEF HoldsRefs
<1>8. /\ locks.vmnt[p.vmp][t] # "free" /\ locks.vnode[p.vp][t] # "free"
      /\ locks.refs[t][p.vp] # 0
  BY <1>3, <1>5, <1>6, <1>7
<1>9. PICK m : m = Done(t)
  OBVIOUS
<1>10. Releases(locks, Release(locks, t, p.vp, p.vmp), t, p.vp, p.vmp)
  BY <1>2, <1>3, <1>8, ReleaseFacts
<1>11. Releases(locks, m, t, p.vp, p.vmp)
  BY <1>1, <1>9, <1>10 DEF Done
<1>12. m \in LockState /\ m.fault = FALSE /\ m.vmnt[p.vmp2][t] # "free"
  BY <1>3, <1>5, <1>11 DEF Releases
<1>13. PICK n : n = unlock_vmnt(m, t, p.vmp2)
  OBVIOUS
<1>14. FreesVmnt(m, n, t, p.vmp2)
  BY <1>3, <1>12, <1>13, UnlockVmnt
<1>15. Freed(n, t)
  BY <1>3, <1>5, <1>6, <1>7, <1>11, <1>12, <1>14 DEF Releases, FreesVmnt, Freed, Others
<1> QED  BY <1>1, <1>9, <1>13, <1>15

\* A first lookup that fails.
LEMMA LookupFreed ==
  ASSUME VfsInv, NEW t \in Threads, thread[t].at = "lookup"
  PROVE  Freed(unlock_vmnt(locks, t, VolumeOf[thread[t].wanted]), t)
<1>1. PICK p : p = thread[t]
  OBVIOUS
<1>2. /\ Shape(p) /\ HoldsVmnt(p, locks, t) /\ HoldsVnode(p, locks, t)
      /\ HoldsRefs(p, locks, t) /\ locks \in LockState /\ locks.fault = FALSE
      /\ NULL \notin Vnodes /\ NULL \notin Volumes
  BY <1>1, PlaceFacts
<1>3. /\ p.vp = NULL /\ p.vp2 = NULL /\ p.vmp2 = NULL /\ p.vp2_l = NULL
      /\ p.vmp \in Volumes /\ p.vmp = VolumeOf[p.wanted]
  BY <1>1, <1>2 DEF Shape, ThreadState
<1>4. ~LetGo(p)
  BY <1>1 DEF LetGo
<1>5. \A v \in Volumes : locks.vmnt[v][t] = "free" <=> v # p.vmp
  BY <1>2, <1>3, <1>4 DEF HoldsVmnt
<1>6. \A x \in Vnodes : locks.vnode[x][t] = "free"
  BY <1>2, <1>3, <1>4 DEF HoldsVnode
<1>7. \A x \in Vnodes : locks.refs[t][x] = 0
  BY <1>2, <1>3, <1>4 DEF HoldsRefs
<1>8. PICK m : m = unlock_vmnt(locks, t, p.vmp)
  OBVIOUS
<1>9. FreesVmnt(locks, m, t, p.vmp)
  BY <1>2, <1>3, <1>8, UnlockVmnt
<1>10. locks.vmnt[p.vmp][t] # "free"
  BY <1>3, <1>5
<1>11. Freed(m, t)
  BY <1>2, <1>5, <1>6, <1>7, <1>9, <1>10 DEF FreesVmnt, Freed, Others
<1> QED  BY <1>1, <1>3, <1>8, <1>11

\* l is locks without those of t on the volumes S and the vnodes R.
Without(l, S, R, t) ==
    /\ l \in LockState /\ l.fault = FALSE /\ l.refs = locks.refs
    /\ \A v \in Volumes : \A u \in Threads : l.vmnt[v][u] =
          IF v \in S /\ u = t THEN "free" ELSE locks.vmnt[v][u]
    /\ \A x \in Vnodes : \A u \in Threads : l.vnode[x][u] =
          IF x \in R /\ u = t THEN "free" ELSE locks.vnode[x][u]

LEMMA WithoutVmnt ==
  ASSUME NEW l, NEW S, NEW R, NEW t \in Threads, Without(l, S, R, t),
         NEW v \in Volumes, v \notin S, locks.vmnt[v][t] # "free"
  PROVE  Without(unlock_vmnt(l, t, v), S \cup {v}, R, t)
<1>1. PICK m : m = unlock_vmnt(l, t, v)
  OBVIOUS
<1>2. FreesVmnt(l, m, t, v)
  BY <1>1, UnlockVmnt DEF Without
<1>3. Without(m, S \cup {v}, R, t)
  BY <1>2 DEF Without, FreesVmnt
<1> QED  BY <1>1, <1>3

LEMMA WithoutVnode ==
  ASSUME NEW l, NEW S, NEW R, NEW t \in Threads, Without(l, S, R, t),
         NEW x \in Vnodes, x \notin R, locks.vnode[x][t] # "free"
  PROVE  Without(unlock_vnode(l, t, x), S, R \cup {x}, t)
<1>1. PICK m : m = unlock_vnode(l, t, x)
  OBVIOUS
<1>2. FreesVnode(l, m, t, x)
  BY <1>1, UnlockVnode DEF Without
<1>3. Without(m, S, R \cup {x}, t)
  BY <1>2 DEF Without, FreesVnode
<1> QED  BY <1>1, <1>3

\* Both references are dropped last, when no lock is left; they may be to one vnode.
LEMMA PutBoth ==
  ASSUME NEW t \in Threads, NEW S, NEW R, NEW l, Without(l, S, R, t),
         \A v \in Volumes : locks.vmnt[v][t] # "free" => v \in S,
         \A z \in Vnodes : locks.vnode[z][t] # "free" => z \in R,
         NEW x \in Vnodes, NEW y \in Vnodes,
         \A z \in Vnodes : locks.refs[t][z] =
            (IF z = x THEN 1 ELSE 0) + (IF z = y THEN 1 ELSE 0)
  PROVE  Freed(put_vnode(put_vnode(l, t, x), t, y), t)
<1>1. PICK e : e = put_vnode(l, t, x)
  OBVIOUS
<1>2. PICK m : m = put_vnode(e, t, y)
  OBVIOUS
<1>3. PutsVnode(l, e, t, x)
  BY <1>1, PutVnode DEF Without
<1>4. e \in LockState /\ e.fault = FALSE /\ e.refs[t][y] # 0
  BY <1>3 DEF PutsVnode, Without
<1>5. PutsVnode(e, m, t, y)
  BY <1>2, <1>4, PutVnode
<1>6. m \in LockState /\ m.fault = FALSE
  BY <1>4, <1>5 DEF PutsVnode
<1>7. \A v \in Volumes : \A u \in Threads : m.vmnt[v][u] =
         IF u = t THEN "free" ELSE locks.vmnt[v][u]
  BY <1>3, <1>5 DEF PutsVnode, Without
<1>8. \A z \in Vnodes : \A u \in Threads : m.vnode[z][u] =
         IF u = t THEN "free" ELSE locks.vnode[z][u]
  BY <1>3, <1>5 DEF PutsVnode, Without
<1>9. \A z \in Vnodes : \A u \in Threads : m.refs[u][z] =
         IF u = t THEN 0 ELSE locks.refs[u][z]
  BY <1>3, <1>5 DEF PutsVnode, Without
<1>10. Freed(m, t)
  BY <1>6, <1>7, <1>8, <1>9 DEF Freed, Others
<1> QED  BY <1>1, <1>2, <1>10

\* The end of do_link: the linked file is no directory, so both are locked.
LEMMA DoneLinkFreed ==
  ASSUME VfsInv, NEW t \in Threads, thread[t].call = "link", thread[t].vp2 # NULL
  PROVE  Freed(DoneLink(t), t)
<1>1. PICK p : p = thread[t]
  OBVIOUS
<1>2. /\ Shape(p) /\ HoldsVmnt(p, locks, t) /\ HoldsVnode(p, locks, t)
      /\ HoldsRefs(p, locks, t) /\ locks \in LockState /\ locks.fault = FALSE
      /\ NULL \notin Vnodes /\ NULL \notin Volumes
  BY <1>1, PlaceFacts
<1>3. /\ p.vp \in Vnodes /\ p.vmp \in Volumes /\ p.vp2 \in Vnodes
      /\ p.vp2_l = IF p.vp2 = p.vp THEN NULL ELSE p.vp2
      /\ p.vmp2 \in Volumes \cup {NULL} /\ p.vmp2 # p.vmp
  BY <1>1, <1>2 DEF Shape, ThreadState
<1>4. ~LetGo(p) /\ p.call # "ftruncate"
  BY <1>1 DEF LetGo
<1>5. \A v \in Volumes : locks.vmnt[v][t] = "free" <=> v \notin {p.vmp, p.vmp2}
  BY <1>2, <1>4 DEF HoldsVmnt
<1>6. \A x \in Vnodes : locks.vnode[x][t] = "free" <=> x \notin {p.vp, p.vp2}
  BY <1>2, <1>3, <1>4 DEF HoldsVnode
<1>7. \A x \in Vnodes : locks.refs[t][x] =
         (IF x = p.vp THEN 1 ELSE 0) + (IF x = p.vp2 THEN 1 ELSE 0)
  BY <1>2, <1>4 DEF HoldsRefs
<1>8. Without(locks, {}, {}, t)
  BY <1>2 DEF Without
<1>9. p.vp2 # p.vp
  BY <1>1, <1>2, <1>3 DEF Shape
<1>10. PICK a : a = unlock_vnode(unlock_vnode(locks, t, p.vp), t, p.vp2)
  OBVIOUS
<1>11. Without(unlock_vnode(locks, t, p.vp), {}, {} \cup {p.vp}, t)
  BY <1>3, <1>6, <1>8, WithoutVnode
<1>12. Without(a, {}, ({} \cup {p.vp}) \cup {p.vp2}, t)
  BY <1>3, <1>6, <1>9, <1>10, <1>11, WithoutVnode
<1>13. PICK b : b = IF p.vmp2 = NULL THEN a ELSE unlock_vmnt(a, t, p.vmp2)
  OBVIOUS
<1>14. PICK S : Without(b, S, ({} \cup {p.vp}) \cup {p.vp2}, t) /\ p.vmp \notin S
                /\ (p.vmp2 # NULL => p.vmp2 \in S)
  <2>1. CASE p.vmp2 = NULL
    BY <1>12, <1>13, <2>1
  <2>2. CASE p.vmp2 # NULL
    <3>1. Without(b, {} \cup {p.vmp2}, ({} \cup {p.vp}) \cup {p.vp2}, t)
      BY <1>3, <1>5, <1>12, <1>13, <2>2, WithoutVmnt
    <3> QED  BY <1>3, <3>1
  <2> QED  BY <2>1, <2>2
<1>15. PICK c : c = unlock_vmnt(b, t, p.vmp)
  OBVIOUS
<1>16. Without(c, S \cup {p.vmp}, ({} \cup {p.vp}) \cup {p.vp2}, t)
  BY <1>3, <1>5, <1>14, <1>15, WithoutVmnt
<1>17. Freed(put_vnode(put_vnode(c, t, p.vp), t, p.vp2), t)
  <2>1. \A v \in Volumes : locks.vmnt[v][t] # "free" => v \in S \cup {p.vmp}
    BY <1>2, <1>5, <1>14
  <2>2. \A z \in Vnodes : locks.vnode[z][t] # "free" => z \in ({} \cup {p.vp}) \cup {p.vp2}
    BY <1>6
  <2> QED  BY <1>3, <1>7, <1>16, <2>1, <2>2, PutBoth
<1> QED  BY <1>1, <1>10, <1>13, <1>15, <1>17 DEF DoneLink

\* The end of do_rename: the directories, and the volumes, may be one.
LEMMA DoneRenameFreed ==
  ASSUME VfsInv, NEW t \in Threads, thread[t].call = "rename", thread[t].vp2 # NULL
  PROVE  Freed(DoneRename(t), t)
<1>1. PICK p : p = thread[t]
  OBVIOUS
<1>2. /\ Shape(p) /\ HoldsVmnt(p, locks, t) /\ HoldsVnode(p, locks, t)
      /\ HoldsRefs(p, locks, t) /\ locks \in LockState /\ locks.fault = FALSE
      /\ NULL \notin Vnodes /\ NULL \notin Volumes
  BY <1>1, PlaceFacts
<1>3. /\ p.vp \in Vnodes /\ p.vmp \in Volumes /\ p.vp2 \in Vnodes
      /\ p.vp2_l = IF p.vp2 = p.vp THEN NULL ELSE p.vp2
      /\ p.vmp2 \in Volumes \cup {NULL} /\ p.vmp2 # p.vmp
  BY <1>1, <1>2 DEF Shape, ThreadState
<1>4. ~LetGo(p) /\ p.call # "ftruncate"
  BY <1>1 DEF LetGo
<1>5. \A v \in Volumes : locks.vmnt[v][t] = "free" <=> v \notin {p.vmp, p.vmp2}
  BY <1>2, <1>4 DEF HoldsVmnt
<1>6. \A x \in Vnodes : locks.vnode[x][t] = "free" <=> x \notin {p.vp, p.vp2}
  BY <1>2, <1>3, <1>4 DEF HoldsVnode
<1>7. \A x \in Vnodes : locks.refs[t][x] =
         (IF x = p.vp THEN 1 ELSE 0) + (IF x = p.vp2 THEN 1 ELSE 0)
  BY <1>2, <1>4 DEF HoldsRefs
<1>8. Without(locks, {}, {}, t)
  BY <1>2 DEF Without
<1>9. PICK a : a = unlock_vmnt(unlock_vnode(locks, t, p.vp), t, p.vmp)
  OBVIOUS
<1>10. Without(unlock_vnode(locks, t, p.vp), {}, {} \cup {p.vp}, t)
  BY <1>3, <1>6, <1>8, WithoutVnode
<1>11. Without(a, {} \cup {p.vmp}, {} \cup {p.vp}, t)
  BY <1>3, <1>5, <1>9, <1>10, WithoutVmnt
<1>12. PICK b : b = IF p.vp2_l = NULL THEN a ELSE unlock_vnode(a, t, p.vp2_l)
  OBVIOUS
<1>13. PICK R : Without(b, {} \cup {p.vmp}, R, t) /\ p.vp \in R /\ p.vp2 \in R
  <2>1. CASE p.vp2 = p.vp
    BY <1>3, <1>11, <1>12, <2>1
  <2>2. CASE p.vp2 # p.vp
    <3>1. p.vp2_l = p.vp2 /\ p.vp2_l # NULL
      BY <1>2, <1>3, <2>2
    <3>2. Without(b, {} \cup {p.vmp}, ({} \cup {p.vp}) \cup {p.vp2}, t)
      BY <1>3, <1>6, <1>11, <1>12, <2>2, <3>1, WithoutVnode
    <3> QED  BY <3>2
  <2> QED  BY <2>1, <2>2
<1>14. PICK c : c = IF p.vmp2 = NULL THEN b ELSE unlock_vmnt(b, t, p.vmp2)
  OBVIOUS
<1>15. PICK S : Without(c, S, R, t) /\ p.vmp \in S /\ (p.vmp2 # NULL => p.vmp2 \in S)
  <2>1. CASE p.vmp2 = NULL
    BY <1>13, <1>14, <2>1
  <2>2. CASE p.vmp2 # NULL
    <3>1. Without(c, ({} \cup {p.vmp}) \cup {p.vmp2}, R, t)
      BY <1>3, <1>5, <1>13, <1>14, <2>2, WithoutVmnt
    <3> QED  BY <3>1
  <2> QED  BY <2>1, <2>2
<1>16. Freed(put_vnode(put_vnode(c, t, p.vp), t, p.vp2), t)
  <2>1. \A v \in Volumes : locks.vmnt[v][t] # "free" => v \in S
    BY <1>2, <1>5, <1>15
  <2>2. \A z \in Vnodes : locks.vnode[z][t] # "free" => z \in R
    BY <1>6, <1>13
  <2> QED  BY <1>3, <1>7, <1>15, <2>1, <2>2, PutBoth
<1> QED  BY <1>1, <1>9, <1>12, <1>14, <1>16 DEF DoneRename
-----------------------------------------------------------------------------
\* What taking a lock changes.
TakesVmnt(m, t, v, mode) ==
    /\ Takes(locks, m, t) /\ m.vnode = locks.vnode /\ m.refs = locks.refs
    /\ \A w \in Volumes : m.vmnt[w][t] = IF w = v THEN mode ELSE locks.vmnt[w][t]

\* Who keeps a thread from a lock.
LEMMA VmntHoldersAre ==
  ASSUME NEW t, NEW v, NEW u
  PROVE  /\ u \in VmntHolders(v, t, "read") <=>
               u \in Threads \ {t} /\ locks.vmnt[v][u] = "excl"
         /\ u \in VmntHolders(v, t, "write") <=>
               u \in Threads \ {t} /\ locks.vmnt[v][u] \in {"write", "excl"}
         /\ u \in VmntHolders(v, t, "excl") <=>
               u \in Threads \ {t} /\ locks.vmnt[v][u] # "free"
BY DEF VmntHolders

LEMMA VnodeHoldersAre ==
  ASSUME NEW t, NEW x, NEW u
  PROVE  /\ u \in VnodeHolders(x, t, "read") <=>
               u \in Threads \ {t} /\ locks.vnode[x][u] \notin {"free", "read"}
         /\ u \in VnodeHolders(x, t, "write") <=>
               u \in Threads \ {t} /\ locks.vnode[x][u] # "free"
BY DEF VnodeHolders

LEMMA VmntFreeMeans ==
  ASSUME NEW t \in Threads, NEW v \in Volumes, NEW mode \in {"read", "write", "excl"},
         VmntFree(v, t, mode)
  PROVE  \/ mode = "excl" /\ \A u \in Threads \ {t} : locks.vmnt[v][u] = "free"
         \/ mode # "excl" /\ \A u \in Threads \ {t} : locks.vmnt[v][u] # "excl"
<1>1. \A u : u \notin VmntHolders(v, t, mode)
  BY DEF VmntFree
<1> QED  BY <1>1, VmntHoldersAre

LEMMA TakeVmnt ==
  ASSUME VfsInv, NEW t \in Threads, NEW v \in Volumes, NEW mode \in {"read", "write", "excl"},
         VmntFree(v, t, mode)
  PROVE  TakesVmnt([locks EXCEPT !.vmnt[v][t] = mode], t, v, mode)
<1>1. PICK m : m = [locks EXCEPT !.vmnt[v][t] = mode]
  OBVIOUS
<1>2. locks \in LockState /\ locks.fault = FALSE
  BY PlaceFacts
<1>3. m \in LockState /\ m.fault = FALSE /\ m.vnode = locks.vnode /\ m.refs = locks.refs
  BY <1>1, <1>2 DEF LockState, Modes
<1>4. \A w \in Volumes : \A u \in Threads : m.vmnt[w][u] =
         IF w = v /\ u = t THEN mode ELSE locks.vmnt[w][u]
  BY <1>1, <1>2 DEF LockState
<1>5. \/ mode = "excl" /\ \A u \in Threads \ {t} : locks.vmnt[v][u] = "free"
      \/ mode # "excl" /\ \A u \in Threads \ {t} : locks.vmnt[v][u] # "excl"
  BY VmntFreeMeans
<1>6. Takes(locks, m, t)
  BY <1>3, <1>4, <1>5 DEF Takes, Others
<1> QED  BY <1>1, <1>3, <1>4, <1>6 DEF TakesVmnt

TakesVnode(m, t, x, mode, n) ==
    /\ Takes(locks, m, t) /\ m.vmnt = locks.vmnt
    /\ \A y \in Vnodes : m.vnode[y][t] = IF y = x THEN mode ELSE locks.vnode[y][t]
    /\ \A y \in Vnodes : m.refs[t][y] = IF y = x THEN locks.refs[t][y] + n ELSE locks.refs[t][y]

LEMMA VnodeFreeMeans ==
  ASSUME NEW t \in Threads, NEW x \in Vnodes, NEW mode \in {"read", "write"},
         VnodeFree(x, t, mode)
  PROVE  \/ mode = "write" /\ \A u \in Threads \ {t} : locks.vnode[x][u] = "free"
         \/ mode # "write" /\ \A u \in Threads \ {t} : locks.vnode[x][u] # "write"
<1>1. \A u : u \notin VnodeHolders(x, t, mode)
  BY DEF VnodeFree
<1> QED  BY <1>1, VnodeHoldersAre

LEMMA TakeVnode ==
  ASSUME VfsInv, NEW t \in Threads, NEW x \in Vnodes, NEW mode \in {"read", "write"},
         VnodeFree(x, t, mode)
  PROVE  TakesVnode([locks EXCEPT !.vnode[x][t] = mode, !.refs[t][x] = @ + 1], t, x, mode, 1)
<1>1. PICK m : m = [locks EXCEPT !.vnode[x][t] = mode, !.refs[t][x] = @ + 1]
  OBVIOUS
<1>2. PICK refs : refs = [locks.refs EXCEPT ![t] = [locks.refs[t] EXCEPT ![x] = locks.refs[t][x] + 1]]
  OBVIOUS
<1>3. locks \in LockState /\ locks.fault = FALSE
  BY PlaceFacts
<1>4. refs \in [Threads -> [Vnodes -> Int]] /\ locks.refs \in [Threads -> [Vnodes -> Int]]
  BY <1>2, <1>3 DEF LockState
<1>5. /\ m.fault = FALSE /\ m.vmnt = locks.vmnt /\ m.refs = refs
  BY <1>1, <1>2, <1>3 DEF LockState
<1>6. m \in LockState
  BY <1>1, <1>2, <1>3, <1>4 DEF LockState, Modes
<1>7. \A y \in Vnodes : \A u \in Threads : m.vnode[y][u] =
         IF y = x /\ u = t THEN mode ELSE locks.vnode[y][u]
  BY <1>1, <1>3 DEF LockState
<1>8. \A y \in Vnodes : \A u \in Threads : m.refs[u][y] =
         IF y = x /\ u = t THEN locks.refs[u][y] + 1 ELSE locks.refs[u][y]
  BY <1>2, <1>4, <1>5
<1>9. Takes(locks, m, t)
  BY <1>5, <1>6, <1>7, <1>8, VnodeFreeMeans DEF Takes, Others
<1> QED  BY <1>1, <1>5, <1>7, <1>8, <1>9 DEF TakesVnode

\* ftruncate takes no reference.
LEMMA TakeFilp ==
  ASSUME VfsInv, NEW t \in Threads, NEW x \in Vnodes, VnodeFree(x, t, "write")
  PROVE  TakesVnode([locks EXCEPT !.vnode[x][t] = "write"], t, x, "write", 0)
<1>1. PICK m : m = [locks EXCEPT !.vnode[x][t] = "write"]
  OBVIOUS
<1>2. locks \in LockState /\ locks.fault = FALSE
  BY PlaceFacts
<1>3. m \in LockState /\ m.fault = FALSE /\ m.vmnt = locks.vmnt /\ m.refs = locks.refs
  BY <1>1, <1>2 DEF LockState, Modes
<1>4. \A y \in Vnodes : \A u \in Threads : m.vnode[y][u] =
         IF y = x /\ u = t THEN "write" ELSE locks.vnode[y][u]
  BY <1>1, <1>2 DEF LockState
<1>5. Takes(locks, m, t)
  BY <1>3, <1>4, VnodeFreeMeans DEF Takes, Others
<1>6. \A y \in Vnodes : locks.refs[t][y] = locks.refs[t][y] + 0
  BY <1>2 DEF LockState
<1> QED  BY <1>1, <1>3, <1>4, <1>5, <1>6 DEF TakesVnode

\* A vnode the thread has locked already is only referred to once more.
LEMMA TakeAgain ==
  ASSUME VfsInv, NEW t \in Threads, NEW x \in Vnodes
  PROVE  TakesVnode([locks EXCEPT !.refs[t][x] = @ + 1], t, x, locks.vnode[x][t], 1)
<1>1. PICK m : m = [locks EXCEPT !.refs[t][x] = @ + 1]
  OBVIOUS
<1>2. PICK refs : refs = [locks.refs EXCEPT ![t] = [locks.refs[t] EXCEPT ![x] = locks.refs[t][x] + 1]]
  OBVIOUS
<1>3. locks \in LockState /\ locks.fault = FALSE
  BY PlaceFacts
<1>4. refs \in [Threads -> [Vnodes -> Int]] /\ locks.refs \in [Threads -> [Vnodes -> Int]]
  BY <1>2, <1>3 DEF LockState
<1>5. m.fault = FALSE /\ m.vmnt = locks.vmnt /\ m.vnode = locks.vnode /\ m.refs = refs
  BY <1>1, <1>2, <1>3 DEF LockState
<1>6. m \in LockState
  BY <1>1, <1>2, <1>3, <1>4 DEF LockState
<1>7. \A y \in Vnodes : \A u \in Threads : m.refs[u][y] =
         IF y = x /\ u = t THEN locks.refs[u][y] + 1 ELSE locks.refs[u][y]
  BY <1>2, <1>4, <1>5
<1>8. Takes(locks, m, t)
  BY <1>5, <1>6, <1>7 DEF Takes, Others
<1> QED  BY <1>1, <1>5, <1>7, <1>8 DEF TakesVnode
-----------------------------------------------------------------------------
\* A call goes on to place a, and looks for w.
Move(p, a, w) == [p EXCEPT !.at = a, !.wanted = w]

Moved(p, q, a, w) ==
    /\ q \in ThreadState /\ q.at = a /\ q.wanted = w
    /\ q.call = p.call /\ q.vp = p.vp /\ q.vmp = p.vmp /\ q.vp2 = p.vp2
    /\ q.vmp2 = p.vmp2 /\ q.vp2_l = p.vp2_l /\ q.length = p.length

LEMMA MoveFacts ==
  ASSUME NEW p \in ThreadState, NEW a \in Places, NEW w \in Vnodes \cup {NULL}
  PROVE  Moved(p, Move(p, a, w), a, w)
BY DEF Moved, Move, ThreadState

LEMMA GoToMoves ==
  ASSUME VfsInv, NEW t \in Threads, NEW a \in Places, GoTo(t, a)
  PROVE  thread' = [thread EXCEPT ![t] = Move(thread[t], a, thread[t].wanted)]
<1>1. PICK p : p = thread[t]
  OBVIOUS
<1>2. p \in ThreadState /\ thread \in [Threads -> ThreadState]
  BY <1>1, PlaceFacts DEF VfsInv
<1>3. [p EXCEPT !.at = a] = Move(p, a, p.wanted)
  BY <1>2 DEF Move, ThreadState
<1>4. thread' = [thread EXCEPT ![t] = [p EXCEPT !.at = a]]
  BY <1>1, <1>2 DEF GoTo
<1> QED  BY <1>1, <1>3, <1>4

\* What a thread holds depends on its call and what it has found, and it has
\* let go of things, or is alone, only at certain places.
LEMMA HoldsMoved ==
  ASSUME VfsInv, NEW t \in Threads, NEW q, LetGo(q) <=> LetGo(thread[t]),
         q.call = thread[t].call, q.vp = thread[t].vp, q.vmp = thread[t].vmp,
         q.vp2 = thread[t].vp2, q.vmp2 = thread[t].vmp2, q.vp2_l = thread[t].vp2_l,
         NEW g, HoldsGrants(q, g, t),
         q.call \in {"unlink", "rename"} /\ q.at \in {"ready", "fs"} =>
            thread[t].at \in {"ready", "fs"}
  PROVE  Holds(q, locks, g, t)
<1>1. PICK p : p = thread[t]
  OBVIOUS
<1>2. HoldsVmnt(q, locks, t)
  BY PlaceFacts DEF HoldsVmnt
<1>3. HoldsVnode(q, locks, t)
  BY PlaceFacts DEF HoldsVnode
<1>4. HoldsRefs(q, locks, t)
  BY PlaceFacts DEF HoldsRefs
<1>5. HoldsAlone(q, locks, t)
  BY PlaceFacts DEF HoldsAlone
<1> QED  BY <1>2, <1>3, <1>4, <1>5 DEF Holds

LEMMA GrantFacts ==
  ASSUME VfsInv, NEW t \in Threads
  PROVE  /\ grants[t] \in Int /\ grants = [grants EXCEPT ![t] = grants[t]]
         /\ LookupGrants(t) \in Int
         /\ \A call : RequestGrants(call) \in Int
         /\ thread[t].at \in {"lookup", "lookup2", "stickylookup"} => grants[t] = LookupGrants(t)
         /\ thread[t].at = "fs" => grants[t] = RequestGrants(thread[t].call)
         /\ thread[t].at \notin {"lookup", "lookup2", "stickylookup", "fs"} => grants[t] = 0
<1>1. grants \in [Threads -> Int]
  BY DEF VfsInv
<1>2. LookupGrants(t) \in Int /\ \A call : RequestGrants(call) \in Int
  BY DEF LookupGrants, RequestGrants
<1>3. HoldsGrants(thread[t], grants[t], t)
  BY PlaceFacts
<1> QED  BY <1>1, <1>2, <1>3 DEF HoldsGrants

\* A call moves on to a place without a request, and has nothing granted.
LEMMA MoveStep ==
  ASSUME VfsInv, NEW t \in Threads, NEW a \in Places, NEW w \in Vnodes \cup {NULL},
         thread' = [thread EXCEPT ![t] = Move(thread[t], a, w)],
         Shape(Move(thread[t], a, w)),
         grants' = [grants EXCEPT ![t] = 0],
         a \notin {"truncated", "lookup", "lookup2", "stickylookup", "fs", "ready"},
         thread[t].at # "truncated", ~LetGo(thread[t]),
         UNCHANGED <<locks, v_size, size>>
  PROVE  VfsInv'
<1>1. PICK q : q = Move(thread[t], a, w)
  OBVIOUS
<1>2. Moved(thread[t], q, a, w)
  BY <1>1, PlaceFacts, MoveFacts
<1>3. HoldsGrants(q, 0, t) /\ ~LetGo(q)
  BY <1>2 DEF HoldsGrants, LetGo, Moved
<1>4. Holds(q, locks, 0, t)
  BY <1>2, <1>3, HoldsMoved DEF Moved
<1>5. q.at # "truncated" /\ 0 \in Int
  BY <1>2 DEF Moved
<1>6. thread' = [thread EXCEPT ![t] = q] /\ Shape(q)
  BY <1>1
<1> QED  BY <1>4, <1>5, <1>6, GoStep

\* A call asks a file server to walk a path.
LEMMA AskPathStep ==
  ASSUME VfsInv, NEW t \in Threads, NEW a \in {"lookup2", "stickylookup"},
         NEW w \in Vnodes \cup {NULL},
         thread' = [thread EXCEPT ![t] = Move(thread[t], a, w)],
         Shape(Move(thread[t], a, w)),
         grants' = [grants EXCEPT ![t] = LookupGrants(t)],
         thread[t].at # "truncated", ~LetGo(thread[t]),
         UNCHANGED <<locks, v_size, size>>
  PROVE  VfsInv'
<1>1. PICK q : q = Move(thread[t], a, w)
  OBVIOUS
<1>2. Moved(thread[t], q, a, w)
  <2>1. a \in Places
    BY DEF Places
  <2> QED  BY <1>1, <2>1, PlaceFacts, MoveFacts
<1>3. HoldsGrants(q, LookupGrants(t), t) /\ ~LetGo(q)
  BY <1>2 DEF HoldsGrants, LetGo, Moved
<1>4. Holds(q, locks, LookupGrants(t), t)
  BY <1>2, <1>3, HoldsMoved DEF Moved
<1>5. q.at # "truncated" /\ LookupGrants(t) \in Int
  BY <1>2, GrantFacts DEF Moved
<1>6. thread' = [thread EXCEPT ![t] = q] /\ Shape(q)
  BY <1>1
<1> QED  BY <1>4, <1>5, <1>6, GoStep

\* A call makes its request, at "found", "found2" or "ready".
LEMMA RequestStep ==
  ASSUME VfsInv, NEW t \in Threads, NEW n, n = RequestGrants(thread[t].call),
         thread[t].at \in {"found", "found2", "ready"},
         GoTo(t, "fs"), grants' = [grants EXCEPT ![t] = @ + n],
         Shape(Move(thread[t], "fs", NULL)),
         thread[t].call \in {"unlink", "rename"} => thread[t].at = "ready",
         thread[t].call = "report" => thread[t].at = "ready",
         UNCHANGED <<locks, v_size, size>>
  PROVE  VfsInv'
<1>1. PICK q : q = Move(thread[t], "fs", NULL)
  OBVIOUS
<1>2. thread[t].wanted = NULL
  BY PlaceFacts DEF Shape
<1>3. "fs" \in Places
  BY DEF Places
<1>4. thread' = [thread EXCEPT ![t] = q] /\ Shape(q)
  BY <1>1, <1>2, <1>3, GoToMoves
<1>5. Moved(thread[t], q, "fs", NULL)
  BY <1>1, <1>3, PlaceFacts, MoveFacts
<1>6. n \in Int /\ grants[t] = 0
  BY GrantFacts
<1>7. grants[t] + n = n
  BY <1>6
<1>8. grants' = [grants EXCEPT ![t] = n]
  BY <1>7
<1>9. HoldsGrants(q, n, t)
  BY <1>5 DEF HoldsGrants, Moved
<1>10. LetGo(q) <=> LetGo(thread[t])
  BY <1>5 DEF LetGo, Moved
<1>11. Holds(q, locks, n, t)
  BY <1>5, <1>9, <1>10, HoldsMoved DEF Moved
<1>12. q.at # "truncated" /\ thread[t].at # "truncated"
  BY <1>5 DEF Moved
<1> QED  BY <1>4, <1>6, <1>11, <1>12, <1>8, GoStep

\* The answer has come and the call returns.
LEMMA AnswerStep ==
  ASSUME VfsInv, NEW t \in Threads, NEW n, n = RequestGrants(thread[t].call),
         thread[t].at = "fs", NEW l, Return(t, l), Freed(l, t),
         grants' = [grants EXCEPT ![t] = @ - n], UNCHANGED <<v_size, size>>
  PROVE  VfsInv'
<1>1. n \in Int /\ grants[t] = n
  BY GrantFacts
<1>2. grants[t] - n = 0
  BY <1>1
<1>3. grants' = [grants EXCEPT ![t] = 0]
  BY <1>2
<1> QED  BY <1>3, ReturnStep
-----------------------------------------------------------------------------
\* The steps that several calls have.
LEMMA MoveShape ==
  ASSUME NEW p, Shape(p), p.call \in Calls \ {"ftruncate"}, p.vp # NULL,
         NEW a \in {"found", "stickylookup", "sticky", "mine", "vmnt2", "lookup2", "vnode2",
                    "found2", "checked", "ready", "fs"},
         NEW w \in Vnodes \cup {NULL},
         w = NULL <=> a \notin {"stickylookup", "sticky", "vmnt2", "lookup2", "vnode2"},
         p.vp2 = NULL <=> ~(/\ p.call \in {"link", "rename"}
                            /\ a \in {"found2", "checked", "ready", "fs"}),
         p.vmp2 # NULL => a \in {"lookup2", "vnode2", "found2", "checked", "ready", "fs"},
         p.call = "link" => w \notin Files,
         p.call = "truncate" => a # "fs"
  PROVE  Shape(Move(p, a, w))
<1>1. PICK q : q = Move(p, a, w)
  OBVIOUS
<1>2. Moved(p, q, a, w)
  BY <1>1, MoveFacts DEF Places, Shape
<1>3. Shape(q)
  <2>1. q \in ThreadState /\ q.at # "idle" /\ q.call \in Calls
    BY <1>2 DEF Moved
  <2>2. /\ q.vp = NULL <=> q.at \in {"idle", "vmnt", "filp", "lookup", "vnode"}
        /\ q.vmp = NULL <=> q.at \in {"idle", "vmnt", "filp"} \/ q.call = "ftruncate"
    BY <1>2 DEF Moved, Shape
  <2>3. /\ q.call # "ftruncate" /\ q.at # "filp" /\ q.at \notin {"lookup", "vnode"}
        /\ q.vmp = VolumeOf[q.vp]
    BY <1>2 DEF Moved, Shape
  <2>4. q.wanted = NULL <=> q.at \notin {"vmnt", "filp", "lookup", "vnode", "stickylookup",
                                         "sticky", "vmnt2", "lookup2", "vnode2"}
    BY <1>2 DEF Moved
  <2>5. q.vp2_l = IF q.vp2 = q.vp THEN NULL ELSE q.vp2
    BY <1>2 DEF Moved, Shape
  <2>6. q.vp2 = NULL <=> ~(/\ q.call \in {"link", "rename"}
                           /\ q.at \in {"found2", "checked", "ready", "fs"})
    BY <1>2 DEF Moved
  <2>7. q.vmp2 # NULL => /\ q.vmp2 # q.vmp /\ q.call \in {"link", "rename"}
                         /\ q.at \in {"lookup2", "vnode2", "found2", "checked", "ready", "fs"}
    BY <1>2 DEF Moved, Shape
  <2>8. q.call = "link" => q.vp \in Files /\ q.wanted \notin Files /\ q.vp2 \notin Files
    <3>1. p.at # "idle"
      BY DEF Shape
    <3> QED  BY <1>2, <3>1 DEF Moved, Shape
  <2>9. q.at # "truncated" /\ ~(q.call \in {"truncate", "ftruncate"} /\ q.at = "fs")
    BY <1>2 DEF Moved
  <2> QED  BY <1>2, <2>1, <2>2, <2>3, <2>4, <2>5, <2>6, <2>7, <2>8, <2>9 DEF Shape, Moved
<1> QED  BY <1>1, <1>3

LEMMA RefuseStep ==
  ASSUME VfsInv, NEW t \in Threads, thread[t].at \in {"found", "mine"},
         thread[t].call # "ftruncate", Refuse(t, Done(t))
  PROVE  VfsInv'
<1>1. thread[t].vp # NULL /\ thread[t].vp2 = NULL /\ thread[t].vmp2 = NULL
  BY PlaceFacts DEF Shape
<1>2. Freed(Done(t), t)
  BY <1>1, DoneFreed DEF LetGo
<1>3. grants' = [grants EXCEPT ![t] = 0]
  BY GrantFacts DEF Refuse
<1>4. Return(t, Done(t)) /\ UNCHANGED <<v_size, size>>
  BY DEF Refuse
<1> QED  BY <1>2, <1>3, <1>4, ReturnStep

LEMMA SecondNameStep ==
  ASSUME VfsInv, NEW t \in Threads, thread[t].at \in {"found", "mine"},
         thread[t].call \in {"link", "rename"}, SecondName(t)
  PROVE  VfsInv'
<1>1. PICK x \in Dirs : thread' = [thread EXCEPT ![t].at = "vmnt2", ![t].wanted = x]
  BY DEF SecondName
<1>2. x \in Vnodes /\ x # NULL /\ x \notin Files
  BY VfsAssumption DEF Vnodes
<1>3. thread' = [thread EXCEPT ![t] = Move(thread[t], "vmnt2", x)]
  BY <1>1 DEF VfsInv, Move
<1>4. thread[t].vp # NULL /\ thread[t].vp2 = NULL /\ thread[t].vmp2 = NULL
  BY PlaceFacts DEF Shape
<1>5. Shape(Move(thread[t], "vmnt2", x))
  BY <1>2, <1>4, PlaceFacts, MoveShape DEF Calls
<1>6. grants' = [grants EXCEPT ![t] = 0]
  BY GrantFacts DEF SecondName
<1>7. UNCHANGED <<locks, v_size, size>>
  BY DEF SecondName
<1>8. "vmnt2" \in Places
  BY DEF Places
<1> QED  BY <1>2, <1>3, <1>5, <1>6, <1>7, <1>8, MoveStep DEF LetGo

LEMMA CheckedStep ==
  ASSUME VfsInv, NEW t \in Threads, Checked(t),
         \/ thread[t].call = "unlink" /\ thread[t].at = "found"
         \/ thread[t].call = "rename" /\ thread[t].at = "found2"
  PROVE  VfsInv'
<1>1. /\ thread[t].vp # NULL /\ thread[t].wanted = NULL
      /\ thread[t].call = "unlink" <=> thread[t].vp2 = NULL
      /\ thread[t].call = "unlink" => thread[t].vmp2 = NULL
  BY PlaceFacts DEF Shape
<1>2. "checked" \in Places
  BY DEF Places
<1>3. Shape(Move(thread[t], "checked", NULL))
  BY <1>1, PlaceFacts, MoveShape DEF Calls
<1>4. thread' = [thread EXCEPT ![t] = Move(thread[t], "checked", NULL)]
  BY <1>1, <1>2, GoToMoves DEF Checked
<1>5. grants' = [grants EXCEPT ![t] = 0] /\ UNCHANGED <<locks, v_size, size>>
  BY GrantFacts DEF Checked
<1> QED  BY <1>2, <1>3, <1>4, <1>5, MoveStep DEF LetGo
LEMMA UpgradeStep ==
  ASSUME VfsInv, NEW t \in Threads, thread[t].call \in {"unlink", "rename"},
         thread[t].at = "checked", upgrade_vmnt_lock(t)
  PROVE  VfsInv'
<1>1. PICK p : p = thread[t]
  OBVIOUS
<1>2. /\ Shape(p) /\ p \in ThreadState /\ HoldsVmnt(p, locks, t) /\ HoldsVnode(p, locks, t)
      /\ HoldsRefs(p, locks, t) /\ HoldsAlone(p, locks, t)
  BY <1>1, PlaceFacts
<1>3. /\ p.vp # NULL /\ p.wanted = NULL /\ p.vmp \in Volumes
      /\ p.call = "unlink" <=> p.vp2 = NULL
      /\ p.call = "unlink" => p.vmp2 = NULL
  BY <1>1, <1>2 DEF Shape, ThreadState
<1>4. PICK q : q = Move(p, "ready", NULL)
  OBVIOUS
<1>5. Moved(p, q, "ready", NULL)
  BY <1>2, <1>4, MoveFacts DEF Places
<1>6. Shape(q)
  BY <1>1, <1>2, <1>3, <1>4, MoveShape DEF Calls
<1>7. thread' = [thread EXCEPT ![t] = q]
  <2>1. "ready" \in Places
    BY DEF Places
  <2> QED  BY <1>1, <1>3, <1>4, <2>1, GoToMoves DEF upgrade_vmnt_lock
<1>8. TakesVmnt(locks', t, p.vmp, "excl")
  <2>1. VmntFree(p.vmp, t, "excl") /\ locks' = [locks EXCEPT !.vmnt[p.vmp][t] = "excl"]
    BY <1>1 DEF upgrade_vmnt_lock
  <2> QED  BY <1>3, <2>1, TakeVmnt
<1>9. Takes(locks, locks', t)
  BY <1>8 DEF TakesVmnt
<1>10. ~LetGo(p) /\ ~LetGo(q)
  BY <1>1, <1>5 DEF LetGo, Moved
<1>11. HoldsVmnt(q, locks', t)
  BY <1>2, <1>5, <1>8, <1>10 DEF HoldsVmnt, TakesVmnt, Moved
<1>12. HoldsVnode(q, locks', t) /\ HoldsRefs(q, locks', t)
  BY <1>2, <1>5, <1>8, <1>10 DEF HoldsVnode, HoldsRefs, TakesVmnt, Moved
<1>13. HoldsGrants(q, 0, t)
  BY <1>5 DEF HoldsGrants, Moved
<1>14. HoldsAlone(q, locks', t)
  BY <1>1, <1>3, <1>5, <1>8 DEF HoldsAlone, TakesVmnt, Moved
<1>15. Holds(q, locks', 0, t)
  BY <1>11, <1>12, <1>13, <1>14 DEF Holds
<1>16. grants' = [grants EXCEPT ![t] = 0] /\ UNCHANGED <<v_size, size>> /\ 0 \in Int
  BY GrantFacts DEF upgrade_vmnt_lock
<1>17. thread[t].at # "truncated" /\ q.at # "truncated"
  BY <1>5 DEF Moved
<1> QED  BY <1>6, <1>7, <1>9, <1>15, <1>16, <1>17, LocalStep

LEMMA StickyStep ==
  ASSUME VfsInv, NEW t \in Threads, NEW next,
         \/ thread[t].call = "unlink" /\ next = "checked"
         \/ thread[t].call = "rename" /\ next = "mine",
         StickyCheck(t, next)
  PROVE  VfsInv'
<1> DEFINE p == thread[t]
<1>1. p.call \in Calls \ {"ftruncate"} /\ p.call \notin {"link", "truncate", "report"}
  BY DEF Calls
<1>2. p.call = "rename" <=> next = "mine"
  OBVIOUS
<1>3. ASSUME NEW y \in Vnodes, p.at = "found", thread' = [thread EXCEPT ![t].at = "stickylookup", ![t].wanted = y],
             grants' = [grants EXCEPT ![t] = LookupGrants(t)], UNCHANGED <<locks, v_size, size>>
      PROVE  VfsInv'
  <2>1. thread' = [thread EXCEPT ![t] = Move(p, "stickylookup", y)]
    BY <1>3 DEF VfsInv, Move
  <2>2. p.vp # NULL /\ p.vp2 = NULL /\ p.vmp2 = NULL /\ y # NULL
    BY <1>3, PlaceFacts DEF Shape
  <2>3. Shape(Move(p, "stickylookup", y))
    BY <1>1, <2>2, PlaceFacts, MoveShape
  <2> QED  BY <1>3, <1>1, <2>1, <2>3, AskPathStep DEF LetGo
<1>4. ASSUME p.at \in {"stickylookup", "sticky"}
      PROVE  /\ p.vp # NULL /\ p.vp2 = NULL /\ p.vmp2 = NULL /\ ~LetGo(p)
             /\ p.wanted # NULL /\ p.wanted \in Vnodes /\ Freed(Done(t), t)
  <2>1. /\ p.vp # NULL /\ p.vp2 = NULL /\ p.vmp2 = NULL
        /\ p.wanted # NULL /\ p.wanted \in Vnodes
    BY <1>4, PlaceFacts DEF Shape, ThreadState
  <2>2. ~LetGo(p)
    BY <1>1 DEF LetGo
  <2> QED  BY <1>1, <2>1, <2>2, DoneFreed
<1>5. CASE p.at = "stickylookup" /\ req_lookup(t, "sticky", Done(t))
  <2>1. grants' = [grants EXCEPT ![t] = 0]
    <3>1. grants[t] = LookupGrants(t) /\ LookupGrants(t) \in Int
      BY <1>5, GrantFacts
    <3>2. grants[t] - LookupGrants(t) = 0
      BY <3>1
    <3> QED  BY <1>5, <3>2 DEF req_lookup
  <2>2. CASE GoTo(t, "sticky") /\ UNCHANGED locks
    <3>1. "sticky" \in Places
      BY DEF Places
    <3>2. Shape(Move(p, "sticky", p.wanted))
      BY <1>1, <1>4, <1>5, PlaceFacts, MoveShape
    <3>3. thread' = [thread EXCEPT ![t] = Move(p, "sticky", p.wanted)]
      BY <2>2, <3>1, GoToMoves
    <3>4. UNCHANGED <<locks, v_size, size>> /\ p.at # "truncated"
      BY <1>5, <2>2 DEF req_lookup
    <3> QED  BY <1>4, <1>5, <2>1, <3>1, <3>2, <3>3, <3>4, MoveStep
  <2>3. CASE Return(t, Done(t))
    <3>1. UNCHANGED <<v_size, size>> /\ p.at # "truncated"
      BY <1>5 DEF req_lookup
    <3> QED  BY <1>4, <1>5, <2>1, <2>3, <3>1, ReturnStep
  <2> QED  BY <1>5, <2>2, <2>3 DEF req_lookup
<1>6. ASSUME p.at = "sticky", UNCHANGED <<grants, v_size, size>>,
             \/ thread' = [thread EXCEPT ![t].at = next, ![t].wanted = NULL] /\ UNCHANGED locks
             \/ Return(t, Done(t))
      PROVE  VfsInv'
  <2>1. grants' = [grants EXCEPT ![t] = 0]
    BY <1>6, GrantFacts
  <2>2. CASE thread' = [thread EXCEPT ![t].at = next, ![t].wanted = NULL] /\ UNCHANGED locks
    <3>1. thread' = [thread EXCEPT ![t] = Move(p, next, NULL)]
      BY <2>2 DEF VfsInv, Move
    <3>2. Shape(Move(p, next, NULL))
      BY <1>1, <1>2, <1>4, <1>6, PlaceFacts, MoveShape
    <3>3. next \in Places /\ next \notin {"truncated", "lookup", "lookup2", "stickylookup", "fs", "ready"}
      BY DEF Places
    <3>4. UNCHANGED <<locks, v_size, size>> /\ p.at # "truncated"
      BY <1>6, <2>2
    <3> QED  BY <1>4, <1>6, <2>1, <3>1, <3>2, <3>3, <3>4, MoveStep
  <2>3. CASE Return(t, Done(t))
    BY <1>4, <1>6, <2>1, <2>3, ReturnStep
  <2> QED  BY <1>6, <2>2, <2>3
<1> QED  BY <1>3, <1>5, <1>6 DEF StickyCheck

\* A first path.
LEMMA FirstPathStep ==
  ASSUME VfsInv, NEW t \in Threads, thread[t].call \in Calls \ {"ftruncate"},
         NEW vmntLock \in {"read", "write"}, NEW vnodeLock \in {"read", "write"},
         thread[t].call = "truncate" => vnodeLock = "write",
         FirstPath(t, vmntLock, vnodeLock)
  PROVE  VfsInv'
<1>1. PICK p : p = thread[t]
  OBVIOUS
<1>2. PICK x : x = p.wanted
  OBVIOUS
<1>3. PICK v : v = VolumeOf[x]
  OBVIOUS
<1>4. /\ Shape(p) /\ p \in ThreadState /\ HoldsVmnt(p, locks, t) /\ HoldsVnode(p, locks, t)
      /\ HoldsRefs(p, locks, t) /\ VolumeOf \in [Vnodes -> Volumes]
      /\ NULL \notin Vnodes /\ NULL \notin Volumes
  BY <1>1, PlaceFacts
<1>5. ASSUME p.at \in {"vmnt", "lookup", "vnode"}
      PROVE  /\ p.vp = NULL /\ p.vp2 = NULL /\ p.vmp2 = NULL /\ p.vp2_l = NULL
             /\ x \in Vnodes /\ v \in Volumes /\ ~LetGo(p)
             /\ p.at = "vmnt" => p.vmp = NULL
             /\ p.at # "vmnt" => p.vmp = v
             /\ p.call = "link" => x \in Files
  BY <1>1, <1>2, <1>3, <1>4, <1>5 DEF Shape, ThreadState, LetGo
<1>6. CASE /\ p.at = "vmnt" /\ VmntFree(v, t, vmntLock)
           /\ locks' = [locks EXCEPT !.vmnt[v][t] = vmntLock]
           /\ thread' = [thread EXCEPT ![t].at = "lookup", ![t].vmp = v]
           /\ grants' = [grants EXCEPT ![t] = LookupGrants(t)]
           /\ UNCHANGED <<v_size, size>>
  <2>1. PICK q : q = [p EXCEPT !.at = "lookup", !.vmp = v]
    OBVIOUS
  <2>2. /\ q \in ThreadState /\ q.at = "lookup" /\ q.wanted = x /\ q.call = p.call
        /\ q.vp = NULL /\ q.vmp = v /\ q.vp2 = NULL /\ q.vmp2 = NULL /\ q.vp2_l = NULL
    BY <1>2, <1>4, <1>5, <1>6, <2>1 DEF ThreadState, Places
  <2>3. thread' = [thread EXCEPT ![t] = q]
    BY <1>1, <1>6, <2>1 DEF VfsInv
  <2>4. Shape(q)
    BY <1>1, <1>3, <1>4, <1>5, <1>6, <2>2 DEF Shape
  <2>5. TakesVmnt(locks', t, v, vmntLock)
    BY <1>5, <1>6, TakeVmnt
  <2>6. Takes(locks, locks', t)
    BY <2>5 DEF TakesVmnt
  <2>7. ~LetGo(q)
    BY <2>2 DEF LetGo
  <2>8. HoldsVmnt(q, locks', t)
    BY <1>4, <1>5, <1>6, <2>2, <2>5, <2>7 DEF HoldsVmnt, TakesVmnt
  <2>9. HoldsVnode(q, locks', t) /\ HoldsRefs(q, locks', t)
    BY <1>4, <1>5, <1>6, <2>2, <2>5, <2>7 DEF HoldsVnode, HoldsRefs, TakesVmnt
  <2>10. HoldsGrants(q, LookupGrants(t), t) /\ HoldsAlone(q, locks', t)
    BY <2>2 DEF HoldsGrants, HoldsAlone
  <2>11. Holds(q, locks', LookupGrants(t), t)
    BY <2>8, <2>9, <2>10 DEF Holds
  <2>12. LookupGrants(t) \in Int
    BY GrantFacts
  <2>13. thread[t].at # "truncated" /\ q.at # "truncated"
    BY <1>1, <1>6, <2>2
  <2> QED  BY <1>6, <2>3, <2>4, <2>6, <2>11, <2>12, <2>13, LocalStep
<1>7. CASE p.at = "lookup" /\ req_lookup(t, "vnode", unlock_vmnt(locks, t, v))
  <2>1. grants' = [grants EXCEPT ![t] = 0]
    <3>1. grants[t] = LookupGrants(t) /\ LookupGrants(t) \in Int
      BY <1>1, <1>7, GrantFacts
    <3>2. grants[t] - LookupGrants(t) = 0
      BY <3>1
    <3> QED  BY <1>7, <3>2 DEF req_lookup
  <2>2. UNCHANGED <<v_size, size>> /\ thread[t].at # "truncated"
    BY <1>1, <1>7 DEF req_lookup
  <2>3. CASE GoTo(t, "vnode") /\ UNCHANGED locks
    <3>1. "vnode" \in Places
      BY DEF Places
    <3>2. PICK q : q = Move(p, "vnode", x)
      OBVIOUS
    <3>3. Moved(p, q, "vnode", x)
      BY <1>4, <1>5, <1>7, <3>1, <3>2, MoveFacts
    <3>4. Shape(q)
      BY <1>1, <1>3, <1>4, <1>5, <1>7, <3>3 DEF Shape, Moved
    <3>5. thread' = [thread EXCEPT ![t] = Move(p, "vnode", x)]
      BY <1>1, <1>2, <2>3, <3>1, GoToMoves
    <3> QED  BY <1>1, <1>5, <1>7, <2>1, <2>2, <2>3, <3>1, <3>2, <3>4, <3>5, MoveStep
  <2>4. CASE Return(t, unlock_vmnt(locks, t, v))
    <3>1. Freed(unlock_vmnt(locks, t, v), t)
      BY <1>1, <1>2, <1>3, <1>7, LookupFreed
    <3> QED  BY <2>1, <2>2, <2>4, <3>1, ReturnStep
  <2> QED  BY <1>7, <2>3, <2>4 DEF req_lookup
<1>8. CASE /\ p.at = "vnode" /\ VnodeFree(x, t, vnodeLock)
           /\ locks' = [locks EXCEPT !.vnode[x][t] = vnodeLock, !.refs[t][x] = @ + 1]
           /\ thread' = [thread EXCEPT ![t].at = "found", ![t].vp = x, ![t].wanted = NULL]
           /\ UNCHANGED <<grants, v_size, size>>
  <2>1. PICK q : q = [p EXCEPT !.at = "found", !.vp = x, !.wanted = NULL]
    OBVIOUS
  <2>2. /\ q \in ThreadState /\ q.at = "found" /\ q.wanted = NULL /\ q.call = p.call
        /\ q.vp = x /\ q.vmp = v /\ q.vp2 = NULL /\ q.vmp2 = NULL /\ q.vp2_l = NULL
    BY <1>4, <1>5, <1>8, <2>1 DEF ThreadState, Places
  <2>3. thread' = [thread EXCEPT ![t] = q]
    BY <1>1, <1>8, <2>1 DEF VfsInv
  <2>4. Shape(q)
    BY <1>1, <1>3, <1>4, <1>5, <1>8, <2>2, VfsAssumption DEF Shape, Vnodes
  <2>5. TakesVnode(locks', t, x, vnodeLock, 1)
    BY <1>5, <1>8, TakeVnode
  <2>6. Takes(locks, locks', t)
    BY <2>5 DEF TakesVnode
  <2>7. ~LetGo(q)
    BY <2>2 DEF LetGo
  <2>8. HoldsVmnt(q, locks', t)
    BY <1>4, <1>5, <1>8, <2>2, <2>5, <2>7 DEF HoldsVmnt, TakesVnode
  <2>9. HoldsVnode(q, locks', t)
    BY <1>4, <1>5, <1>8, <2>2, <2>5, <2>7 DEF HoldsVnode, TakesVnode
  <2>10. HoldsRefs(q, locks', t)
    BY <1>1, <1>4, <1>5, <1>8, <2>2, <2>5, <2>7 DEF HoldsRefs, TakesVnode
  <2>11. HoldsGrants(q, 0, t)
    BY <2>2 DEF HoldsGrants
  <2>12. HoldsAlone(q, locks', t)
    BY <1>1, <1>5, <1>8, <2>2, <2>5 DEF HoldsAlone, TakesVnode
  <2>13. Holds(q, locks', 0, t)
    BY <2>8, <2>9, <2>10, <2>11, <2>12 DEF Holds
  <2>14. grants' = [grants EXCEPT ![t] = 0] /\ 0 \in Int
    BY <1>1, <1>8, GrantFacts
  <2>15. thread[t].at # "truncated" /\ q.at # "truncated"
    BY <1>1, <1>8, <2>2
  <2> QED  BY <1>8, <2>3, <2>4, <2>6, <2>13, <2>14, <2>15, LocalStep
<1> QED  BY <1>1, <1>2, <1>3, <1>6, <1>7, <1>8 DEF FirstPath

\* A second path.
LEMMA SecondPathStep ==
  ASSUME VfsInv, NEW t \in Threads, thread[t].call \in {"link", "rename"},
         SecondPath(t, "read", "write", Done(t))
  PROVE  VfsInv'
<1>1. PICK p : p = thread[t]
  OBVIOUS
<1>2. PICK x : x = p.wanted
  OBVIOUS
<1>3. PICK v : v = VolumeOf[x]
  OBVIOUS
<1>4. /\ Shape(p) /\ p \in ThreadState /\ HoldsVmnt(p, locks, t) /\ HoldsVnode(p, locks, t)
      /\ HoldsRefs(p, locks, t) /\ VolumeOf \in [Vnodes -> Volumes]
      /\ NULL \notin Vnodes /\ NULL \notin Volumes
  BY <1>1, PlaceFacts
<1>5. ASSUME p.at \in {"vmnt2", "lookup2", "vnode2"}
      PROVE  /\ p.vp \in Vnodes /\ p.vp2 = NULL /\ p.vp2_l = NULL
             /\ x \in Vnodes /\ v \in Volumes
             /\ p.at = "vmnt2" => p.vmp2 = NULL
             /\ p.call = "link" => x \notin Files
  BY <1>1, <1>2, <1>3, <1>4, <1>5 DEF Shape, ThreadState
<1>6. p.call \in Calls \ {"ftruncate", "truncate"} /\ ~LetGo(p)
  BY <1>1 DEF Calls, LetGo
<1>7. CASE /\ p.at = "vmnt2" /\ GoTo(t, "lookup2") /\ UNCHANGED <<locks, v_size, size>>
           /\ grants' = [grants EXCEPT ![t] = LookupGrants(t)]
  <2>1. Shape(Move(p, "lookup2", x))
    BY <1>4, <1>5, <1>6, <1>7, MoveShape
  <2>2. "lookup2" \in Places
    BY DEF Places
  <2>3. thread' = [thread EXCEPT ![t] = Move(p, "lookup2", x)]
    BY <1>1, <1>2, <1>7, <2>2, GoToMoves
  <2> QED  BY <1>1, <1>5, <1>6, <1>7, <2>1, <2>3, AskPathStep
<1>8. CASE /\ p.at = "vmnt2" /\ locks.vmnt[v][t] = "free" /\ VmntFree(v, t, "read")
           /\ locks' = [locks EXCEPT !.vmnt[v][t] = "read"]
           /\ thread' = [thread EXCEPT ![t].at = "lookup2", ![t].vmp2 = v]
           /\ grants' = [grants EXCEPT ![t] = LookupGrants(t)]
           /\ UNCHANGED <<v_size, size>>
  <2>1. PICK q : q = [p EXCEPT !.at = "lookup2", !.vmp2 = v]
    OBVIOUS
  <2>2. /\ q \in ThreadState /\ q.at = "lookup2" /\ q.wanted = x /\ q.call = p.call
        /\ q.vp = p.vp /\ q.vmp = p.vmp /\ q.vp2 = NULL /\ q.vmp2 = v /\ q.vp2_l = NULL
    BY <1>2, <1>4, <1>5, <1>8, <2>1 DEF ThreadState, Places
  <2>3. thread' = [thread EXCEPT ![t] = q]
    BY <1>1, <1>8, <2>1 DEF VfsInv
  <2>4. v # p.vmp
    BY <1>4, <1>5, <1>6, <1>8 DEF HoldsVmnt
  <2>5. Shape(q)
    BY <1>1, <1>4, <1>5, <1>6, <1>8, <2>2, <2>4 DEF Shape
  <2>6. TakesVmnt(locks', t, v, "read")
    BY <1>5, <1>8, TakeVmnt
  <2>7. Takes(locks, locks', t)
    BY <2>6 DEF TakesVmnt
  <2>8. ~LetGo(q)
    BY <2>2 DEF LetGo
  <2>9. HoldsVmnt(q, locks', t)
    BY <1>4, <1>5, <1>6, <1>8, <2>2, <2>6, <2>8 DEF HoldsVmnt, TakesVmnt
  <2>10. HoldsVnode(q, locks', t) /\ HoldsRefs(q, locks', t)
    BY <1>4, <1>5, <1>6, <1>8, <2>2, <2>6, <2>8 DEF HoldsVnode, HoldsRefs, TakesVmnt
  <2>11. HoldsGrants(q, LookupGrants(t), t) /\ HoldsAlone(q, locks', t)
    BY <1>1, <2>2 DEF HoldsGrants, HoldsAlone
  <2>12. Holds(q, locks', LookupGrants(t), t)
    BY <2>9, <2>10, <2>11 DEF Holds
  <2>13. LookupGrants(t) \in Int
    BY GrantFacts
  <2>14. thread[t].at # "truncated" /\ q.at # "truncated"
    BY <1>1, <1>8, <2>2
  <2> QED  BY <1>8, <2>3, <2>5, <2>7, <2>12, <2>13, <2>14, LocalStep
<1>9. CASE p.at = "lookup2" /\ req_lookup(t, "vnode2",
              IF p.vmp2 = NULL THEN Done(t) ELSE unlock_vmnt(Done(t), t, p.vmp2))
  <2> DEFINE l == IF p.vmp2 = NULL THEN Done(t) ELSE unlock_vmnt(Done(t), t, p.vmp2)
  <2>1. grants' = [grants EXCEPT ![t] = 0]
    <3>1. grants[t] = LookupGrants(t) /\ LookupGrants(t) \in Int
      BY <1>1, <1>9, GrantFacts
    <3>2. grants[t] - LookupGrants(t) = 0
      BY <3>1
    <3> QED  BY <1>9, <3>2 DEF req_lookup
  <2>2. UNCHANGED <<v_size, size>> /\ thread[t].at # "truncated"
    BY <1>1, <1>9 DEF req_lookup
  <2>3. CASE GoTo(t, "vnode2") /\ UNCHANGED locks
    <3>1. Shape(Move(p, "vnode2", x))
      BY <1>4, <1>5, <1>6, <1>9, MoveShape
    <3>2. "vnode2" \in Places
      BY DEF Places
    <3>3. thread' = [thread EXCEPT ![t] = Move(p, "vnode2", x)]
      BY <1>1, <1>2, <2>3, <3>2, GoToMoves
    <3> QED  BY <1>1, <1>5, <1>6, <1>9, <2>1, <2>2, <2>3, <3>1, <3>2, <3>3, MoveStep
  <2>4. CASE Return(t, l)
    <3>1. thread[t].vp # NULL /\ thread[t].vp2 = NULL /\ ~LetGo(thread[t])
          /\ thread[t].call # "ftruncate"
      BY <1>1, <1>4, <1>5, <1>6, <1>9
    <3>2. Freed(l, t)
      BY <1>1, <3>1, DoneFreed, DoneBothFreed
    <3> QED  BY <2>1, <2>2, <2>4, <3>2, ReturnStep
  <2> QED  BY <1>9, <2>3, <2>4 DEF req_lookup
<1>10. ASSUME p.at = "vnode2", NEW mode, mode # "free", TakesVnode(locks', t, x, mode, 1),
              NEW m, m = IF locks.vnode[x][t] = "free" THEN x ELSE NULL,
              NEW q, q = [p EXCEPT !.at = "found2", !.vp2 = x, !.vp2_l = m, !.wanted = NULL],
              thread' = [thread EXCEPT ![t] = q], UNCHANGED <<grants, v_size, size>>
       PROVE  VfsInv'
  <2>1. /\ q \in ThreadState /\ q.at = "found2" /\ q.wanted = NULL /\ q.call = p.call
        /\ q.vp = p.vp /\ q.vmp = p.vmp /\ q.vp2 = x /\ q.vmp2 = p.vmp2 /\ q.vp2_l = m
    <3>1. m \in Vnodes \cup {NULL} /\ "found2" \in Places
      BY <1>5, <1>10 DEF Places
    <3> QED  BY <1>4, <1>5, <1>10, <3>1 DEF ThreadState
  <2>2. m = IF x = p.vp THEN NULL ELSE x
    BY <1>4, <1>5, <1>6, <1>10 DEF HoldsVnode
  <2>3. Shape(q)
    BY <1>1, <1>4, <1>5, <1>6, <1>10, <2>1, <2>2 DEF Shape
  <2>4. Takes(locks, locks', t)
    BY <1>10 DEF TakesVnode
  <2>5. ~LetGo(q)
    BY <2>1 DEF LetGo
  <2>6. HoldsVmnt(q, locks', t)
    BY <1>4, <1>6, <1>10, <2>1, <2>5 DEF HoldsVmnt, TakesVnode
  <2>7. HoldsVnode(q, locks', t)
    BY <1>4, <1>5, <1>6, <1>10, <2>1, <2>2, <2>5 DEF HoldsVnode, TakesVnode
  <2>8. HoldsRefs(q, locks', t)
    BY <1>4, <1>5, <1>6, <1>10, <2>1, <2>5 DEF HoldsRefs, TakesVnode
  <2>9. HoldsGrants(q, 0, t) /\ HoldsAlone(q, locks', t)
    BY <1>1, <2>1 DEF HoldsGrants, HoldsAlone
  <2>10. Holds(q, locks', 0, t)
    BY <2>6, <2>7, <2>8, <2>9 DEF Holds
  <2>11. grants' = [grants EXCEPT ![t] = 0] /\ 0 \in Int
    BY <1>1, <1>10, GrantFacts
  <2>12. thread[t].at # "truncated" /\ q.at # "truncated"
    BY <1>1, <1>10, <2>1
  <2> QED  BY <1>10, <2>3, <2>4, <2>10, <2>11, <2>12, LocalStep
<1>11. CASE /\ p.at = "vnode2" /\ locks.vnode[x][t] # "free"
            /\ locks' = [locks EXCEPT !.refs[t][x] = @ + 1]
            /\ thread' = [thread EXCEPT ![t].at = "found2", ![t].vp2 = x, ![t].wanted = NULL]
            /\ UNCHANGED <<grants, v_size, size>>
  <2>1. TakesVnode(locks', t, x, locks.vnode[x][t], 1)
    BY <1>5, <1>11, TakeAgain
  <2>2. PICK q : q = [p EXCEPT !.at = "found2", !.vp2 = x, !.vp2_l = NULL, !.wanted = NULL]
    OBVIOUS
  <2>3. q = [p EXCEPT !.at = "found2", !.vp2 = x, !.wanted = NULL]
    BY <1>4, <1>5, <1>11, <2>2 DEF ThreadState
  <2>4. thread' = [thread EXCEPT ![t] = q]
    BY <1>1, <1>11, <2>3 DEF VfsInv
  <2>5. PICK mode : mode = locks.vnode[x][t]
    OBVIOUS
  <2>6. PICK m : m = IF locks.vnode[x][t] = "free" THEN x ELSE NULL
    OBVIOUS
  <2>7. q = [p EXCEPT !.at = "found2", !.vp2 = x, !.vp2_l = m, !.wanted = NULL]
    BY <1>11, <2>2, <2>6
  <2>8. TakesVnode(locks', t, x, mode, 1) /\ mode # "free"
    BY <1>11, <2>1, <2>5
  <2> QED  BY <1>10, <1>11, <2>4, <2>6, <2>7, <2>8
<1>12. CASE /\ p.at = "vnode2" /\ locks.vnode[x][t] = "free" /\ VnodeFree(x, t, "write")
            /\ locks' = [locks EXCEPT !.vnode[x][t] = "write", !.refs[t][x] = @ + 1]
            /\ thread' = [thread EXCEPT ![t].at = "found2", ![t].vp2 = x,
                                        ![t].vp2_l = x, ![t].wanted = NULL]
            /\ UNCHANGED <<grants, v_size, size>>
  <2>1. TakesVnode(locks', t, x, "write", 1)
    BY <1>5, <1>12, TakeVnode
  <2>2. PICK q : q = [p EXCEPT !.at = "found2", !.vp2 = x, !.vp2_l = x, !.wanted = NULL]
    OBVIOUS
  <2>3. thread' = [thread EXCEPT ![t] = q]
    BY <1>1, <1>12, <2>2 DEF VfsInv
  <2> QED  BY <1>10, <1>12, <2>1, <2>2, <2>3
<1> QED  BY <1>1, <1>2, <1>3, <1>7, <1>8, <1>9, <1>11, <1>12 DEF SecondPath

\* A thread is given a call.
LEMMA BeginStep ==
  ASSUME VfsInv, NEW t \in Threads, NEW call \in Calls, NEW places \in SUBSET Vnodes,
         call = "link" => places \subseteq Files, Begin(t, call, places)
  PROVE  VfsInv'
<1>1. PICK x \in places : thread' = [thread EXCEPT ![t] =
         [Idle EXCEPT !.call = call, !.wanted = x,
                      !.at = IF call = "ftruncate" THEN "filp" ELSE "vmnt"]]
  BY DEF Begin
<1>2. PICK q : q = [Idle EXCEPT !.call = call, !.wanted = x,
                                !.at = IF call = "ftruncate" THEN "filp" ELSE "vmnt"]
  OBVIOUS
<1>3. x \in Vnodes /\ x # NULL
  BY PlaceFacts
<1>4. /\ q \in ThreadState /\ q.call = call /\ q.wanted = x
      /\ q.at = IF call = "ftruncate" THEN "filp" ELSE "vmnt"
      /\ q.vp = NULL /\ q.vmp = NULL /\ q.vp2 = NULL /\ q.vmp2 = NULL /\ q.vp2_l = NULL
  BY <1>2, <1>3 DEF Idle, ThreadState, Places
<1>5. Shape(q)
  BY <1>3, <1>4, VfsAssumption DEF Shape, Vnodes
<1>6. thread[t] = Idle
  BY DEF Begin
<1>7. /\ Idle.at = "idle" /\ Idle.vp = NULL /\ Idle.vmp = NULL /\ Idle.vp2 = NULL
      /\ Idle.vmp2 = NULL /\ Idle.vp2_l = NULL
  BY DEF Idle
<1>8. /\ HoldsVmnt(Idle, locks, t) /\ HoldsVnode(Idle, locks, t) /\ HoldsRefs(Idle, locks, t)
      /\ NULL \notin Vnodes /\ NULL \notin Volumes
  BY <1>6, PlaceFacts
<1>9. ~LetGo(q) /\ ~LetGo(Idle)
  BY <1>4, <1>7 DEF LetGo
<1>10. HoldsVmnt(q, locks, t) /\ HoldsVnode(q, locks, t)
  BY <1>4, <1>7, <1>8, <1>9 DEF HoldsVmnt, HoldsVnode
<1>11. HoldsRefs(q, locks, t)
  BY <1>4, <1>7, <1>8, <1>9 DEF HoldsRefs
<1>12. HoldsGrants(q, 0, t) /\ HoldsAlone(q, locks, t)
  BY <1>4 DEF HoldsGrants, HoldsAlone
<1>13. Holds(q, locks, 0, t)
  BY <1>10, <1>11, <1>12 DEF Holds
<1>14. grants' = [grants EXCEPT ![t] = 0] /\ UNCHANGED <<locks, v_size, size>> /\ 0 \in Int
  BY <1>6, <1>7, GrantFacts DEF Begin
<1>15. thread[t].at # "truncated" /\ q.at # "truncated" /\ thread' = [thread EXCEPT ![t] = q]
  BY <1>1, <1>2, <1>4, <1>6, <1>7
<1> QED  BY <1>5, <1>13, <1>14, <1>15, GoStep
-----------------------------------------------------------------------------
\* Truncation.
Truncates(p) == p.call \in {"truncate", "ftruncate"}

LEMMA TruncateFacts ==
  ASSUME VfsInv, NEW t \in Threads, Truncates(thread[t]), thread[t].at \in {"fs", "truncated"}
  PROVE  /\ thread[t].vp \in Files /\ thread[t].vp \in Vnodes /\ thread[t].vp # NULL
         /\ thread[t].length \in Lengths
         /\ grants = [grants EXCEPT ![t] = 0]
         /\ locks.vnode[thread[t].vp][t] = "write"
<1>1. /\ thread[t].vp \in Files /\ thread[t].vp # NULL /\ thread[t].vp \in Vnodes
      /\ thread[t].length \in Lengths
  BY PlaceFacts, VfsAssumption DEF Truncates, Shape, Vnodes
<1>2. grants = [grants EXCEPT ![t] = 0]
  <2>1. RequestGrants(thread[t].call) = 0
    BY DEF Truncates, RequestGrants
  <2> QED  BY <2>1, GrantFacts
<1>3. locks.vnode[thread[t].vp][t] = "write"
  BY <1>1, PlaceFacts DEF HoldsAlone, Truncates
<1> QED  BY <1>1, <1>2, <1>3

\* The file stays locked to write, so no two calls truncate it at a time.
LEMMA OneTruncates ==
  ASSUME VfsInv, NEW t \in Threads, NEW u \in Threads,
         Truncates(thread[t]), thread[t].at \in {"fs", "truncated"}, thread[u].at = "truncated",
         thread[u].vp = thread[t].vp
  PROVE  u = t
<1>1. Truncates(thread[u])
  BY PlaceFacts DEF Shape, Truncates
<1>2. locks.vnode[thread[t].vp][t] = "write" /\ locks.vnode[thread[t].vp][u] = "write"
      /\ thread[t].vp \in Vnodes
  BY <1>1, TruncateFacts
<1> QED  BY <1>2 DEF VfsInv, Sound

LEMMA TruncateShape ==
  ASSUME NEW p, Shape(p), Truncates(p), p.at \in {"found", "fs"}, p.vp \in Files,
         NEW q \in ThreadState, q.at \in {"fs", "truncated"}, q.length \in Lengths,
         q.call = p.call, q.vp = p.vp, q.vmp = p.vmp, q.vp2 = p.vp2, q.vmp2 = p.vmp2,
         q.vp2_l = p.vp2_l, q.wanted = p.wanted
  PROVE  Shape(q)
<1>1. q.call \in {"truncate", "ftruncate"} /\ q.call \in Calls /\ q.at # "idle"
  BY DEF Truncates, Calls
<1>2. q.vp # NULL /\ q.vp2 = NULL /\ q.wanted = NULL /\ q.vp2_l = NULL
  BY DEF Shape, Truncates
<1>3. q.vmp2 = NULL
  BY <1>1 DEF Shape
<1>4. q.vmp = NULL <=> q.call = "ftruncate"
  BY DEF Shape
<1>5. q.call # "ftruncate" => q.vmp = VolumeOf[q.vp]
  BY <1>2 DEF Shape
<1> QED  BY <1>1, <1>2, <1>3, <1>4, <1>5 DEF Shape

LEMMA StartStep ==
  ASSUME VfsInv, NEW t \in Threads, Truncates(thread[t]), thread[t].at = "found",
         thread[t].vp \in Files, NEW newsize \in Lengths,
         thread' = [thread EXCEPT ![t].at = "fs", ![t].length = newsize],
         UNCHANGED <<locks, grants, v_size, size>>
  PROVE  VfsInv'
<1>1. PICK p : p = thread[t]
  OBVIOUS
<1>2. PICK q : q = [p EXCEPT !.at = "fs", !.length = newsize]
  OBVIOUS
<1>3. /\ q \in ThreadState /\ q.at = "fs" /\ q.length = newsize
      /\ q.call = p.call /\ q.vp = p.vp /\ q.vmp = p.vmp /\ q.vp2 = p.vp2
      /\ q.vmp2 = p.vmp2 /\ q.vp2_l = p.vp2_l /\ q.wanted = p.wanted
  BY <1>1, <1>2, PlaceFacts DEF ThreadState, Places
<1>4. thread' = [thread EXCEPT ![t] = q]
  BY <1>1, <1>2 DEF VfsInv
<1>5. Shape(p)
  BY <1>1, PlaceFacts
<1>6. Shape(q)
  BY <1>1, <1>3, <1>5, TruncateShape
<1>7. ~LetGo(q) /\ ~LetGo(p) /\ HoldsGrants(q, 0, t)
  BY <1>1, <1>3 DEF LetGo, Truncates, HoldsGrants, RequestGrants
<1>8. Holds(q, locks, 0, t)
  BY <1>1, <1>3, <1>7, HoldsMoved DEF Truncates
<1>9. grants' = [grants EXCEPT ![t] = 0] /\ 0 \in Int
  BY GrantFacts
<1> QED  BY <1>3, <1>4, <1>6, <1>8, <1>9, GoStep

\* The file server has cut the file.
LEMMA CutStep ==
  ASSUME VfsInv, NEW t \in Threads, Truncates(thread[t]), thread[t].at = "fs",
         GoTo(t, "truncated"), size' = [size EXCEPT ![thread[t].vp] = thread[t].length],
         UNCHANGED <<locks, grants, v_size>>
  PROVE  VfsInv'
<1>1. PICK p : p = thread[t]
  OBVIOUS
<1>2. PICK q : q = Move(p, "truncated", p.wanted)
  OBVIOUS
<1>3. "truncated" \in Places /\ p.wanted \in Vnodes \cup {NULL} /\ p \in ThreadState
  BY <1>1, PlaceFacts DEF Places, ThreadState
<1>4. Moved(p, q, "truncated", p.wanted)
  BY <1>2, <1>3, MoveFacts
<1>5. thread' = [thread EXCEPT ![t] = q]
  BY <1>1, <1>2, <1>3, GoToMoves
<1>6. p.vp \in Files /\ p.length \in Lengths /\ p.vp # NULL
  BY <1>1, TruncateFacts
<1>7. Shape(q)
  <2>1. Shape(p)
    BY <1>1, PlaceFacts
  <2> QED  BY <1>1, <1>4, <1>6, <2>1, TruncateShape DEF Moved
<1>8. Holds(q, locks, 0, t)
  <2>1. ~LetGo(q) /\ ~LetGo(p) /\ HoldsGrants(q, 0, t)
    BY <1>1, <1>4 DEF LetGo, Truncates, HoldsGrants, Moved
  <2> QED  BY <1>1, <1>4, <2>1, HoldsMoved DEF Truncates, Moved
<1>9. CallsInv'
  <2>1. Takes(locks, locks', t) /\ 0 \in Int
    BY DEF Takes, Others, VfsInv, Sound
  <2>2. grants' = [grants EXCEPT ![t] = 0]
    BY TruncateFacts
  <2>3. Holds(q, locks', 0, t)
    BY <1>8
  <2> QED  BY <1>5, <1>7, <2>1, <2>2, <2>3, CallStep
<1>10. /\ \A u \in Threads : thread'[u] = IF u = t THEN q ELSE thread[u]
       /\ (v_size \in [Files -> Lengths] /\ size \in [Files -> Lengths])'
       /\ \A x \in Files : size'[x] = IF x = p.vp THEN p.length ELSE size[x]
  BY <1>1, <1>5, <1>6 DEF VfsInv
<1>11. ASSUME NEW u \in Threads, thread'[u].at = "truncated"
       PROVE  size'[thread'[u].vp] = thread'[u].length
  <2>1. CASE u = t
    BY <1>4, <1>6, <1>10, <2>1 DEF Moved
  <2>2. CASE u # t
    <3>1. thread'[u] = thread[u] /\ thread[u].at = "truncated"
      BY <1>10, <1>11, <2>2
    <3>2. Truncates(thread[u])
      BY <3>1, PlaceFacts DEF Shape, Truncates
    <3>3. thread[u].vp \in Files
      BY <3>1, <3>2, TruncateFacts
    <3>4. thread[u].vp # p.vp
      BY <1>1, <2>2, <3>1, OneTruncates
    <3>5. size[thread[u].vp] = thread[u].length
      BY <3>1 DEF VfsInv
    <3> QED  BY <1>10, <3>1, <3>3, <3>4, <3>5
  <2> QED  BY <2>1, <2>2
<1>12. ASSUME NEW x \in Files, v_size'[x] # size'[x]
       PROVE  \E u \in Threads : thread'[u].at = "truncated" /\ thread'[u].vp = x
  <2>1. CASE x = p.vp
    BY <1>4, <1>10, <2>1 DEF Moved
  <2>2. CASE x # p.vp
    <3>1. v_size[x] # size[x]
      BY <1>10, <1>12, <2>2
    <3>2. PICK u \in Threads : thread[u].at = "truncated" /\ thread[u].vp = x
      BY <3>1 DEF VfsInv, SizesAgree
    <3>3. u # t
      BY <3>2
    <3> QED  BY <1>10, <3>2, <3>3
  <2> QED  BY <2>1, <2>2
<1>13. SizesAgree'
  BY <1>12 DEF SizesAgree
<1> QED  BY <1>9, <1>10, <1>11, <1>13 DEF VfsInv, CallsInv

\* VFS takes the new length over.
LEMMA LengthStep ==
  ASSUME VfsInv, NEW t \in Threads, Truncates(thread[t]), thread[t].at = "truncated",
         NEW l, Freed(l, t), Return(t, l), v_size' = NewLength(t, TRUE),
         UNCHANGED <<grants, size>>
  PROVE  VfsInv'
<1>1. PICK p : p = thread[t]
  OBVIOUS
<1>2. p.vp \in Files /\ p.length \in Lengths
  BY <1>1, TruncateFacts
<1>3. locks' = l /\ thread' = [thread EXCEPT ![t] = Idle]
  BY DEF Return
<1>4. Takes(locks, locks', t)
  BY <1>3 DEF Takes, Freed
<1>5. Shape(Idle) /\ Holds(Idle, locks', 0, t) /\ 0 \in Int
  BY <1>3, IdleFacts
<1>6. CallsInv'
  <2>1. grants' = [grants EXCEPT ![t] = 0]
    BY TruncateFacts
  <2> QED  BY <1>3, <1>4, <1>5, <2>1, CallStep
<1>7. /\ \A u \in Threads : thread'[u] = IF u = t THEN Idle ELSE thread[u]
      /\ (v_size \in [Files -> Lengths] /\ size \in [Files -> Lengths])'
      /\ \A x \in Files : v_size'[x] = IF x = p.vp THEN p.length ELSE v_size[x]
      /\ size[p.vp] = p.length
  BY <1>1, <1>2, <1>3 DEF VfsInv, NewLength
<1>8. (\A u \in Threads : thread[u].at = "truncated" => size[thread[u].vp] = thread[u].length)'
  BY <1>7 DEF VfsInv, Idle
<1>9. ASSUME NEW x \in Files, v_size'[x] # size'[x]
      PROVE  \E u \in Threads : thread'[u].at = "truncated" /\ thread'[u].vp = x
  <2>1. x # p.vp /\ v_size[x] # size[x]
    BY <1>7, <1>9
  <2>2. PICK u \in Threads : thread[u].at = "truncated" /\ thread[u].vp = x
    BY <2>1 DEF VfsInv, SizesAgree
  <2>3. u # t
    BY <1>1, <2>1, <2>2
  <2> QED  BY <1>7, <2>2, <2>3
<1>10. SizesAgree'
  BY <1>9 DEF SizesAgree
<1> QED  BY <1>6, <1>7, <1>8, <1>10 DEF VfsInv, CallsInv

LEMMA TruncateVnodeStep ==
  ASSUME VfsInv, NEW t \in Threads, Truncates(thread[t]), NEW l,
         thread[t].at \in {"fs", "truncated"} => Freed(l, t),
         truncate_vnode(t, l)
  PROVE  VfsInv'
<1>1. CASE /\ thread[t].at = "found" /\ thread[t].vp \in Files
           /\ \E newsize \in Lengths \ {v_size[thread[t].vp]} :
                 thread' = [thread EXCEPT ![t].at = "fs", ![t].length = newsize]
           /\ UNCHANGED <<locks, grants, v_size, size>>
  BY <1>1, StartStep
<1>2. CASE req_ftrunc(t, l)
  <2>1. CASE /\ thread[t].at = "fs" /\ GoTo(t, "truncated")
             /\ size' = [size EXCEPT ![thread[t].vp] = thread[t].length]
             /\ UNCHANGED <<locks, grants, v_size>>
    BY <2>1, CutStep
  <2>2. CASE /\ thread[t].at = "fs" /\ v_size' = NewLength(t, FALSE)
             /\ Return(t, l) /\ UNCHANGED <<grants, size>>
    <3>1. UNCHANGED <<v_size, size>>
      BY <2>2 DEF NewLength
    <3>2. grants' = [grants EXCEPT ![t] = 0]
      BY <2>2, TruncateFacts
    <3> QED  BY <2>2, <3>1, <3>2, ReturnStep
  <2>3. CASE /\ thread[t].at = "truncated" /\ v_size' = NewLength(t, TRUE)
             /\ Return(t, l) /\ UNCHANGED <<grants, size>>
    BY <2>3, LengthStep
  <2> QED  BY <1>2, <2>1, <2>2, <2>3 DEF req_ftrunc
<1> QED  BY <1>1, <1>2 DEF truncate_vnode
-----------------------------------------------------------------------------
\* ftruncate: the vnode alone is locked.
LEMMA FilpFreed ==
  ASSUME VfsInv, NEW t \in Threads, thread[t].call = "ftruncate", thread[t].vp # NULL
  PROVE  Freed(unlock_vnode(locks, t, thread[t].vp), t)
<1>1. PICK p : p = thread[t]
  OBVIOUS
<1>2. /\ Shape(p) /\ HoldsVmnt(p, locks, t) /\ HoldsVnode(p, locks, t)
      /\ HoldsRefs(p, locks, t) /\ locks \in LockState /\ locks.fault = FALSE
      /\ NULL \notin Vnodes /\ NULL \notin Volumes
  BY <1>1, PlaceFacts
<1>3. p.vp \in Vnodes /\ p.vmp = NULL /\ p.vmp2 = NULL /\ p.vp2 = NULL /\ p.vp2_l = NULL
  BY <1>1, <1>2 DEF Shape, ThreadState
<1>4. ~LetGo(p)
  BY <1>1 DEF LetGo
<1>5. \A v \in Volumes : locks.vmnt[v][t] = "free"
  BY <1>2, <1>3, <1>4 DEF HoldsVmnt
<1>6. \A x \in Vnodes : locks.vnode[x][t] = "free" <=> x # p.vp
  BY <1>2, <1>3, <1>4 DEF HoldsVnode
<1>7. \A x \in Vnodes : locks.refs[t][x] = 0
  BY <1>1, <1>2 DEF HoldsRefs
<1>8. PICK m : m = unlock_vnode(locks, t, p.vp)
  OBVIOUS
<1>9. FreesVnode(locks, m, t, p.vp)
  BY <1>2, <1>3, <1>8, UnlockVnode
<1>10. locks.vnode[p.vp][t] # "free"
  BY <1>3, <1>6
<1>11. Freed(m, t)
  BY <1>2, <1>5, <1>6, <1>7, <1>9, <1>10 DEF FreesVnode, Freed, Others
<1> QED  BY <1>1, <1>8, <1>11

LEMMA FilpStep ==
  ASSUME VfsInv, NEW t \in Threads, thread[t].call = "ftruncate", thread[t].at = "filp",
         NEW x, x = thread[t].wanted, VnodeFree(x, t, "write"),
         locks' = [locks EXCEPT !.vnode[x][t] = "write"],
         thread' = [thread EXCEPT ![t].at = "found", ![t].vp = x, ![t].wanted = NULL],
         UNCHANGED <<grants, v_size, size>>
  PROVE  VfsInv'
<1>1. PICK p : p = thread[t]
  OBVIOUS
<1>2. /\ Shape(p) /\ p \in ThreadState /\ HoldsVmnt(p, locks, t) /\ HoldsVnode(p, locks, t)
      /\ HoldsRefs(p, locks, t) /\ NULL \notin Vnodes /\ NULL \notin Volumes
  BY <1>1, PlaceFacts
<1>3. /\ p.vp = NULL /\ p.vmp = NULL /\ p.vmp2 = NULL /\ p.vp2 = NULL /\ p.vp2_l = NULL
      /\ x \in Vnodes /\ x # NULL
  BY <1>1, <1>2 DEF Shape, ThreadState
<1>4. PICK q : q = [p EXCEPT !.at = "found", !.vp = x, !.wanted = NULL]
  OBVIOUS
<1>5. /\ q \in ThreadState /\ q.at = "found" /\ q.wanted = NULL /\ q.call = "ftruncate"
      /\ q.vp = x /\ q.vmp = NULL /\ q.vmp2 = NULL /\ q.vp2 = NULL /\ q.vp2_l = NULL
  BY <1>1, <1>2, <1>3, <1>4 DEF ThreadState, Places
<1>6. thread' = [thread EXCEPT ![t] = q]
  BY <1>1, <1>4 DEF VfsInv
<1>7. Shape(q)
  BY <1>3, <1>5 DEF Shape, Calls
<1>8. TakesVnode(locks', t, x, "write", 0)
  BY <1>3, TakeFilp
<1>9. Takes(locks, locks', t)
  BY <1>8 DEF TakesVnode
<1>10. ~LetGo(p) /\ ~LetGo(q)
  BY <1>1, <1>5 DEF LetGo
<1>11. HoldsVmnt(q, locks', t)
  BY <1>2, <1>3, <1>5, <1>8, <1>10 DEF HoldsVmnt, TakesVnode
<1>12. HoldsVnode(q, locks', t)
  BY <1>2, <1>3, <1>5, <1>8, <1>10 DEF HoldsVnode, TakesVnode
<1>13. HoldsRefs(q, locks', t)
  <2>1. \A y \in Vnodes : locks.refs[t][y] = 0
    BY <1>1, <1>2 DEF HoldsRefs
  <2>2. \A y \in Vnodes : locks'.refs[t][y] = 0
    BY <1>8, <2>1 DEF TakesVnode
  <2> QED  BY <1>5, <2>2 DEF HoldsRefs
<1>14. HoldsGrants(q, 0, t) /\ HoldsAlone(q, locks', t)
  BY <1>3, <1>5, <1>8 DEF HoldsGrants, HoldsAlone, TakesVnode
<1>15. Holds(q, locks', 0, t)
  BY <1>11, <1>12, <1>13, <1>14 DEF Holds
<1>16. grants' = [grants EXCEPT ![t] = 0] /\ 0 \in Int
  BY GrantFacts
<1> QED  BY <1>5, <1>6, <1>7, <1>9, <1>15, <1>16, LocalStep
-----------------------------------------------------------------------------
\* do_inodeviewer and do_rcmkdir.
LEMMA LetGoStep ==
  ASSUME VfsInv, NEW t \in Threads, thread[t].call = "report", thread[t].at = "found",
         locks' = Done(t), GoTo(t, "ready"), UNCHANGED <<grants, v_size, size>>
  PROVE  VfsInv'
<1>1. PICK p : p = thread[t]
  OBVIOUS
<1>2. Shape(p) /\ p \in ThreadState /\ p.call \in Calls /\ p.call # "ftruncate"
  BY <1>1, PlaceFacts DEF Calls
<1>3. p.vp # NULL /\ p.vp2 = NULL /\ p.vmp2 = NULL /\ p.wanted = NULL
  BY <1>1, <1>2 DEF Shape
<1>4. Freed(locks', t)
  BY <1>1, <1>2, <1>3, DoneFreed DEF LetGo
<1>5. PICK q : q = Move(p, "ready", NULL)
  OBVIOUS
<1>6. Moved(p, q, "ready", NULL)
  BY <1>2, <1>5, MoveFacts DEF Places
<1>7. Shape(q)
  BY <1>1, <1>2, <1>3, <1>5, MoveShape
<1>8. thread' = [thread EXCEPT ![t] = q]
  <2>1. "ready" \in Places
    BY DEF Places
  <2> QED  BY <1>1, <1>3, <1>5, <2>1, GoToMoves
<1>9. LetGo(q)
  BY <1>1, <1>6 DEF LetGo, Moved
<1>10. HoldsVmnt(q, locks', t) /\ HoldsVnode(q, locks', t) /\ HoldsRefs(q, locks', t)
  BY <1>4, <1>9 DEF HoldsVmnt, HoldsVnode, HoldsRefs, Freed
<1>11. HoldsGrants(q, 0, t) /\ HoldsAlone(q, locks', t)
  BY <1>1, <1>6 DEF HoldsGrants, HoldsAlone, Moved
<1>12. Holds(q, locks', 0, t)
  BY <1>10, <1>11 DEF Holds
<1>13. Takes(locks, locks', t)
  BY <1>4 DEF Takes, Freed
<1>14. grants' = [grants EXCEPT ![t] = 0] /\ 0 \in Int /\ q.at # "truncated"
  BY <1>6, GrantFacts DEF Moved
<1> QED  BY <1>7, <1>8, <1>12, <1>13, <1>14, LocalStep

LEMMA NothingLeft ==
  ASSUME VfsInv, NEW t \in Threads, LetGo(thread[t])
  PROVE  Freed(locks, t)
<1>1. /\ HoldsVmnt(thread[t], locks, t) /\ HoldsVnode(thread[t], locks, t)
      /\ HoldsRefs(thread[t], locks, t) /\ locks \in LockState /\ locks.fault = FALSE
  BY PlaceFacts
<1> QED  BY <1>1 DEF Freed, Others, HoldsVmnt, HoldsVnode, HoldsRefs
-----------------------------------------------------------------------------
\* The requests of the calls that lock one path.
LEMMA SendrecStep ==
  ASSUME VfsInv, NEW t \in Threads, NEW ready, NEW n, NEW l, Sendrec(t, ready, n, l),
         n = RequestGrants(thread[t].call), thread[t].call \in Calls \ {"truncate", "ftruncate"},
         ready => thread[t].at \in {"found", "found2", "ready"},
         ready /\ thread[t].call \in {"unlink", "rename", "report"} => thread[t].at = "ready",
         ready /\ thread[t].call \in {"link", "rename"} => thread[t].vp2 # NULL,
         thread[t].at = "fs" => Freed(l, t)
  PROVE  VfsInv'
<1>1. CASE /\ ready /\ GoTo(t, "fs") /\ grants' = [grants EXCEPT ![t] = @ + n]
           /\ UNCHANGED <<locks, v_size, size>>
  <2>1. PICK p : p = thread[t]
    OBVIOUS
  <2>2. Shape(p) /\ p.vp # NULL
    BY <1>1, <2>1, PlaceFacts DEF Shape
  <2>3. p.vp2 = NULL <=> ~(p.call \in {"link", "rename"})
    BY <1>1, <2>1, <2>2 DEF Shape
  <2>4. p.call = "link" => NULL \notin Files
    BY VfsAssumption DEF Vnodes
  <2>5. Shape(Move(p, "fs", NULL))
    BY <2>1, <2>2, <2>3, <2>4, MoveShape
  <2> QED  BY <1>1, <2>1, <2>5, RequestStep
<1>2. CASE /\ thread[t].at = "fs" /\ Return(t, l) /\ grants' = [grants EXCEPT ![t] = @ - n]
           /\ UNCHANGED <<v_size, size>>
  BY <1>2, AnswerStep
<1> QED  BY <1>1, <1>2 DEF Sendrec

LEMMA DoneFreedAt ==
  ASSUME VfsInv, NEW t \in Threads, thread[t].at \in {"found", "ready", "fs", "truncated"},
         thread[t].call \in Calls \ {"link", "rename", "ftruncate"}, ~LetGo(thread[t])
  PROVE  Freed(Done(t), t)
<1>1. thread[t].vp # NULL /\ thread[t].vp2 = NULL /\ thread[t].vmp2 = NULL
  BY PlaceFacts DEF Shape
<1> QED  BY <1>1, DoneFreed

\* A refusal when the second path has been found.
LEMMA RefuseBothStep ==
  ASSUME VfsInv, NEW t \in Threads, thread[t].at = "found2", NEW l, Freed(l, t), Refuse(t, l)
  PROVE  VfsInv'
<1>1. grants' = [grants EXCEPT ![t] = 0]
  BY GrantFacts DEF Refuse
<1>2. Return(t, l) /\ UNCHANGED <<v_size, size>>
  BY DEF Refuse
<1> QED  BY <1>1, <1>2, ReturnStep
-----------------------------------------------------------------------------
\* One lemma for each call.
LEMMA VnodesAre == Dirs \in SUBSET Vnodes /\ Files \in SUBSET Vnodes /\ {Device} \in SUBSET Vnodes
BY VfsAssumption DEF Vnodes

LEMMA LinkStep ==
  ASSUME VfsInv, NEW t \in Threads, do_link(t)
  PROVE  VfsInv'
<1>1. CASE Begin(t, "link", Files)
  BY <1>1, BeginStep, VnodesAre DEF Calls
<1>2. ASSUME thread[t].call = "link", FirstPath(t, "write", "read")
      PROVE  VfsInv'
  BY <1>2, FirstPathStep DEF Calls
<1>3. ASSUME thread[t].call = "link", thread[t].at = "found", Refuse(t, Done(t)) \/ SecondName(t)
      PROVE  VfsInv'
  BY <1>3, RefuseStep, SecondNameStep
<1>4. ASSUME thread[t].call = "link", SecondPath(t, "read", "write", Done(t))
      PROVE  VfsInv'
  BY <1>4, SecondPathStep
<1>5. ASSUME thread[t].call = "link", thread[t].at \in {"found2", "fs"}
      PROVE  thread[t].vp2 # NULL /\ Freed(DoneLink(t), t)
  <2>1. thread[t].vp2 # NULL
    BY <1>5, PlaceFacts DEF Shape
  <2> QED  BY <1>5, <2>1, DoneLinkFreed
<1>6. ASSUME thread[t].call = "link", thread[t].at = "found2", Refuse(t, DoneLink(t))
      PROVE  VfsInv'
  BY <1>5, <1>6, RefuseBothStep
<1>7. ASSUME thread[t].call = "link",
             req_link(t, thread[t].at = "found2" /\ SameVolume(t), DoneLink(t))
      PROVE  VfsInv'
  <2>1. PICK ready : ready = (thread[t].at = "found2" /\ SameVolume(t))
    OBVIOUS
  <2>2. Sendrec(t, ready, 1, DoneLink(t)) /\ 1 = RequestGrants(thread[t].call)
    BY <1>7, <2>1 DEF req_link, RequestGrants
  <2>3. ready => thread[t].at = "found2"
    BY <2>1
  <2> QED  BY <1>5, <1>7, <2>2, <2>3, SendrecStep DEF Calls
<1> QED  BY <1>1, <1>2, <1>3, <1>4, <1>6, <1>7 DEF do_link

LEMMA UnlinkStep ==
  ASSUME VfsInv, NEW t \in Threads, do_unlink(t)
  PROVE  VfsInv'
<1>1. CASE Begin(t, "unlink", Dirs)
  BY <1>1, BeginStep, VnodesAre DEF Calls
<1>2. ASSUME thread[t].call = "unlink", FirstPath(t, RemovalVmntLock, "write")
      PROVE  VfsInv'
  BY <1>2, FirstPathStep DEF Calls, RemovalVmntLock
<1>3. ASSUME thread[t].call = "unlink", thread[t].at = "found", Refuse(t, Done(t)) \/ Checked(t)
      PROVE  VfsInv'
  BY <1>3, RefuseStep, CheckedStep
<1>4. ASSUME thread[t].call = "unlink", StickyCheck(t, "checked")
      PROVE  VfsInv'
  BY <1>4, StickyStep
<1>5. ASSUME thread[t].call = "unlink", thread[t].at = "checked", upgrade_vmnt_lock(t)
      PROVE  VfsInv'
  BY <1>5, UpgradeStep
<1>6. ASSUME thread[t].call = "unlink", req_unlink(t, thread[t].at = "ready", Done(t))
      PROVE  VfsInv'
  <2>1. thread[t].at = "fs" => Freed(Done(t), t)
    BY <1>6, DoneFreedAt DEF Calls, LetGo
  <2>2. Sendrec(t, thread[t].at = "ready", 1, Done(t)) /\ 1 = RequestGrants(thread[t].call)
    BY <1>6 DEF req_unlink, RequestGrants
  <2> QED  BY <1>6, <2>1, <2>2, SendrecStep DEF Calls
<1> QED  BY <1>1, <1>2, <1>3, <1>4, <1>5, <1>6 DEF do_unlink

LEMMA RenameStep ==
  ASSUME VfsInv, NEW t \in Threads, do_rename(t)
  PROVE  VfsInv'
<1>1. CASE Begin(t, "rename", Dirs)
  BY <1>1, BeginStep, VnodesAre DEF Calls
<1>2. ASSUME thread[t].call = "rename", FirstPath(t, RemovalVmntLock, "write")
      PROVE  VfsInv'
  BY <1>2, FirstPathStep DEF Calls, RemovalVmntLock
<1>3. ASSUME thread[t].call = "rename", StickyCheck(t, "mine")
      PROVE  VfsInv'
  BY <1>3, StickyStep
<1>4. ASSUME thread[t].call = "rename", thread[t].at \in {"found", "mine"},
             Refuse(t, Done(t)) \/ SecondName(t)
      PROVE  VfsInv'
  BY <1>4, RefuseStep, SecondNameStep
<1>5. ASSUME thread[t].call = "rename", SecondPath(t, "read", "write", Done(t))
      PROVE  VfsInv'
  BY <1>5, SecondPathStep
<1>6. ASSUME thread[t].call = "rename", thread[t].at \in {"found2", "ready", "fs"}
      PROVE  thread[t].vp2 # NULL /\ Freed(DoneRename(t), t)
  <2>1. thread[t].vp2 # NULL
    BY <1>6, PlaceFacts DEF Shape
  <2> QED  BY <1>6, <2>1, DoneRenameFreed
<1>7. ASSUME thread[t].call = "rename", thread[t].at = "found2", Refuse(t, DoneRename(t))
      PROVE  VfsInv'
  BY <1>6, <1>7, RefuseBothStep
<1>8. ASSUME thread[t].call = "rename", thread[t].at = "found2", Checked(t)
      PROVE  VfsInv'
  BY <1>8, CheckedStep
<1>9. ASSUME thread[t].call = "rename", thread[t].at = "checked", upgrade_vmnt_lock(t)
      PROVE  VfsInv'
  BY <1>9, UpgradeStep
<1>10. ASSUME thread[t].call = "rename", req_rename(t, thread[t].at = "ready", DoneRename(t))
       PROVE  VfsInv'
  <2>1. Sendrec(t, thread[t].at = "ready", 2, DoneRename(t)) /\ 2 = RequestGrants(thread[t].call)
    BY <1>10 DEF req_rename, RequestGrants
  <2> QED  BY <1>6, <1>10, <2>1, SendrecStep DEF Calls
<1> QED  BY <1>1, <1>2, <1>3, <1>4, <1>5, <1>7, <1>8, <1>9, <1>10 DEF do_rename

LEMMA TruncateStep ==
  ASSUME VfsInv, NEW t \in Threads, do_truncate(t)
  PROVE  VfsInv'
<1>1. CASE Begin(t, "truncate", Vnodes)
  BY <1>1, BeginStep DEF Calls
<1>2. ASSUME thread[t].call = "truncate", FirstPath(t, "read", "write")
      PROVE  VfsInv'
  BY <1>2, FirstPathStep DEF Calls
<1>3. ASSUME thread[t].call = "truncate", thread[t].at = "found", Refuse(t, Done(t))
      PROVE  VfsInv'
  BY <1>3, RefuseStep
<1>4. ASSUME thread[t].call = "truncate", truncate_vnode(t, Done(t))
      PROVE  VfsInv'
  <2>1. thread[t].at \in {"fs", "truncated"} => Freed(Done(t), t)
    BY <1>4, DoneFreedAt DEF Calls, LetGo
  <2> QED  BY <1>4, <2>1, TruncateVnodeStep DEF Truncates
<1> QED  BY <1>1, <1>2, <1>3, <1>4 DEF do_truncate

LEMMA FtruncateStep ==
  ASSUME VfsInv, NEW t \in Threads, do_ftruncate(t)
  PROVE  VfsInv'
<1>1. PICK x : x = thread[t].wanted
  OBVIOUS
<1>2. PICK l : l = unlock_vnode(locks, t, thread[t].vp)
  OBVIOUS
<1>3. CASE Begin(t, "ftruncate", Files)
  BY <1>3, BeginStep, VnodesAre DEF Calls
<1>4. ASSUME thread[t].call = "ftruncate", thread[t].at = "filp", VnodeFree(x, t, "write"),
             locks' = [locks EXCEPT !.vnode[x][t] = "write"],
             thread' = [thread EXCEPT ![t].at = "found", ![t].vp = x, ![t].wanted = NULL],
             UNCHANGED <<grants, v_size, size>>
      PROVE  VfsInv'
  BY <1>1, <1>4, FilpStep
<1>5. ASSUME thread[t].call = "ftruncate", thread[t].at \in {"found", "fs", "truncated"}
      PROVE  Freed(l, t)
  <2>1. thread[t].vp # NULL
    BY <1>5, PlaceFacts DEF Shape
  <2> QED  BY <1>2, <1>5, <2>1, FilpFreed
<1>6. ASSUME thread[t].call = "ftruncate", thread[t].at = "found", Refuse(t, l)
      PROVE  VfsInv'
  <2>1. grants' = [grants EXCEPT ![t] = 0]
    BY <1>6, GrantFacts DEF Refuse
  <2>2. Return(t, l) /\ UNCHANGED <<v_size, size>>
    BY <1>6 DEF Refuse
  <2> QED  BY <1>5, <1>6, <2>1, <2>2, ReturnStep
<1>7. ASSUME thread[t].call = "ftruncate", truncate_vnode(t, l)
      PROVE  VfsInv'
  BY <1>5, <1>7, TruncateVnodeStep DEF Truncates
<1> QED  BY <1>1, <1>2, <1>3, <1>4, <1>6, <1>7 DEF do_ftruncate, At

LEMMA SlinkStep ==
  ASSUME VfsInv, NEW t \in Threads, do_slink(t)
  PROVE  VfsInv'
<1>1. CASE Begin(t, "slink", Dirs)
  BY <1>1, BeginStep, VnodesAre DEF Calls
<1>2. ASSUME thread[t].call = "slink", FirstPath(t, "write", "write")
      PROVE  VfsInv'
  BY <1>2, FirstPathStep DEF Calls
<1>3. ASSUME thread[t].call = "slink", thread[t].at = "found", Refuse(t, Done(t))
      PROVE  VfsInv'
  BY <1>3, RefuseStep
<1>4. ASSUME thread[t].call = "slink", req_slink(t, thread[t].at = "found", Done(t))
      PROVE  VfsInv'
  <2>1. thread[t].at = "fs" => Freed(Done(t), t)
    BY <1>4, DoneFreedAt DEF Calls, LetGo
  <2>2. Sendrec(t, thread[t].at = "found", 2, Done(t)) /\ 2 = RequestGrants(thread[t].call)
    BY <1>4 DEF req_slink, RequestGrants
  <2> QED  BY <1>4, <2>1, <2>2, SendrecStep DEF Calls
<1> QED  BY <1>1, <1>2, <1>3, <1>4 DEF do_slink

LEMMA RdlinkStep ==
  ASSUME VfsInv, NEW t \in Threads, do_rdlink(t)
  PROVE  VfsInv'
<1>1. CASE Begin(t, "rdlink", Vnodes)
  BY <1>1, BeginStep DEF Calls
<1>2. ASSUME thread[t].call = "rdlink", FirstPath(t, "read", "read")
      PROVE  VfsInv'
  BY <1>2, FirstPathStep DEF Calls
<1>3. ASSUME thread[t].call = "rdlink", thread[t].at = "found", Refuse(t, Done(t))
      PROVE  VfsInv'
  BY <1>3, RefuseStep
<1>4. ASSUME thread[t].call = "rdlink", req_rdlink(t, thread[t].at = "found", Done(t))
      PROVE  VfsInv'
  <2>1. thread[t].at = "fs" => Freed(Done(t), t)
    BY <1>4, DoneFreedAt DEF Calls, LetGo
  <2>2. Sendrec(t, thread[t].at = "found", 1, Done(t)) /\ 1 = RequestGrants(thread[t].call)
    BY <1>4 DEF req_rdlink, RequestGrants
  <2> QED  BY <1>4, <2>1, <2>2, SendrecStep DEF Calls
<1> QED  BY <1>1, <1>2, <1>3, <1>4 DEF do_rdlink

LEMMA InodeviewerStep ==
  ASSUME VfsInv, NEW t \in Threads, do_inodeviewer(t)
  PROVE  VfsInv'
<1>1. CASE Begin(t, "report", {Device})
  BY <1>1, BeginStep, VnodesAre DEF Calls
<1>2. ASSUME thread[t].call = "report", FirstPath(t, "read", "read")
      PROVE  VfsInv'
  BY <1>2, FirstPathStep DEF Calls
<1>3. ASSUME thread[t].call = "report", thread[t].at = "found", locks' = Done(t), GoTo(t, "ready"),
             UNCHANGED <<grants, v_size, size>>
      PROVE  VfsInv'
  BY <1>3, LetGoStep
<1>4. ASSUME thread[t].call = "report", req_inodeviewer(t, thread[t].at = "ready", locks)
      PROVE  VfsInv'
  <2>1. thread[t].at = "fs" => Freed(locks, t)
    BY <1>4, NothingLeft DEF LetGo
  <2>2. Sendrec(t, thread[t].at = "ready", 0, locks) /\ 0 = RequestGrants(thread[t].call)
    BY <1>4 DEF req_inodeviewer, RequestGrants
  <2> QED  BY <1>4, <2>1, <2>2, SendrecStep DEF Calls
<1> QED  BY <1>1, <1>2, <1>3, <1>4 DEF do_inodeviewer

LEMMA DamageinodeStep ==
  ASSUME VfsInv, NEW t \in Threads, do_damageinode(t)
  PROVE  VfsInv'
<1>1. CASE Begin(t, "record", {Device})
  BY <1>1, BeginStep, VnodesAre DEF Calls
<1>2. ASSUME thread[t].call = "record", FirstPath(t, "read", "read")
      PROVE  VfsInv'
  BY <1>2, FirstPathStep DEF Calls
<1>3. ASSUME thread[t].call = "record", req_damageinode(t, thread[t].at = "found", Done(t))
      PROVE  VfsInv'
  <2>1. thread[t].at = "fs" => Freed(Done(t), t)
    BY <1>3, DoneFreedAt DEF Calls, LetGo
  <2>2. Sendrec(t, thread[t].at = "found", 1, Done(t)) /\ 1 = RequestGrants(thread[t].call)
    BY <1>3 DEF req_damageinode, RequestGrants
  <2> QED  BY <1>3, <2>1, <2>2, SendrecStep DEF Calls
<1> QED  BY <1>1, <1>2, <1>3 DEF do_damageinode
-----------------------------------------------------------------------------
LEMMA InitHolds == Init => VfsInv
<1> SUFFICES ASSUME Init PROVE VfsInv
  OBVIOUS
<1>1. locks \in LockState /\ locks.fault = FALSE
  BY DEF Init, LockState, Modes
<1>2. /\ \A v \in Volumes : \A t \in Threads : locks.vmnt[v][t] = "free"
      /\ \A x \in Vnodes : \A t \in Threads :
            locks.vnode[x][t] = "free" /\ locks.refs[t][x] = 0
  BY DEF Init
<1>3. Sound(locks)
  BY <1>1, <1>2 DEF Sound
<1>4. Idle \in ThreadState /\ Idle.at = "idle"
  BY IdleFacts DEF Shape, Idle
<1>5. /\ thread \in [Threads -> ThreadState] /\ grants \in [Threads -> Int]
      /\ \A t \in Threads : thread[t] = Idle /\ grants[t] = 0
  BY <1>4 DEF Init
<1>6. ASSUME NEW t \in Threads PROVE Shape(thread[t]) /\ Holds(thread[t], locks, grants[t], t)
  <2>1. Freed(locks, t)
    BY <1>1, <1>2 DEF Freed, Others
  <2> QED  BY <1>5, <2>1, IdleFacts
<1>7. v_size \in [Files -> Lengths] /\ size \in [Files -> Lengths] /\ SizesAgree
  BY DEF Init, SizesAgree
<1>8. \A t \in Threads : thread[t].at # "truncated"
  BY <1>4, <1>5
<1> QED  BY <1>3, <1>5, <1>6, <1>7, <1>8 DEF VfsInv

LEMMA StepHolds == VfsInv /\ [Next]_vars => VfsInv'
<1> SUFFICES ASSUME VfsInv, [Next]_vars PROVE VfsInv'
  OBVIOUS
<1>1. ASSUME NEW t \in Threads, Step(t) PROVE VfsInv'
  BY <1>1, LinkStep, UnlinkStep, RenameStep, TruncateStep, FtruncateStep, SlinkStep,
     RdlinkStep, InodeviewerStep, DamageinodeStep DEF Step
<1>2. CASE UNCHANGED vars
  BY <1>2 DEF vars, VfsInv, SizesAgree
<1> QED  BY <1>1, <1>2 DEF Next

\* A thread's place says what it holds, in every reachable state: the inductive
\* invariant under what follows.
THEOREM PlaceSaysWhatIsHeld == Spec => []VfsInv
BY InitHolds, StepHolds, PTL DEF Spec

\* Every return of the calls of link.c and new.c gives back all its call has
\* locked, referred to or granted, and drops nothing it does not hold.
THEOREM LocksReleased == Spec => []AllReleased
<1>1. VfsInv => AllReleased
  <2> SUFFICES ASSUME VfsInv PROVE AllReleased
    OBVIOUS
  <2>1. ASSUME NEW t \in Threads, thread[t] = Idle
        PROVE  /\ \A v \in Volumes : locks.vmnt[v][t] = "free"
               /\ \A x \in Vnodes : locks.vnode[x][t] = "free" /\ locks.refs[t][x] = 0
               /\ grants[t] = 0
    <3>1. Idle.at = "idle" /\ Idle.vp = NULL /\ Idle.vmp = NULL /\ Idle.vp2 = NULL
          /\ Idle.vmp2 = NULL /\ Idle.vp2_l = NULL
      BY DEF Idle
    <3>2. /\ HoldsVmnt(Idle, locks, t) /\ HoldsVnode(Idle, locks, t)
          /\ HoldsRefs(Idle, locks, t) /\ HoldsGrants(Idle, grants[t], t)
          /\ NULL \notin Vnodes /\ NULL \notin Volumes
      BY <2>1, PlaceFacts
    <3>3. ~LetGo(Idle)
      BY <3>1 DEF LetGo
    <3>4. \A v \in Volumes : locks.vmnt[v][t] = "free"
      BY <3>1, <3>2, <3>3 DEF HoldsVmnt
    <3>5. \A x \in Vnodes : locks.vnode[x][t] = "free"
      BY <3>1, <3>2, <3>3 DEF HoldsVnode
    <3>6. \A x \in Vnodes : locks.refs[t][x] = 0
      BY <3>1, <3>2, <3>3 DEF HoldsRefs
    <3>7. grants[t] = 0
      BY <3>1, <3>2 DEF HoldsGrants
    <3> QED  BY <3>4, <3>5, <3>6, <3>7
  <2>2. ~locks.fault
    BY DEF VfsInv, Sound
  <2> QED  BY <2>1, <2>2 DEF AllReleased
<1> QED  BY <1>1, PlaceSaysWhatIsHeld, PTL

\* While the file server removes or renames an entry, no other call has a lock
\* on the volume, or a request under way there, but ftruncate, do_inodeviewer and
\* do_rcmkdir, which lock no volume and may come at any moment.
THEOREM RemovalsAlone == Spec => []RemovalAlone
<1>1. VfsInv => RemovalAlone
  <2> SUFFICES ASSUME VfsInv, NEW t \in Threads, NEW u \in Threads, Removing(t), u # t
               PROVE  /\ locks.vmnt[thread[t].vmp][u] = "free"
                      /\ (/\ thread[u].at = "fs" /\ thread[u].vp # NULL
                          /\ VolumeOf[thread[u].vp] = thread[t].vmp)
                            => thread[u].call \in {"ftruncate", "report"}
    BY DEF RemovalAlone
  <2>1. thread[t].call \in {"unlink", "rename"} /\ thread[t].at = "fs"
    BY DEF Removing
  <2>2. thread[t].vmp \in Volumes
    BY <2>1, PlaceFacts DEF Shape, ThreadState
  <2>3. locks.vmnt[thread[t].vmp][t] = "excl"
    BY <2>1, PlaceFacts DEF HoldsAlone
  <2>4. locks.vmnt[thread[t].vmp][u] = "free"
    BY <2>2, <2>3 DEF VfsInv, Sound
  <2>5. ASSUME thread[u].at = "fs", thread[u].vp # NULL,
               VolumeOf[thread[u].vp] = thread[t].vmp,
               thread[u].call \notin {"ftruncate", "report"}
        PROVE  FALSE
    <3>1. thread[u].vmp = thread[t].vmp
      BY <2>5, PlaceFacts DEF Shape
    <3>2. HoldsVmnt(thread[u], locks, u)
      BY PlaceFacts
    <3> QED  BY <2>2, <2>4, <2>5, <3>1, <3>2 DEF HoldsVmnt, LetGo
  <2> QED  BY <2>4, <2>5
<1> QED  BY <1>1, PlaceSaysWhatIsHeld, PTL

\* The length VFS keeps of a file is the file's, but while the answer to a
\* truncation of it is under way.
THEOREM LengthsAgree == Spec => []SizesAgree
<1>1. VfsInv => SizesAgree
  BY DEF VfsInv
<1> QED  BY <1>1, PlaceSaysWhatIsHeld, PTL
-----------------------------------------------------------------------------
(* Who waits for whom.                                                       *)

Strong == {"write", "excl"}

\* Where a call's paths lie: an entry tested under a sticky directory is on its
\* volume, a second volume is that of the second path, and a removal or rename
\* that has checked its directories has them on one volume.
OnVolumes(p) ==
    /\ p.at \in {"stickylookup", "sticky"} =>
          VolumeOf[p.wanted] = p.vmp /\ p.call \in {"unlink", "rename"}
    /\ p.at \in {"vmnt2", "lookup2", "vnode2"} => p.call \in {"link", "rename"}
    /\ p.at = "checked" => p.call \in {"unlink", "rename"}
    /\ p.at = "checked" /\ p.vp2 # NULL => VolumeOf[p.vp2] = p.vmp
    /\ p.vmp2 # NULL => p.vmp2 = VolumeOf[IF p.vp2 = NULL THEN p.wanted ELSE p.vp2]

\* The calls that change a directory hold the volume of their first path against
\* each other; alone on it is only who has upgraded.
VolumeLocks(p, l, t) ==
    /\ p.call \in {"link", "unlink", "rename", "slink"} /\ p.vmp # NULL =>
          l.vmnt[p.vmp][t] \in Strong
    /\ \A v \in Volumes : l.vmnt[v][t] = "excl" =>
          p.call \in {"unlink", "rename"} /\ p.at \in {"ready", "fs"}

OneWriter(l) == \A v \in Volumes : \A t, u \in Threads :
    l.vmnt[v][t] \in Strong /\ l.vmnt[v][u] \in Strong => t = u

LocksInv ==
    /\ VfsInv /\ OneWriter(locks)
    /\ \A t \in Threads : OnVolumes(thread[t]) /\ VolumeLocks(thread[t], locks, t)

\* Locks m are l with some of t's freed.
FreesVolumes(l, m, t) ==
    /\ \A v \in Volumes : m.vmnt[v][t] \in {"free", l.vmnt[v][t]}
    /\ \A v \in Volumes : \A u \in Threads \ {t} : m.vmnt[v][u] = l.vmnt[v][u]

Frees(l, m, t) == m \in LockState /\ FreesVolumes(l, m, t) /\ Others(l, m, t)

LEMMA FreesMore ==
  ASSUME NEW l, NEW m, NEW n, NEW t, Frees(l, m, t), Frees(m, n, t)
  PROVE  Frees(l, n, t)
BY DEF Frees, FreesVolumes, Others

LEMMA UnlockFrees ==
  ASSUME NEW l \in LockState, NEW t \in Threads, NEW v, NEW x
  PROVE  /\ Frees(l, unlock_vmnt(l, t, v), t)
         /\ Frees(l, unlock_vnode(l, t, x), t)
         /\ Frees(l, put_vnode(l, t, x), t)
<1>1. Frees(l, unlock_vmnt(l, t, v), t)
  BY DEF Frees, FreesVolumes, Others, unlock_vmnt, LockState, Modes
<1>2. Frees(l, unlock_vnode(l, t, x), t)
  BY DEF Frees, FreesVolumes, Others, unlock_vnode, LockState, Modes
<1>3. Frees(l, put_vnode(l, t, x), t)
  <2>1. PICK m : m = put_vnode(l, t, x)
    OBVIOUS
  <2>2. PICK refs : refs = [l.refs EXCEPT ![t] = [l.refs[t] EXCEPT ![x] = l.refs[t][x] - 1]]
    OBVIOUS
  <2>3. m = [l EXCEPT !.refs = refs, !.fault = l.fault \/ l.refs[t][x] = 0]
    BY <2>1, <2>2 DEF put_vnode, LockState
  <2>4. refs \in [Threads -> [Vnodes -> Int]]
    <3>1. l.refs \in [Threads -> [Vnodes -> Int]]
      BY DEF LockState
    <3>2. l.refs[t] \in [Vnodes -> Int]
      BY <3>1
    <3>3. [l.refs[t] EXCEPT ![x] = l.refs[t][x] - 1] \in [Vnodes -> Int]
      <4>1. CASE x \in Vnodes
        BY <3>2, <4>1
      <4>2. CASE x \notin Vnodes
        BY <3>2, <4>2
      <4> QED  BY <4>1, <4>2
    <3> QED  BY <2>2, <3>1, <3>3
  <2>5. m \in LockState /\ m.vmnt = l.vmnt /\ m.vnode = l.vnode /\ m.refs = refs
    BY <2>3, <2>4 DEF LockState
  <2>6. \A u \in Threads \ {t} : refs[u] = l.refs[u]
    BY <2>2 DEF LockState
  <2> QED  BY <2>1, <2>5, <2>6 DEF Frees, FreesVolumes, Others
<1> QED  BY <1>1, <1>2, <1>3

LEMMA DoneFrees ==
  ASSUME VfsInv, NEW t \in Threads
  PROVE  Frees(locks, Done(t), t) /\ Done(t) \in LockState
<1>0. locks \in LockState
  BY PlaceFacts
<1>1. PICK a : a = unlock_vnode(locks, t, thread[t].vp)
  OBVIOUS
<1>2. PICK b : b = unlock_vmnt(a, t, thread[t].vmp)
  OBVIOUS
<1>3. Frees(locks, a, t) /\ a \in LockState
  BY <1>0, <1>1, UnlockFrees DEF Frees
<1>4. Frees(a, b, t) /\ b \in LockState
  BY <1>2, <1>3, UnlockFrees DEF Frees
<1>5. Frees(b, Done(t), t) /\ Done(t) \in LockState
  <2>1. Frees(b, put_vnode(b, t, thread[t].vp), t)
    BY <1>4, UnlockFrees
  <2>2. put_vnode(b, t, thread[t].vp) = Done(t)
    BY <1>1, <1>2 DEF Done, Release
  <2> QED  BY <2>1, <2>2 DEF Frees
<1>6. Frees(locks, b, t)
  BY <1>3, <1>4, FreesMore
<1> QED  BY <1>5, <1>6, FreesMore

LEMMA DoneLinkFrees ==
  ASSUME VfsInv, NEW t \in Threads
  PROVE  Frees(locks, DoneLink(t), t)
<1>0. locks \in LockState
  BY PlaceFacts
<1>1. PICK p : p = thread[t]
  OBVIOUS
<1>2. PICK a : a = unlock_vnode(locks, t, p.vp)
  OBVIOUS
<1>3. PICK b : b = unlock_vnode(a, t, p.vp2)
  OBVIOUS
<1>4. PICK c : c = IF p.vmp2 = NULL THEN b ELSE unlock_vmnt(b, t, p.vmp2)
  OBVIOUS
<1>5. PICK d : d = unlock_vmnt(c, t, p.vmp)
  OBVIOUS
<1>6. PICK e : e = put_vnode(d, t, p.vp)
  OBVIOUS
<1>7. Frees(locks, a, t) /\ a \in LockState
  BY <1>0, <1>2, UnlockFrees DEF Frees
<1>8. Frees(a, b, t) /\ b \in LockState
  BY <1>3, <1>7, UnlockFrees DEF Frees
<1>9. Frees(b, c, t) /\ c \in LockState
  <2>1. CASE p.vmp2 = NULL
    BY <1>4, <1>8, <2>1 DEF Frees, FreesVolumes, Others
  <2>2. CASE p.vmp2 # NULL
    BY <1>4, <1>8, <2>2, UnlockFrees DEF Frees
  <2> QED  BY <2>1, <2>2
<1>10. Frees(c, d, t) /\ d \in LockState
  BY <1>5, <1>9, UnlockFrees DEF Frees
<1>11. Frees(d, e, t) /\ e \in LockState
  BY <1>6, <1>10, UnlockFrees DEF Frees
<1>12. Frees(e, DoneLink(t), t)
  BY <1>1, <1>2, <1>3, <1>4, <1>5, <1>6, <1>11, UnlockFrees DEF DoneLink
<1> QED  BY <1>7, <1>8, <1>9, <1>10, <1>11, <1>12, FreesMore

LEMMA DoneRenameFrees ==
  ASSUME VfsInv, NEW t \in Threads
  PROVE  Frees(locks, DoneRename(t), t)
<1>0. locks \in LockState
  BY PlaceFacts
<1>1. PICK p : p = thread[t]
  OBVIOUS
<1>2. PICK a : a = unlock_vnode(locks, t, p.vp)
  OBVIOUS
<1>3. PICK b : b = unlock_vmnt(a, t, p.vmp)
  OBVIOUS
<1>4. PICK c : c = IF p.vp2_l = NULL THEN b ELSE unlock_vnode(b, t, p.vp2_l)
  OBVIOUS
<1>5. PICK d : d = IF p.vmp2 = NULL THEN c ELSE unlock_vmnt(c, t, p.vmp2)
  OBVIOUS
<1>6. PICK e : e = put_vnode(d, t, p.vp)
  OBVIOUS
<1>7. Frees(locks, a, t) /\ a \in LockState
  BY <1>0, <1>2, UnlockFrees DEF Frees
<1>8. Frees(a, b, t) /\ b \in LockState
  BY <1>3, <1>7, UnlockFrees DEF Frees
<1>9. Frees(b, c, t) /\ c \in LockState
  <2>1. CASE p.vp2_l = NULL
    BY <1>4, <1>8, <2>1 DEF Frees, FreesVolumes, Others
  <2>2. CASE p.vp2_l # NULL
    BY <1>4, <1>8, <2>2, UnlockFrees DEF Frees
  <2> QED  BY <2>1, <2>2
<1>10. Frees(c, d, t) /\ d \in LockState
  <2>1. CASE p.vmp2 = NULL
    BY <1>5, <1>9, <2>1 DEF Frees, FreesVolumes, Others
  <2>2. CASE p.vmp2 # NULL
    BY <1>5, <1>9, <2>2, UnlockFrees DEF Frees
  <2> QED  BY <2>1, <2>2
<1>11. Frees(d, e, t) /\ e \in LockState
  BY <1>6, <1>10, UnlockFrees DEF Frees
<1>12. Frees(e, DoneRename(t), t)
  BY <1>1, <1>2, <1>3, <1>4, <1>5, <1>6, <1>11, UnlockFrees DEF DoneRename
<1> QED  BY <1>7, <1>8, <1>9, <1>10, <1>11, <1>12, FreesMore
-----------------------------------------------------------------------------
\* The other threads are where they were, with the volumes they had.
OthersStay(t) ==
    \A u \in Threads \ {t} :
        thread'[u] = thread[u] /\ \A v \in Volumes : locks'.vmnt[v][u] = locks.vmnt[v][u]

LEMMA OrderKept ==
  ASSUME LocksInv, VfsInv', NEW t \in Threads, OthersStay(t),
         OnVolumes(thread'[t]), VolumeLocks(thread'[t], locks', t),
         \A v \in Volumes : locks'.vmnt[v][t] \in Strong =>
            \/ locks.vmnt[v][t] \in Strong
            \/ \A u \in Threads \ {t} : locks.vmnt[v][u] \notin Strong
  PROVE  LocksInv'
<1>1. ASSUME NEW v \in Volumes, NEW a \in Threads, NEW b \in Threads,
             locks'.vmnt[v][a] \in Strong, locks'.vmnt[v][b] \in Strong
      PROVE  a = b
  BY <1>1 DEF LocksInv, OneWriter, OthersStay
<1>2. ASSUME NEW u \in Threads
      PROVE  OnVolumes(thread'[u]) /\ VolumeLocks(thread'[u], locks', u)
  <2>1. CASE u = t
    BY <2>1
  <2>2. CASE u # t
    <3>1. thread'[u] = thread[u] /\ OnVolumes(thread[u]) /\ VolumeLocks(thread[u], locks, u)
      BY <2>2 DEF LocksInv, OthersStay
    <3>2. \A v \in Volumes : locks'.vmnt[v][u] = locks.vmnt[v][u]
      BY <2>2 DEF OthersStay
    <3>3. thread[u].vmp \in Volumes \cup {NULL}
      BY PlaceFacts DEF LocksInv, ThreadState
    <3> QED  BY <3>1, <3>2, <3>3 DEF VolumeLocks
  <2> QED  BY <2>1, <2>2
<1>3. OneWriter(locks)'
  BY <1>1 DEF OneWriter
<1> QED  BY <1>2, <1>3 DEF LocksInv

\* A step that only frees locks.
LEMMA FreesKept ==
  ASSUME LocksInv, VfsInv', NEW t \in Threads,
         \A u \in Threads \ {t} : thread'[u] = thread[u], FreesVolumes(locks, locks', t),
         OnVolumes(thread'[t]), VolumeLocks(thread'[t], locks', t)
  PROVE  LocksInv'
<1>1. OthersStay(t)
  BY DEF OthersStay, FreesVolumes
<1>2. \A v \in Volumes : locks'.vmnt[v][t] \in Strong => locks.vmnt[v][t] \in Strong
  BY DEF FreesVolumes, Strong
<1> QED  BY <1>1, <1>2, OrderKept

LEMMA ReturnKept ==
  ASSUME LocksInv, VfsInv', NEW t \in Threads, NEW l, Return(t, l), Frees(locks, l, t)
  PROVE  LocksInv'
<1>1. locks' = l /\ thread'[t] = Idle /\ \A u \in Threads \ {t} : thread'[u] = thread[u]
  BY DEF Return, LocksInv, VfsInv
<1>2. /\ Idle.at = "idle" /\ Idle.call = NULL /\ Idle.vp = NULL /\ Idle.vmp = NULL
      /\ Idle.vp2 = NULL /\ Idle.vmp2 = NULL /\ Idle.vp2_l = NULL
  BY DEF Idle
<1>3. OnVolumes(thread'[t])
  BY <1>1, <1>2 DEF OnVolumes
<1>4. \A v \in Volumes : locks'.vmnt[v][t] = "free"
  <2>1. HoldsVmnt(Idle, locks', t)
    BY <1>1 DEF VfsInv, Holds
  <2>2. ~LetGo(Idle)
    BY <1>2 DEF LetGo
  <2> QED  BY <1>2, <2>1, <2>2, VfsAssumption DEF HoldsVmnt
<1>5. VolumeLocks(thread'[t], locks', t)
  BY <1>1, <1>2, <1>4 DEF VolumeLocks
<1> QED  BY <1>1, <1>3, <1>5, FreesKept DEF Frees

\* A step that takes no lock on a volume, and frees none.
LEMMA MoveKept ==
  ASSUME LocksInv, VfsInv', NEW t \in Threads,
         \A u \in Threads \ {t} : thread'[u] = thread[u],
         \A v \in Volumes : \A u \in Threads : locks'.vmnt[v][u] = locks.vmnt[v][u],
         thread'[t].call = thread[t].call, thread'[t].vmp = thread[t].vmp,
         thread[t].at \in {"ready", "fs"} => thread'[t].at \in {"ready", "fs"},
         OnVolumes(thread'[t])
  PROVE  LocksInv'
<1>1. FreesVolumes(locks, locks', t)
  BY DEF FreesVolumes
<1>2. VolumeLocks(thread[t], locks, t) /\ thread[t].vmp \in Volumes \cup {NULL}
  BY PlaceFacts DEF LocksInv, ThreadState
<1>3. VolumeLocks(thread'[t], locks', t)
  BY <1>2 DEF VolumeLocks
<1> QED  BY <1>1, <1>3, FreesKept

\* What a thread's record says after a step that moves it on, with its vmp as it was.
Goes(t, a, w) ==
    /\ \A u \in Threads \ {t} : thread'[u] = thread[u]
    /\ thread'[t].at = a /\ thread'[t].wanted = w
    /\ thread'[t].call = thread[t].call /\ thread'[t].vp = thread[t].vp
    /\ thread'[t].vmp = thread[t].vmp /\ thread'[t].vp2 = thread[t].vp2
    /\ thread'[t].vmp2 = thread[t].vmp2

LEMMA GoToGoes ==
  ASSUME VfsInv, NEW t \in Threads, NEW a, GoTo(t, a)
  PROVE  Goes(t, a, thread[t].wanted)
<1>1. thread \in [Threads -> ThreadState] /\ thread[t] \in ThreadState
  BY DEF VfsInv
<1> QED  BY <1>1 DEF Goes, GoTo, ThreadState

LEMMA GoForGoes ==
  ASSUME VfsInv, NEW t \in Threads, NEW a, NEW w,
         thread' = [thread EXCEPT ![t].at = a, ![t].wanted = w]
  PROVE  Goes(t, a, w)
<1>1. thread \in [Threads -> ThreadState] /\ thread[t] \in ThreadState
  BY DEF VfsInv
<1> QED  BY <1>1 DEF Goes, ThreadState

LEMMA GoesKept ==
  ASSUME LocksInv, VfsInv', NEW t \in Threads, NEW a, NEW w, Goes(t, a, w),
         \A v \in Volumes : \A u \in Threads : locks'.vmnt[v][u] = locks.vmnt[v][u],
         thread[t].at \in {"ready", "fs"} => a \in {"ready", "fs"},
         a \in {"stickylookup", "sticky"} =>
            VolumeOf[w] = thread[t].vmp /\ thread[t].call \in {"unlink", "rename"},
         a \in {"vmnt2", "lookup2", "vnode2"} => thread[t].call \in {"link", "rename"},
         a = "checked" => thread[t].call \in {"unlink", "rename"},
         a = "checked" /\ thread[t].vp2 # NULL => VolumeOf[thread[t].vp2] = thread[t].vmp,
         thread[t].vmp2 # NULL /\ thread[t].vp2 = NULL => w = thread[t].wanted
  PROVE  LocksInv'
<1>1. OnVolumes(thread[t])
  BY DEF LocksInv
<1>2. OnVolumes(thread'[t])
  BY <1>1 DEF OnVolumes, Goes
<1> QED  BY <1>2, MoveKept DEF Goes
-----------------------------------------------------------------------------
LEMMA BeginKept ==
  ASSUME LocksInv, VfsInv', NEW t \in Threads, NEW call, NEW places, Begin(t, call, places)
  PROVE  LocksInv'
<1>1. PICK x \in places : thread' = [thread EXCEPT ![t] =
         [Idle EXCEPT !.call = call, !.wanted = x,
                      !.at = IF call = "ftruncate" THEN "filp" ELSE "vmnt"]]
  BY DEF Begin
<1>2. thread[t] = Idle /\ locks' = locks
  BY DEF Begin
<1>3. /\ \A u \in Threads \ {t} : thread'[u] = thread[u]
      /\ thread'[t].at \in {"filp", "vmnt"} /\ thread'[t].vmp = NULL /\ thread'[t].vmp2 = NULL
  BY <1>1 DEF Idle, LocksInv, VfsInv
<1>4. OnVolumes(thread'[t])
  BY <1>3 DEF OnVolumes
<1>5. FreesVolumes(locks, locks', t)
  BY <1>2 DEF FreesVolumes
<1>6. VolumeLocks(thread[t], locks, t) /\ Idle.at = "idle"
  BY DEF LocksInv, Idle
<1>7. VolumeLocks(thread'[t], locks', t)
  BY <1>2, <1>3, <1>6 DEF VolumeLocks
<1> QED  BY <1>3, <1>4, <1>5, <1>7, FreesKept

LEMMA RefuseKept ==
  ASSUME LocksInv, VfsInv', NEW t \in Threads, NEW l, Refuse(t, l), Frees(locks, l, t)
  PROVE  LocksInv'
BY ReturnKept DEF Refuse

LEMMA SecondNameKept ==
  ASSUME LocksInv, VfsInv', NEW t \in Threads, thread[t].at \in {"found", "mine"},
         thread[t].call \in {"link", "rename"}, SecondName(t)
  PROVE  LocksInv'
<1>1. PICK x \in Dirs : thread' = [thread EXCEPT ![t].at = "vmnt2", ![t].wanted = x]
  BY DEF SecondName
<1>2. Goes(t, "vmnt2", x)
  BY <1>1, GoForGoes DEF LocksInv
<1>3. thread[t].vmp2 = NULL
  BY PlaceFacts DEF LocksInv, Shape
<1>4. locks' = locks
  BY DEF SecondName
<1> QED  BY <1>2, <1>3, <1>4, GoesKept

LEMMA CheckedKept ==
  ASSUME LocksInv, VfsInv', NEW t \in Threads, Checked(t),
         \/ thread[t].call = "unlink" /\ thread[t].at = "found"
         \/ thread[t].call = "rename" /\ thread[t].at = "found2" /\ SameVolume(t)
  PROVE  LocksInv'
<1>1. Goes(t, "checked", thread[t].wanted) /\ locks' = locks
  BY GoToGoes DEF Checked, LocksInv
<1>2. thread[t].vp2 # NULL => VolumeOf[thread[t].vp2] = thread[t].vmp
  BY PlaceFacts DEF LocksInv, Shape, SameVolume
<1> QED  BY <1>1, <1>2, GoesKept

LEMMA UpgradeKept ==
  ASSUME LocksInv, VfsInv', NEW t \in Threads, thread[t].call \in {"unlink", "rename"},
         thread[t].at = "checked", upgrade_vmnt_lock(t)
  PROVE  LocksInv'
<1>1. PICK v : v = thread[t].vmp
  OBVIOUS
<1>2. /\ VmntFree(v, t, "excl") /\ locks' = [locks EXCEPT !.vmnt[v][t] = "excl"]
      /\ GoTo(t, "ready")
  BY <1>1 DEF upgrade_vmnt_lock
<1>3. VfsInv /\ OnVolumes(thread[t]) /\ VolumeLocks(thread[t], locks, t)
  BY DEF LocksInv
<1>4. v \in Volumes /\ v # NULL
  BY <1>1, <1>3, PlaceFacts DEF Shape, ThreadState
<1>5. TakesVmnt(locks', t, v, "excl")
  BY <1>2, <1>3, <1>4, TakeVmnt
<1>6. Goes(t, "ready", thread[t].wanted)
  BY <1>2, <1>3, GoToGoes
<1>7. OthersStay(t)
  BY <1>5, <1>6 DEF OthersStay, TakesVmnt, Takes, Others, Goes
<1>8. OnVolumes(thread'[t])
  BY <1>3, <1>6 DEF OnVolumes, Goes
<1>9. \A w \in Volumes : locks'.vmnt[w][t] = IF w = v THEN "excl" ELSE locks.vmnt[w][t]
  BY <1>5 DEF TakesVmnt
<1>10. VolumeLocks(thread'[t], locks', t)
  BY <1>1, <1>3, <1>4, <1>6, <1>9 DEF VolumeLocks, Goes, Strong
<1>11. \A w \in Volumes : locks'.vmnt[w][t] \in Strong => locks.vmnt[w][t] \in Strong
  BY <1>1, <1>3, <1>4, <1>9 DEF VolumeLocks
<1> QED  BY <1>7, <1>8, <1>10, <1>11, OrderKept

LEMMA StickyKept ==
  ASSUME LocksInv, VfsInv', NEW t \in Threads, NEW next,
         \/ thread[t].call = "unlink" /\ next = "checked"
         \/ thread[t].call = "rename" /\ next = "mine",
         StickyCheck(t, next)
  PROVE  LocksInv'
<1>1. VfsInv /\ OnVolumes(thread[t])
  BY DEF LocksInv
<1>2. thread[t].at \in {"found", "stickylookup", "sticky"} =>
         thread[t].vp2 = NULL /\ thread[t].vmp2 = NULL
  BY <1>1, PlaceFacts DEF Shape
<1>3. Frees(locks, Done(t), t)
  BY <1>1, DoneFrees
<1>4. ASSUME thread[t].at = "found", NEW y, VolumeOf[y] = thread[t].vmp,
             thread' = [thread EXCEPT ![t].at = "stickylookup", ![t].wanted = y],
             UNCHANGED locks
      PROVE  LocksInv'
  <2>1. Goes(t, "stickylookup", y)
    BY <1>1, <1>4, GoForGoes
  <2> QED  BY <1>2, <1>4, <2>1, GoesKept
<1>5. ASSUME thread[t].at = "stickylookup", GoTo(t, "sticky"), UNCHANGED locks
      PROVE  LocksInv'
  <2>1. Goes(t, "sticky", thread[t].wanted)
    BY <1>1, <1>5, GoToGoes
  <2>2. VolumeOf[thread[t].wanted] = thread[t].vmp
    BY <1>1, <1>5 DEF OnVolumes
  <2> QED  BY <1>5, <2>1, <2>2, GoesKept
<1>6. ASSUME thread[t].at = "sticky", UNCHANGED locks,
             thread' = [thread EXCEPT ![t].at = next, ![t].wanted = NULL]
      PROVE  LocksInv'
  <2>1. Goes(t, next, NULL)
    BY <1>1, <1>6, GoForGoes
  <2> QED  BY <1>2, <1>6, <2>1, GoesKept
<1>7. ASSUME Return(t, Done(t)) PROVE LocksInv'
  BY <1>3, <1>7, ReturnKept
<1> QED  BY <1>4, <1>5, <1>6, <1>7 DEF StickyCheck, req_lookup

LEMMA FirstPathKept ==
  ASSUME LocksInv, VfsInv', NEW t \in Threads, thread[t].call \in Calls \ {"ftruncate"},
         NEW vmntLock \in {"read", "write"}, NEW vnodeLock \in {"read", "write"},
         thread[t].call \in {"link", "unlink", "rename", "slink"} => vmntLock = "write",
         FirstPath(t, vmntLock, vnodeLock)
  PROVE  LocksInv'
<1>1. PICK p : p = thread[t]
  OBVIOUS
<1>2. PICK x : x = p.wanted
  OBVIOUS
<1>3. PICK v : v = VolumeOf[x]
  OBVIOUS
<1>4. VfsInv /\ OnVolumes(p) /\ VolumeLocks(p, locks, t) /\ p \in ThreadState
  BY <1>1, PlaceFacts DEF LocksInv
<1>5. p.at \in {"vmnt", "lookup", "vnode"} =>
         p.vp2 = NULL /\ p.vmp2 = NULL /\ x \in Vnodes /\ v \in Volumes
  BY <1>1, <1>2, <1>3, <1>4, PlaceFacts DEF Shape, ThreadState
<1>6. CASE /\ p.at = "vmnt" /\ VmntFree(v, t, vmntLock)
           /\ locks' = [locks EXCEPT !.vmnt[v][t] = vmntLock]
           /\ thread' = [thread EXCEPT ![t].at = "lookup", ![t].vmp = v]
  <2>1. TakesVmnt(locks', t, v, vmntLock)
    BY <1>4, <1>5, <1>6, TakeVmnt
  <2>2. /\ \A u \in Threads \ {t} : thread'[u] = thread[u]
        /\ thread'[t].at = "lookup" /\ thread'[t].vmp = v /\ thread'[t].vmp2 = NULL
        /\ thread'[t].call = p.call
    BY <1>1, <1>4, <1>5, <1>6 DEF VfsInv, ThreadState
  <2>3. OthersStay(t)
    BY <2>1, <2>2 DEF OthersStay, TakesVmnt, Takes, Others
  <2>4. OnVolumes(thread'[t])
    BY <2>2 DEF OnVolumes
  <2>5. \A w \in Volumes : locks'.vmnt[w][t] = IF w = v THEN vmntLock ELSE locks.vmnt[w][t]
    BY <2>1 DEF TakesVmnt
  <2>6. VolumeLocks(thread'[t], locks', t)
    BY <1>1, <1>4, <1>5, <1>6, <2>2, <2>5 DEF VolumeLocks, Strong
  <2>7. vmntLock = "write" => \A u \in Threads \ {t} : locks.vmnt[v][u] \notin Strong
    <3>1. \A u : u \notin VmntHolders(v, t, vmntLock)
      BY <1>6 DEF VmntFree
    <3> QED  BY <3>1, VmntHoldersAre DEF Strong
  <2>8. \A w \in Volumes : locks'.vmnt[w][t] \in Strong =>
           \/ locks.vmnt[w][t] \in Strong
           \/ \A u \in Threads \ {t} : locks.vmnt[w][u] \notin Strong
    BY <2>5, <2>7 DEF Strong
  <2> QED  BY <2>3, <2>4, <2>6, <2>8, OrderKept
<1>7. CASE p.at = "lookup" /\ req_lookup(t, "vnode", unlock_vmnt(locks, t, v))
  <2>1. CASE GoTo(t, "vnode") /\ UNCHANGED locks
    <3>1. Goes(t, "vnode", thread[t].wanted)
      BY <1>4, <2>1, GoToGoes
    <3> QED  BY <1>1, <1>7, <2>1, <3>1, GoesKept
  <2>2. CASE Return(t, unlock_vmnt(locks, t, v))
    <3>1. locks \in LockState
      BY <1>4, PlaceFacts
    <3>2. Frees(locks, unlock_vmnt(locks, t, v), t)
      BY <3>1, UnlockFrees
    <3> QED  BY <2>2, <3>2, ReturnKept
  <2> QED  BY <1>7, <2>1, <2>2 DEF req_lookup
<1>8. CASE /\ p.at = "vnode" /\ VnodeFree(x, t, vnodeLock)
           /\ locks' = [locks EXCEPT !.vnode[x][t] = vnodeLock, !.refs[t][x] = @ + 1]
           /\ thread' = [thread EXCEPT ![t].at = "found", ![t].vp = x, ![t].wanted = NULL]
  <2>1. /\ \A u \in Threads \ {t} : thread'[u] = thread[u]
        /\ thread'[t].at = "found" /\ thread'[t].vmp = p.vmp /\ thread'[t].vmp2 = NULL
        /\ thread'[t].call = p.call
    BY <1>1, <1>4, <1>5, <1>8 DEF VfsInv, ThreadState
  <2>2. locks'.vmnt = locks.vmnt
    BY <1>4, <1>8 DEF VfsInv, Sound, LockState
  <2>3. OnVolumes(thread'[t])
    BY <2>1 DEF OnVolumes
  <2> QED  BY <1>1, <1>8, <2>1, <2>2, <2>3, MoveKept
<1> QED  BY <1>1, <1>2, <1>3, <1>6, <1>7, <1>8 DEF FirstPath

LEMMA SecondPathKept ==
  ASSUME LocksInv, VfsInv', NEW t \in Threads, thread[t].call \in {"link", "rename"},
         SecondPath(t, "read", "write", Done(t))
  PROVE  LocksInv'
<1>1. PICK p : p = thread[t]
  OBVIOUS
<1>2. PICK x : x = p.wanted
  OBVIOUS
<1>3. PICK v : v = VolumeOf[x]
  OBVIOUS
<1>4. VfsInv /\ OnVolumes(p) /\ VolumeLocks(p, locks, t) /\ p \in ThreadState
  BY <1>1, PlaceFacts DEF LocksInv
<1>5. p.at \in {"vmnt2", "lookup2", "vnode2"} =>
         p.vp2 = NULL /\ x \in Vnodes /\ v \in Volumes /\ x # NULL
  BY <1>1, <1>2, <1>3, <1>4, PlaceFacts DEF Shape, ThreadState
<1>6. CASE p.at = "vmnt2" /\ GoTo(t, "lookup2") /\ UNCHANGED locks
  <2>1. Goes(t, "lookup2", thread[t].wanted)
    BY <1>4, <1>6, GoToGoes
  <2> QED  BY <1>1, <1>6, <2>1, GoesKept
<1>7. CASE /\ p.at = "vmnt2" /\ locks.vmnt[v][t] = "free" /\ VmntFree(v, t, "read")
           /\ locks' = [locks EXCEPT !.vmnt[v][t] = "read"]
           /\ thread' = [thread EXCEPT ![t].at = "lookup2", ![t].vmp2 = v]
  <2>1. TakesVmnt(locks', t, v, "read")
    BY <1>4, <1>5, <1>7, TakeVmnt
  <2>2. /\ \A u \in Threads \ {t} : thread'[u] = thread[u]
        /\ thread'[t].at = "lookup2" /\ thread'[t].vmp = p.vmp /\ thread'[t].vmp2 = v
        /\ thread'[t].call = p.call /\ thread'[t].vp2 = NULL /\ thread'[t].wanted = x
    BY <1>1, <1>2, <1>4, <1>5, <1>7 DEF VfsInv, ThreadState
  <2>3. OthersStay(t)
    BY <2>1, <2>2 DEF OthersStay, TakesVmnt, Takes, Others
  <2>4. OnVolumes(thread'[t])
    BY <1>1, <1>3, <2>2 DEF OnVolumes
  <2>5. \A w \in Volumes : locks'.vmnt[w][t] = IF w = v THEN "read" ELSE locks.vmnt[w][t]
    BY <2>1 DEF TakesVmnt
  <2>6. VolumeLocks(thread'[t], locks', t)
    <3>1. locks.vmnt[v][t] \notin Strong
      BY <1>7 DEF Strong
    <3> QED  BY <1>1, <1>4, <1>7, <2>2, <2>5, <3>1, PlaceFacts DEF VolumeLocks
  <2>7. \A w \in Volumes : locks'.vmnt[w][t] \in Strong => locks.vmnt[w][t] \in Strong
    BY <2>5 DEF Strong
  <2> QED  BY <2>3, <2>4, <2>6, <2>7, OrderKept
<1>8. CASE p.at = "lookup2" /\ req_lookup(t, "vnode2",
              IF p.vmp2 = NULL THEN Done(t) ELSE unlock_vmnt(Done(t), t, p.vmp2))
  <2>1. PICK l : l = IF p.vmp2 = NULL THEN Done(t) ELSE unlock_vmnt(Done(t), t, p.vmp2)
    OBVIOUS
  <2>2. CASE GoTo(t, "vnode2") /\ UNCHANGED locks
    <3>1. Goes(t, "vnode2", thread[t].wanted)
      BY <1>4, <2>2, GoToGoes
    <3> QED  BY <1>1, <1>8, <2>2, <3>1, GoesKept
  <2>3. CASE Return(t, l)
    <3>1. Frees(locks, Done(t), t) /\ Done(t) \in LockState
      BY <1>4, DoneFrees
    <3>2. Frees(Done(t), unlock_vmnt(Done(t), t, p.vmp2), t)
      BY <3>1, UnlockFrees
    <3>3. Frees(locks, unlock_vmnt(Done(t), t, p.vmp2), t)
      BY <3>1, <3>2, FreesMore
    <3>4. Frees(locks, l, t)
      BY <2>1, <3>1, <3>3
    <3> QED  BY <2>3, <3>4, ReturnKept
  <2> QED  BY <1>8, <2>1, <2>2, <2>3 DEF req_lookup
<1>9. ASSUME p.at = "vnode2", locks'.vmnt = locks.vmnt,
             \A u \in Threads \ {t} : thread'[u] = thread[u],
             thread'[t].at = "found2", thread'[t].vp2 = x, thread'[t].vmp = p.vmp,
             thread'[t].vmp2 = p.vmp2, thread'[t].call = p.call
      PROVE  LocksInv'
  <2>1. OnVolumes(thread'[t])
    BY <1>2, <1>4, <1>5, <1>9 DEF OnVolumes
  <2> QED  BY <1>1, <1>9, <2>1, MoveKept
<1>10. CASE /\ p.at = "vnode2"
            /\ locks' = [locks EXCEPT !.refs[t][x] = @ + 1]
            /\ thread' = [thread EXCEPT ![t].at = "found2", ![t].vp2 = x, ![t].wanted = NULL]
  <2>1. locks'.vmnt = locks.vmnt
    BY <1>4, <1>10 DEF VfsInv, Sound, LockState
  <2>2. /\ \A u \in Threads \ {t} : thread'[u] = thread[u]
        /\ thread'[t].at = "found2" /\ thread'[t].vp2 = x /\ thread'[t].vmp = p.vmp
        /\ thread'[t].vmp2 = p.vmp2 /\ thread'[t].call = p.call
    BY <1>1, <1>4, <1>10 DEF VfsInv, ThreadState
  <2> QED  BY <1>9, <1>10, <2>1, <2>2
<1>11. CASE /\ p.at = "vnode2"
            /\ locks' = [locks EXCEPT !.vnode[x][t] = "write", !.refs[t][x] = @ + 1]
            /\ thread' = [thread EXCEPT ![t].at = "found2", ![t].vp2 = x,
                                        ![t].vp2_l = x, ![t].wanted = NULL]
  <2>1. locks'.vmnt = locks.vmnt
    BY <1>4, <1>11 DEF VfsInv, Sound, LockState
  <2>2. /\ \A u \in Threads \ {t} : thread'[u] = thread[u]
        /\ thread'[t].at = "found2" /\ thread'[t].vp2 = x /\ thread'[t].vmp = p.vmp
        /\ thread'[t].vmp2 = p.vmp2 /\ thread'[t].call = p.call
    BY <1>1, <1>4, <1>11 DEF VfsInv, ThreadState
  <2> QED  BY <1>9, <1>11, <2>1, <2>2
<1> QED  BY <1>1, <1>2, <1>3, <1>6, <1>7, <1>8, <1>10, <1>11 DEF SecondPath

LEMMA SendrecKept ==
  ASSUME LocksInv, VfsInv', NEW t \in Threads, NEW ready, NEW n, NEW l, Sendrec(t, ready, n, l),
         Frees(locks, l, t)
  PROVE  LocksInv'
<1>1. ASSUME GoTo(t, "fs"), UNCHANGED locks PROVE LocksInv'
  <2>1. Goes(t, "fs", thread[t].wanted)
    BY <1>1, GoToGoes DEF LocksInv
  <2> QED  BY <1>1, <2>1, GoesKept
<1>2. ASSUME Return(t, l) PROVE LocksInv'
  BY <1>2, ReturnKept
<1> QED  BY <1>1, <1>2 DEF Sendrec

LEMMA TruncateVnodeKept ==
  ASSUME LocksInv, VfsInv', NEW t \in Threads, thread[t].call \in {"truncate", "ftruncate"},
         NEW l, truncate_vnode(t, l), Frees(locks, l, t)
  PROVE  LocksInv'
<1>1. VfsInv /\ OnVolumes(thread[t]) /\ VolumeLocks(thread[t], locks, t)
  BY DEF LocksInv
<1>2. thread[t].vmp2 = NULL
  BY <1>1, PlaceFacts DEF Shape
<1>3. ASSUME thread[t].at = "found", NEW newsize, UNCHANGED locks,
             thread' = [thread EXCEPT ![t].at = "fs", ![t].length = newsize]
      PROVE  LocksInv'
  <2>1. /\ \A u \in Threads \ {t} : thread'[u] = thread[u]
        /\ thread'[t].at = "fs" /\ thread'[t].vmp = thread[t].vmp
        /\ thread'[t].vmp2 = NULL /\ thread'[t].call = thread[t].call
    BY <1>1, <1>2, <1>3 DEF VfsInv, ThreadState
  <2>2. OnVolumes(thread'[t])
    BY <2>1 DEF OnVolumes
  <2> QED  BY <1>3, <2>1, <2>2, MoveKept
<1>4. ASSUME thread[t].at = "fs", GoTo(t, "truncated"), UNCHANGED locks
      PROVE  LocksInv'
  <2>1. Goes(t, "truncated", thread[t].wanted)
    BY <1>1, <1>4, GoToGoes
  <2>2. OnVolumes(thread'[t])
    BY <1>2, <2>1 DEF OnVolumes, Goes
  <2>3. FreesVolumes(locks, locks', t)
    BY <1>4 DEF FreesVolumes
  <2>4. VolumeLocks(thread'[t], locks', t)
    BY <1>1, <1>4, <2>1 DEF VolumeLocks, Goes
  <2> QED  BY <2>1, <2>2, <2>3, <2>4, FreesKept DEF Goes
<1>5. ASSUME Return(t, l) PROVE LocksInv'
  BY <1>5, ReturnKept
<1> QED  BY <1>3, <1>4, <1>5 DEF truncate_vnode, req_ftrunc

LEMMA FilpFrees ==
  ASSUME LocksInv, NEW t \in Threads
  PROVE  Frees(locks, unlock_vnode(locks, t, thread[t].vp), t)
<1>1. locks \in LockState
  BY PlaceFacts DEF LocksInv
<1> QED  BY <1>1, UnlockFrees

LEMMA FtruncateKept ==
  ASSUME LocksInv, VfsInv', NEW t \in Threads, do_ftruncate(t)
  PROVE  LocksInv'
<1>1. PICK x : x = thread[t].wanted
  OBVIOUS
<1>2. PICK l : l = unlock_vnode(locks, t, thread[t].vp)
  OBVIOUS
<1>3. Frees(locks, l, t)
  BY <1>2, FilpFrees
<1>4. CASE Begin(t, "ftruncate", Files)
  BY <1>4, BeginKept
<1>5. ASSUME thread[t].call = "ftruncate", thread[t].at = "filp",
             locks' = [locks EXCEPT !.vnode[x][t] = "write"],
             thread' = [thread EXCEPT ![t].at = "found", ![t].vp = x, ![t].wanted = NULL]
      PROVE  LocksInv'
  <2>1. VfsInv /\ thread[t].vmp2 = NULL
    BY <1>5, PlaceFacts DEF LocksInv, Shape
  <2>2. /\ \A u \in Threads \ {t} : thread'[u] = thread[u]
        /\ thread'[t].at = "found" /\ thread'[t].vmp = thread[t].vmp
        /\ thread'[t].vmp2 = NULL /\ thread'[t].call = thread[t].call
    BY <1>5, <2>1 DEF VfsInv, ThreadState
  <2>3. locks'.vmnt = locks.vmnt
    BY <1>5, <2>1 DEF VfsInv, Sound, LockState
  <2>4. OnVolumes(thread'[t])
    BY <2>2 DEF OnVolumes
  <2> QED  BY <1>5, <2>2, <2>3, <2>4, MoveKept
<1>6. CASE Refuse(t, l)
  BY <1>3, <1>6, RefuseKept
<1>7. ASSUME thread[t].call = "ftruncate", truncate_vnode(t, l) PROVE LocksInv'
  BY <1>3, <1>7, TruncateVnodeKept
<1> QED  BY <1>1, <1>2, <1>4, <1>5, <1>6, <1>7 DEF do_ftruncate, At

LEMMA LinkKept ==
  ASSUME LocksInv, VfsInv', NEW t \in Threads, do_link(t)
  PROVE  LocksInv'
<1>1. Frees(locks, Done(t), t) /\ Frees(locks, DoneLink(t), t)
  BY DoneFrees, DoneLinkFrees DEF LocksInv
<1>2. CASE Begin(t, "link", Files)
  BY <1>2, BeginKept
<1>3. ASSUME thread[t].call = "link", FirstPath(t, "write", "read") PROVE LocksInv'
  BY <1>3, FirstPathKept DEF Calls
<1>4. ASSUME thread[t].call = "link", thread[t].at = "found", Refuse(t, Done(t)) \/ SecondName(t)
      PROVE  LocksInv'
  BY <1>1, <1>4, RefuseKept, SecondNameKept
<1>5. ASSUME thread[t].call = "link", SecondPath(t, "read", "write", Done(t)) PROVE LocksInv'
  BY <1>5, SecondPathKept
<1>6. ASSUME Refuse(t, DoneLink(t)) PROVE LocksInv'
  BY <1>1, <1>6, RefuseKept
<1>7. ASSUME req_link(t, thread[t].at = "found2" /\ SameVolume(t), DoneLink(t)) PROVE LocksInv'
  <2>1. PICK ready : ready = (thread[t].at = "found2" /\ SameVolume(t))
    OBVIOUS
  <2>2. Sendrec(t, ready, 1, DoneLink(t))
    BY <1>7, <2>1 DEF req_link
  <2> QED  BY <1>1, <2>2, SendrecKept
<1> QED  BY <1>2, <1>3, <1>4, <1>5, <1>6, <1>7 DEF do_link

LEMMA UnlinkKept ==
  ASSUME LocksInv, VfsInv', NEW t \in Threads, do_unlink(t)
  PROVE  LocksInv'
<1>1. Frees(locks, Done(t), t)
  BY DoneFrees DEF LocksInv
<1>2. CASE Begin(t, "unlink", Dirs)
  BY <1>2, BeginKept
<1>3. ASSUME thread[t].call = "unlink", FirstPath(t, RemovalVmntLock, "write") PROVE LocksInv'
  BY <1>3, FirstPathKept DEF Calls, RemovalVmntLock
<1>4. ASSUME thread[t].call = "unlink", thread[t].at = "found", Refuse(t, Done(t)) \/ Checked(t)
      PROVE  LocksInv'
  BY <1>1, <1>4, RefuseKept, CheckedKept
<1>5. ASSUME thread[t].call = "unlink", StickyCheck(t, "checked") PROVE LocksInv'
  BY <1>5, StickyKept
<1>6. ASSUME thread[t].call = "unlink", thread[t].at = "checked", upgrade_vmnt_lock(t)
      PROVE  LocksInv'
  BY <1>6, UpgradeKept
<1>7. ASSUME req_unlink(t, thread[t].at = "ready", Done(t)) PROVE LocksInv'
  BY <1>1, <1>7, SendrecKept DEF req_unlink
<1> QED  BY <1>2, <1>3, <1>4, <1>5, <1>6, <1>7 DEF do_unlink

LEMMA RenameKept ==
  ASSUME LocksInv, VfsInv', NEW t \in Threads, do_rename(t)
  PROVE  LocksInv'
<1>1. Frees(locks, Done(t), t) /\ Frees(locks, DoneRename(t), t)
  BY DoneFrees, DoneRenameFrees DEF LocksInv
<1>2. CASE Begin(t, "rename", Dirs)
  BY <1>2, BeginKept
<1>3. ASSUME thread[t].call = "rename", FirstPath(t, RemovalVmntLock, "write") PROVE LocksInv'
  BY <1>3, FirstPathKept DEF Calls, RemovalVmntLock
<1>4. ASSUME thread[t].call = "rename", StickyCheck(t, "mine") PROVE LocksInv'
  BY <1>4, StickyKept
<1>5. ASSUME thread[t].call = "rename", thread[t].at \in {"found", "mine"},
             Refuse(t, Done(t)) \/ SecondName(t)
      PROVE  LocksInv'
  BY <1>1, <1>5, RefuseKept, SecondNameKept
<1>6. ASSUME thread[t].call = "rename", SecondPath(t, "read", "write", Done(t)) PROVE LocksInv'
  BY <1>6, SecondPathKept
<1>7. ASSUME Refuse(t, DoneRename(t)) PROVE LocksInv'
  BY <1>1, <1>7, RefuseKept
<1>8. ASSUME thread[t].call = "rename", thread[t].at = "found2", SameVolume(t), Checked(t)
      PROVE  LocksInv'
  BY <1>8, CheckedKept
<1>9. ASSUME thread[t].call = "rename", thread[t].at = "checked", upgrade_vmnt_lock(t)
      PROVE  LocksInv'
  BY <1>9, UpgradeKept
<1>10. ASSUME req_rename(t, thread[t].at = "ready", DoneRename(t)) PROVE LocksInv'
  BY <1>1, <1>10, SendrecKept DEF req_rename
<1> QED  BY <1>2, <1>3, <1>4, <1>5, <1>6, <1>7, <1>8, <1>9, <1>10 DEF do_rename

\* The calls with one path, and no upgrade.
LEMMA OnePathKept ==
  ASSUME LocksInv, VfsInv', NEW t \in Threads,
         do_truncate(t) \/ do_slink(t) \/ do_rdlink(t) \/ do_inodeviewer(t) \/ do_damageinode(t)
  PROVE  LocksInv'
<1>1. Frees(locks, Done(t), t) /\ Frees(locks, locks, t)
  BY DoneFrees DEF LocksInv, VfsInv, Sound, Frees, FreesVolumes, Others
<1>2. ASSUME NEW call, NEW places, Begin(t, call, places) PROVE LocksInv'
  BY <1>2, BeginKept
<1>3. ASSUME NEW mode \in {"read", "write"}, FirstPath(t, "read", mode),
             thread[t].call \in {"truncate", "rdlink", "report", "record"}
      PROVE  LocksInv'
  BY <1>3, FirstPathKept DEF Calls
<1>4. ASSUME FirstPath(t, "write", "write"), thread[t].call = "slink" PROVE LocksInv'
  BY <1>4, FirstPathKept DEF Calls
<1>5. ASSUME Refuse(t, Done(t)) PROVE LocksInv'
  BY <1>1, <1>5, RefuseKept
<1>6. ASSUME thread[t].call = "truncate", truncate_vnode(t, Done(t)) PROVE LocksInv'
  BY <1>1, <1>6, TruncateVnodeKept
<1>7. ASSUME NEW ready, NEW n, Sendrec(t, ready, n, Done(t)) \/ Sendrec(t, ready, n, locks)
      PROVE  LocksInv'
  BY <1>1, <1>7, SendrecKept
<1>8. ASSUME thread[t].call = "report", thread[t].at = "found", locks' = Done(t), GoTo(t, "ready")
      PROVE  LocksInv'
  <2>1. Goes(t, "ready", thread[t].wanted) /\ VolumeLocks(thread[t], locks, t)
        /\ OnVolumes(thread[t])
    BY <1>8, GoToGoes DEF LocksInv
  <2>2. OnVolumes(thread'[t])
    BY <2>1 DEF OnVolumes, Goes
  <2>3. VolumeLocks(thread'[t], locks', t)
    BY <1>1, <1>8, <2>1 DEF VolumeLocks, Goes, Frees, FreesVolumes
  <2> QED  BY <1>1, <1>8, <2>1, <2>2, <2>3, FreesKept DEF Goes, Frees
<1>9. CASE do_truncate(t)
  BY <1>2, <1>3, <1>5, <1>6, <1>9 DEF do_truncate
<1>10. CASE do_slink(t)
  BY <1>2, <1>4, <1>5, <1>7, <1>10 DEF do_slink, req_slink
<1>11. CASE do_rdlink(t)
  BY <1>2, <1>3, <1>5, <1>7, <1>11 DEF do_rdlink, req_rdlink
<1>12. CASE do_inodeviewer(t)
  BY <1>2, <1>3, <1>7, <1>8, <1>12 DEF do_inodeviewer, req_inodeviewer
<1>13. CASE do_damageinode(t)
  BY <1>2, <1>3, <1>7, <1>13 DEF do_damageinode, req_damageinode
<1> QED  BY <1>9, <1>10, <1>11, <1>12, <1>13

LEMMA LocksInit == Init => LocksInv
<1> SUFFICES ASSUME Init PROVE LocksInv
  OBVIOUS
<1>1. /\ Idle.at = "idle" /\ Idle.call = NULL /\ Idle.vmp = NULL /\ Idle.vmp2 = NULL
  BY DEF Idle
<1>2. \A v \in Volumes : \A t \in Threads : locks.vmnt[v][t] = "free"
  BY DEF Init
<1>3. \A t \in Threads : thread[t] = Idle
  BY DEF Init
<1>4. OneWriter(locks)
  BY <1>2 DEF OneWriter, Strong
<1>5. \A t \in Threads : OnVolumes(thread[t]) /\ VolumeLocks(thread[t], locks, t)
  BY <1>1, <1>2, <1>3 DEF OnVolumes, VolumeLocks
<1> QED  BY <1>4, <1>5, InitHolds DEF LocksInv

LEMMA LocksStep == LocksInv /\ [Next]_vars => LocksInv'
<1> SUFFICES ASSUME LocksInv, [Next]_vars PROVE LocksInv'
  OBVIOUS
<1>1. VfsInv'
  BY StepHolds DEF LocksInv
<1>2. ASSUME NEW t \in Threads, Step(t) PROVE LocksInv'
  BY <1>1, <1>2, LinkKept, UnlinkKept, RenameKept, FtruncateKept, OnePathKept DEF Step
<1>3. CASE UNCHANGED vars
  BY <1>1, <1>3 DEF vars, LocksInv
<1> QED  BY <1>2, <1>3 DEF Next

\* One call at most may change directories of a volume, the calls that may hold
\* it for that, and only a removal or rename at its request is alone there; a
\* removal or rename waits to be alone when its directories are on one volume.
THEOREM OneWriterPerVolume == Spec => []LocksInv
BY LocksInit, LocksStep, PTL DEF Spec
-----------------------------------------------------------------------------
\* What keeps a thread waiting.
LEMMA BlockersAre ==
  ASSUME NEW t, NEW u \in Blockers(t)
  PROVE  /\ u \in Threads \ {t}
         /\ thread[t].at \in {"vmnt", "vmnt2", "checked", "vnode", "filp", "vnode2", "sticky"}
         /\ thread[t].at = "vmnt" => locks.vmnt[VolumeOf[thread[t].wanted]][u] \in Strong
         /\ thread[t].at = "vmnt2" => locks.vmnt[VolumeOf[thread[t].wanted]][u] = "excl"
         /\ thread[t].at = "checked" => locks.vmnt[thread[t].vmp][u] # "free"
         /\ thread[t].at \in {"vnode", "filp", "vnode2", "sticky"} =>
               locks.vnode[thread[t].wanted][u] # "free"
<1>1. PICK p : p = thread[t]
  OBVIOUS
<1>2. PICK x : x = p.wanted
  OBVIOUS
<1>3. FirstVmntLock(p.call) \in {"read", "write"} /\ FirstVnodeLock(p.call) \in {"read", "write"}
  BY DEF FirstVmntLock, FirstVnodeLock, RemovalVmntLock
<1>4. \A v, mode : mode \in {"read", "write"} /\ u \in VmntHolders(v, t, mode) =>
         u \in Threads \ {t} /\ locks.vmnt[v][u] \in Strong
  BY VmntHoldersAre DEF Strong
<1>5. \A y, mode : mode \in {"read", "write"} /\ u \in VnodeHolders(y, t, mode) =>
         u \in Threads \ {t} /\ locks.vnode[y][u] # "free"
  BY VnodeHoldersAre
<1>6. CASE p.at = "vmnt"
  <2>1. u \in VmntHolders(VolumeOf[x], t, FirstVmntLock(p.call))
    BY <1>1, <1>2, <1>6 DEF Blockers
  <2> QED  BY <1>1, <1>2, <1>3, <1>4, <1>6, <2>1
<1>7. CASE p.at = "vmnt2"
  <2>1. u \in VmntHolders(VolumeOf[x], t, "read")
    BY <1>1, <1>2, <1>7 DEF Blockers
  <2> QED  BY <1>1, <1>2, <1>7, <2>1, VmntHoldersAre
<1>8. CASE p.at = "checked"
  <2>1. u \in VmntHolders(p.vmp, t, "excl")
    BY <1>1, <1>8 DEF Blockers
  <2> QED  BY <1>1, <1>8, <2>1, VmntHoldersAre
<1>9. CASE p.at \in {"vnode", "filp", "vnode2", "sticky"}
  <2>1. PICK mode \in {"read", "write"} : u \in VnodeHolders(x, t, mode)
    BY <1>1, <1>2, <1>3, <1>9 DEF Blockers
  <2> QED  BY <1>1, <1>2, <1>5, <1>9, <2>1
<1>10. p.at \in {"vmnt", "vmnt2", "checked", "vnode", "filp", "vnode2", "sticky"}
  BY <1>1 DEF Blockers
<1> QED  BY <1>1, <1>6, <1>7, <1>8, <1>9, <1>10

\* Where a thread may wait for a lock.
WaitPlaces == {"vmnt", "vmnt2", "checked", "vnode", "filp", "vnode2", "sticky"}

\* A waiting thread that has a vnode locked holds its volume to change directories.
LEMMA HolderWrites ==
  ASSUME LocksInv, NEW z \in Threads, thread[z].at \in WaitPlaces,
         NEW x \in Vnodes, locks.vnode[x][z] # "free"
  PROVE  /\ locks.vmnt[VolumeOf[x]][z] \in Strong
         /\ thread[z].at \in {"checked", "vmnt2", "vnode2", "sticky"}
         /\ thread[z].at # "checked" => x = thread[z].vp
<1>1. PICK p : p = thread[z]
  OBVIOUS
<1>2. /\ Shape(p) /\ p \in ThreadState /\ OnVolumes(p) /\ VolumeLocks(p, locks, z)
      /\ HoldsVnode(p, locks, z)
  BY <1>1, PlaceFacts DEF LocksInv
<1>3. x \in {p.vp, p.vp2_l} /\ x # NULL
  BY <1>2, VfsAssumption DEF HoldsVnode
<1>4. p.vp # NULL
  BY <1>2, <1>3 DEF Shape
<1>5. p.at \in {"checked", "vmnt2", "vnode2", "sticky"}
  BY <1>1, <1>2, <1>4 DEF Shape, WaitPlaces
<1>6. p.call \in {"link", "unlink", "rename"}
  BY <1>2, <1>5 DEF OnVolumes
<1>7. p.vmp # NULL /\ p.vmp = VolumeOf[p.vp]
  BY <1>2, <1>4, <1>5, <1>6 DEF Shape
<1>8. p.at # "checked" => p.vp2_l = NULL
  BY <1>2, <1>5 DEF Shape
<1>9. VolumeOf[x] = p.vmp
  <2>1. CASE x = p.vp
    BY <1>7, <2>1
  <2>2. CASE x # p.vp
    <3>1. p.at = "checked" /\ x = p.vp2_l
      BY <1>3, <1>5, <1>8, <2>2
    <3>2. p.vp2 # NULL /\ x = p.vp2
      BY <1>2, <1>3, <3>1 DEF Shape
    <3> QED  BY <1>2, <3>1, <3>2 DEF OnVolumes
  <2> QED  BY <2>1, <2>2
<1> QED  BY <1>1, <1>2, <1>3, <1>5, <1>6, <1>7, <1>8, <1>9 DEF VolumeLocks

\* What is known of each thread of a circle.
LEMMA StuckFacts ==
  ASSUME LocksInv, NEW S \in SUBSET Threads, Stuck(S), NEW t \in S
  PROVE  /\ t \in Threads /\ thread[t].at \in WaitPlaces
         /\ \E u \in S : u \in Blockers(t)
         /\ Shape(thread[t]) /\ thread[t] \in ThreadState /\ OnVolumes(thread[t])
         /\ VolumeLocks(thread[t], locks, t) /\ HoldsVmnt(thread[t], locks, t)
         /\ ~LetGo(thread[t])
<1>1. PICK u \in S : u \in Blockers(t)
  BY DEF Stuck
<1>2. thread[t].at \in WaitPlaces
  BY <1>1, BlockersAre DEF WaitPlaces
<1> QED  BY <1>1, <1>2, PlaceFacts DEF LocksInv, LetGo, WaitPlaces

\* The second volume keeps nobody waiting, nor does the entry of a sticky directory.
LEMMA NeverStuck ==
  ASSUME LocksInv, NEW S \in SUBSET Threads, Stuck(S), NEW t \in S
  PROVE  thread[t].at \notin {"vmnt2", "sticky"}
<1>1. PICK p : p = thread[t]
  OBVIOUS
<1>2. PICK u \in S : u \in Blockers(t)
  BY StuckFacts
<1>3. u \in Threads \ {t} /\ t \in Threads
  BY <1>2, BlockersAre
<1>4. ASSUME p.at = "vmnt2" PROVE FALSE
  <2>1. p.wanted \in Vnodes
    BY <1>1, <1>4, StuckFacts DEF Shape, ThreadState
  <2>2. VolumeOf[p.wanted] \in Volumes
    BY <2>1, VfsAssumption
  <2>3. locks.vmnt[VolumeOf[p.wanted]][u] = "excl"
    BY <1>1, <1>2, <1>4, BlockersAre
  <2>4. VolumeLocks(thread[u], locks, u) /\ thread[u].at \in WaitPlaces
    BY StuckFacts
  <2> QED  BY <2>2, <2>3, <2>4 DEF VolumeLocks, WaitPlaces
<1>5. ASSUME p.at = "sticky" PROVE FALSE
  <2>1. p.wanted \in Vnodes /\ p.vmp \in Volumes /\ p.vmp # NULL
        /\ p.call \in {"unlink", "rename"} /\ VolumeOf[p.wanted] = p.vmp
    BY <1>1, <1>5, StuckFacts, VfsAssumption DEF Shape, ThreadState, OnVolumes
  <2>2. locks.vmnt[p.vmp][t] \in Strong
    BY <1>1, <2>1, StuckFacts DEF VolumeLocks
  <2>3. locks.vnode[p.wanted][u] # "free"
    BY <1>1, <1>2, <1>5, BlockersAre
  <2>4. locks.vmnt[p.vmp][u] \in Strong
    BY <2>1, <2>3, StuckFacts, HolderWrites
  <2> QED  BY <1>3, <2>1, <2>2, <2>4 DEF LocksInv, OneWriter
<1> QED  BY <1>1, <1>4, <1>5

\* A removal or rename that waits for readers of its volume: one of them waits
\* for a directory it has locked, or crosses.
LEMMA CheckedStuck ==
  ASSUME LocksInv, NEW S \in SUBSET Threads, Stuck(S), NEW t \in S, thread[t].at = "checked"
  PROVE  Known(S)
<1>1. PICK v : v = thread[t].vmp
  OBVIOUS
<1>2. v \in Volumes /\ v # NULL /\ thread[t].call \in {"unlink", "rename"}
  BY <1>1, StuckFacts, VfsAssumption DEF Shape, ThreadState, OnVolumes
<1>3. locks.vmnt[v][t] \in Strong
  BY <1>1, <1>2, StuckFacts DEF VolumeLocks
<1>4. PICK r \in S : r \in Blockers(t)
  BY StuckFacts
<1>5. r \in Threads \ {t} /\ t \in Threads /\ locks.vmnt[v][r] # "free"
  BY <1>1, <1>4, BlockersAre
<1>6. locks.vmnt[v][r] \notin Strong
  BY <1>2, <1>3, <1>5 DEF LocksInv, OneWriter
<1>7. locks.vmnt[v][r] = "read"
  BY <1>2, <1>5, <1>6 DEF LocksInv, VfsInv, Sound, LockState, Modes, Strong
<1>8. PICK q : q = thread[r]
  OBVIOUS
<1>9. /\ Shape(q) /\ q \in ThreadState /\ OnVolumes(q) /\ VolumeLocks(q, locks, r)
      /\ HoldsVmnt(q, locks, r) /\ ~LetGo(q) /\ q.at \in WaitPlaces
  BY <1>8, StuckFacts
<1>10. v \in {q.vmp, q.vmp2}
  BY <1>2, <1>5, <1>9 DEF HoldsVmnt
<1>11. v = q.vmp => q.call \notin {"link", "unlink", "rename", "slink"}
  BY <1>2, <1>6, <1>9 DEF VolumeLocks
<1>12. q.at \in {"vnode", "vnode2"} /\ q.wanted \in Vnodes /\ VolumeOf[q.wanted] = v
  <2>1. q.at \notin {"vmnt", "filp"}
    BY <1>2, <1>9, <1>10 DEF Shape
  <2>2. q.at \notin {"vmnt2", "sticky"}
    BY <1>8, NeverStuck
  <2>3. q.at # "checked"
    <3>1. ASSUME q.at = "checked" PROVE FALSE
      <4>1. q.call \in {"unlink", "rename"}
        BY <1>9, <3>1 DEF OnVolumes
      <4>2. v # q.vmp /\ v = q.vmp2 /\ q.vmp2 # NULL
        BY <1>2, <1>10, <1>11, <4>1
      <4>3. q.call = "rename" /\ q.vp2 # NULL
        BY <1>9, <3>1, <4>1, <4>2 DEF Shape
      <4>4. VolumeOf[q.vp2] = q.vmp /\ q.vmp2 = VolumeOf[q.vp2]
        BY <1>9, <3>1, <4>2, <4>3 DEF OnVolumes
      <4> QED  BY <4>2, <4>4
    <3> QED  BY <3>1
  <2>4. q.at \in {"vnode", "vnode2"}
    BY <1>9, <2>1, <2>2, <2>3 DEF WaitPlaces
  <2>5. q.wanted \in Vnodes
    BY <1>9, <2>4 DEF Shape, ThreadState
  <2>6. CASE q.at = "vnode"
    <3>1. q.vmp2 = NULL /\ q.call # "ftruncate"
      BY <1>9, <2>6 DEF Shape
    <3>2. q.vmp = VolumeOf[q.wanted]
      BY <1>9, <2>6, <3>1 DEF Shape
    <3> QED  BY <1>2, <1>10, <2>4, <2>5, <3>1, <3>2
  <2>7. CASE q.at = "vnode2"
    <3>1. q.call \in {"link", "rename"} /\ q.vp2 = NULL
      BY <1>9, <2>7 DEF OnVolumes, Shape
    <3>2. v = q.vmp2 /\ q.vmp2 # NULL
      BY <1>2, <1>10, <1>11, <3>1
    <3>3. q.vmp2 = VolumeOf[q.wanted]
      BY <1>9, <3>1, <3>2 DEF OnVolumes
    <3> QED  BY <2>4, <2>5, <3>2, <3>3
  <2> QED  BY <2>4, <2>6, <2>7
<1>13. PICK z \in S : z \in Blockers(r)
  BY StuckFacts
<1>14. z \in Threads /\ locks.vnode[q.wanted][z] # "free"
  BY <1>8, <1>12, <1>13, BlockersAre
<1>15. locks.vmnt[v][z] \in Strong
  BY <1>12, <1>14, StuckFacts, HolderWrites
<1>16. z = t
  BY <1>2, <1>3, <1>5, <1>14, <1>15 DEF LocksInv, OneWriter
<1>17. thread[r].wanted # NULL /\ locks.vmnt[thread[t].vmp][r] = "read"
       /\ locks.vnode[thread[r].wanted][t] # "free"
  BY <1>1, <1>7, <1>8, <1>12, <1>14, <1>16, VfsAssumption
<1> QED  BY <1>17 DEF Known

\* A second vnode.
LEMMA Vnode2Stuck ==
  ASSUME LocksInv, NEW S \in SUBSET Threads, Stuck(S), NEW t \in S, thread[t].at = "vnode2"
  PROVE  Known(S)
<1>1. SUFFICES ASSUME ~Known(S) PROVE FALSE
  OBVIOUS
<1>2. \A u \in S : ~Crossing(u) /\ thread[u].at # "checked"
  BY <1>1, CheckedStuck DEF Known
<1>3. ASSUME NEW u \in S, thread[u].at = "vnode2"
      PROVE  /\ thread[u].call = "link" /\ thread[u].vp \in Files
             /\ thread[u].wanted \in Vnodes \ Files
             /\ \E z \in S : locks.vnode[thread[u].wanted][z] # "free"
  <2>1. PICK p : p = thread[u]
    OBVIOUS
  <2>2. /\ Shape(p) /\ p \in ThreadState /\ OnVolumes(p) /\ VolumeLocks(p, locks, u)
        /\ u \in Threads
    BY <2>1, StuckFacts
  <2>3. p.call \in {"link", "rename"} /\ p.vp # NULL /\ p.vmp # NULL /\ p.vmp \in Volumes
        /\ p.wanted \in Vnodes
    BY <1>3, <2>1, <2>2 DEF OnVolumes, Shape, ThreadState
  <2>4. PICK z \in S : z \in Blockers(u)
    BY StuckFacts
  <2>5. z \in Threads \ {u} /\ locks.vnode[p.wanted][z] # "free"
    BY <1>3, <2>1, <2>4, BlockersAre
  <2>6. p.call # "rename"
    <3>1. ASSUME p.call = "rename" PROVE FALSE
      <4>1. VolumeOf[p.wanted] = p.vmp
        BY <1>2, <1>3, <2>1, <3>1 DEF Crossing, At
      <4>2. locks.vmnt[p.vmp][u] \in Strong
        BY <2>2, <2>3 DEF VolumeLocks
      <4>3. locks.vmnt[p.vmp][z] \in Strong
        BY <2>3, <2>5, <4>1, StuckFacts, HolderWrites
      <4> QED  BY <2>2, <2>3, <2>5, <4>2, <4>3 DEF LocksInv, OneWriter
    <3> QED  BY <3>1
  <2>7. p.vp \in Files /\ p.wanted \notin Files
    BY <1>3, <2>1, <2>2, <2>3, <2>6 DEF Shape
  <2> QED  BY <2>1, <2>3, <2>5, <2>6, <2>7
<1>4. PICK z \in S : locks.vnode[thread[t].wanted][z] # "free"
  BY <1>3
<1>5. thread[t].wanted \in Vnodes \ Files
  BY <1>3
<1>6. /\ thread[z].at \in {"checked", "vmnt2", "vnode2", "sticky"}
      /\ thread[z].at # "checked" => thread[t].wanted = thread[z].vp
  BY <1>4, <1>5, StuckFacts, HolderWrites
<1>7. thread[z].at = "vnode2" /\ thread[t].wanted = thread[z].vp
  BY <1>2, <1>6, NeverStuck
<1> QED  BY <1>3, <1>5, <1>7

LEMMA StuckKnown ==
  ASSUME LocksInv, NEW S \in SUBSET Threads, Stuck(S)
  PROVE  Known(S)
<1>1. SUFFICES ASSUME ~Known(S) PROVE FALSE
  OBVIOUS
<1>2. ASSUME NEW u \in S PROVE thread[u].at \in {"vmnt", "vnode", "filp"}
  BY <1>1, StuckFacts, NeverStuck, CheckedStuck, Vnode2Stuck DEF WaitPlaces
<1>3. ASSUME NEW u \in S, thread[u].at \in {"vnode", "filp"} PROVE FALSE
  <2>1. PICK z \in S : z \in Blockers(u)
    BY StuckFacts
  <2>2. locks.vnode[thread[u].wanted][z] # "free"
    BY <1>3, <2>1, BlockersAre
  <2>3. thread[u].wanted \in Vnodes
    BY <1>3, StuckFacts DEF Shape, ThreadState
  <2>4. thread[z].at \in {"checked", "vmnt2", "vnode2", "sticky"}
    BY <2>2, <2>3, StuckFacts, HolderWrites
  <2> QED  BY <1>2, <2>4
<1>4. ASSUME NEW u \in S, thread[u].at = "vmnt" PROVE FALSE
  <2>1. PICK z \in S : z \in Blockers(u)
    BY StuckFacts
  <2>2. locks.vmnt[VolumeOf[thread[u].wanted]][z] \in Strong
    BY <1>4, <2>1, BlockersAre
  <2>3. VolumeOf[thread[u].wanted] \in Volumes
    <3>1. thread[u].wanted \in Vnodes
      BY <1>4, StuckFacts DEF Shape, ThreadState
    <3> QED  BY <3>1, VfsAssumption
  <2>4. thread[z].at = "vmnt" /\ HoldsVmnt(thread[z], locks, z) /\ Shape(thread[z])
        /\ ~LetGo(thread[z])
    BY <1>2, <1>3, StuckFacts
  <2>5. thread[z].vmp = NULL /\ thread[z].vmp2 = NULL
    BY <2>4 DEF Shape
  <2> QED  BY <2>2, <2>3, <2>4, <2>5, VfsAssumption DEF HoldsVmnt, Strong
<1>5. PICK u \in S : TRUE
  BY DEF Stuck
<1> QED  BY <1>2, <1>3, <1>4, <1>5

\* Whatever threads wait for one another, for ever, one of them is a removal or
\* rename that waits for the readers of its volume with a directory locked that a
\* reader wants, or a rename across volumes: for any number of threads, so also
\* for circles of more than two.
THEOREM NoOtherDeadlock == Spec => []DeadlocksKnown
<1>1. LocksInv => DeadlocksKnown
  BY StuckKnown DEF DeadlocksKnown
<1> QED  BY <1>1, OneWriterPerVolume, PTL
-----------------------------------------------------------------------------
(* Who waits for one another waits for ever.                                 *)

\* A step of t leaves the other threads where they are, with what they have locked.
Frame(t) ==
    /\ \A u \in Threads \ {t} : thread'[u] = thread[u]
    /\ Others(locks, locks', t)

\* A step by which t goes on: it keeps its locks, takes one, or frees some.
LEMMA LockedAsAsked ==
  ASSUME LocksInv, NEW t \in Threads, NEW v, NEW x, NEW mode
  PROVE  /\ locks' = locks => Others(locks, locks', t)
         /\ locks' = [locks EXCEPT !.vmnt[v][t] = mode] => Others(locks, locks', t)
         /\ locks' = [locks EXCEPT !.vnode[x][t] = mode] => Others(locks, locks', t)
         /\ locks' = [locks EXCEPT !.vnode[x][t] = mode, !.refs[t][x] = @ + 1] =>
               Others(locks, locks', t)
         /\ locks' = [locks EXCEPT !.refs[t][x] = @ + 1] => Others(locks, locks', t)
<1>1. locks \in LockState
  BY PlaceFacts DEF LocksInv
<1>2. ASSUME locks' = [locks EXCEPT !.vmnt[v][t] = mode] PROVE Others(locks, locks', t)
  <2>1. locks'.vnode = locks.vnode /\ locks'.refs = locks.refs
        /\ locks'.vmnt = [locks.vmnt EXCEPT ![v][t] = mode]
    BY <1>1, <1>2 DEF LockState
  <2>2. locks.vmnt \in [Volumes -> [Threads -> Modes]]
    BY <1>1 DEF LockState
  <2> QED  BY <2>1, <2>2 DEF Others
<1>3. ASSUME NEW m, m.vmnt = locks.vmnt, m.refs = locks.refs,
             m.vnode = [locks.vnode EXCEPT ![x][t] = mode]
      PROVE  Others(locks, m, t)
  <2>2. locks.vnode \in [Vnodes -> [Threads -> Modes]]
    BY <1>1 DEF LockState
  <2> QED  BY <1>3, <2>2 DEF Others
<1>4. ASSUME locks' = [locks EXCEPT !.vnode[x][t] = mode] PROVE Others(locks, locks', t)
  BY <1>1, <1>3, <1>4 DEF LockState
<1>5. ASSUME NEW m, m.vmnt = locks.vmnt, m.refs = [locks.refs EXCEPT ![t][x] = @ + 1],
             \A y \in Vnodes : \A u \in Threads \ {t} : m.vnode[y][u] = locks.vnode[y][u]
      PROVE  Others(locks, m, t)
  <2>1. locks.refs \in [Threads -> [Vnodes -> Int]]
    BY <1>1 DEF LockState
  <2>2. \A u \in Threads \ {t} : m.refs[u] = locks.refs[u]
    BY <1>5, <2>1
  <2> QED  BY <1>5, <2>2 DEF Others
<1>6. ASSUME locks' = [locks EXCEPT !.vnode[x][t] = mode, !.refs[t][x] = @ + 1]
      PROVE  Others(locks, locks', t)
  <2>1. locks'.vmnt = locks.vmnt /\ locks'.refs = [locks.refs EXCEPT ![t][x] = @ + 1]
        /\ locks'.vnode = [locks.vnode EXCEPT ![x][t] = mode]
    BY <1>1, <1>6 DEF LockState
  <2>2. locks.vnode \in [Vnodes -> [Threads -> Modes]]
    BY <1>1 DEF LockState
  <2>3. \A y \in Vnodes : \A u \in Threads \ {t} : locks'.vnode[y][u] = locks.vnode[y][u]
    BY <2>1, <2>2
  <2> QED  BY <1>5, <2>1, <2>3
<1>7. ASSUME locks' = [locks EXCEPT !.refs[t][x] = @ + 1] PROVE Others(locks, locks', t)
  <2>1. locks'.vmnt = locks.vmnt /\ locks'.refs = [locks.refs EXCEPT ![t][x] = @ + 1]
        /\ locks'.vnode = locks.vnode
    BY <1>1, <1>7 DEF LockState
  <2> QED  BY <1>5, <2>1
<1>8. locks' = locks => Others(locks, locks', t)
  BY DEF Others
<1> QED  BY <1>2, <1>4, <1>6, <1>7, <1>8

LEMMA ReturnFrame ==
  ASSUME LocksInv, NEW t \in Threads, NEW l, Return(t, l), Frees(locks, l, t)
  PROVE  Frame(t)
BY DEF Return, LocksInv, VfsInv, Frees, Frame

LEMMA GoFrame ==
  ASSUME LocksInv, NEW t \in Threads, NEW a, GoTo(t, a), Others(locks, locks', t)
  PROVE  Frame(t)
BY GoToGoes DEF LocksInv, Goes, Frame

LEMMA MoveFrame ==
  ASSUME LocksInv, NEW t \in Threads, NEW p, thread' = [thread EXCEPT ![t] = p],
         Others(locks, locks', t)
  PROVE  Frame(t)
BY DEF LocksInv, VfsInv, Frame
-----------------------------------------------------------------------------
\* Where a thread is, says whom it waits for.
LEMMA WaitsFor ==
  ASSUME NEW t
  PROVE  /\ thread[t].at \notin WaitPlaces => Blockers(t) = {}
         /\ thread[t].at = "vmnt" => Blockers(t) =
               VmntHolders(VolumeOf[thread[t].wanted], t, FirstVmntLock(thread[t].call))
         /\ thread[t].at = "vmnt2" => Blockers(t) =
               IF locks.vmnt[VolumeOf[thread[t].wanted]][t] = "free"
               THEN VmntHolders(VolumeOf[thread[t].wanted], t, "read") ELSE {}
         /\ thread[t].at = "checked" => Blockers(t) = VmntHolders(thread[t].vmp, t, "excl")
         /\ thread[t].at = "vnode" => Blockers(t) =
               VnodeHolders(thread[t].wanted, t, FirstVnodeLock(thread[t].call))
         /\ thread[t].at = "filp" => Blockers(t) = VnodeHolders(thread[t].wanted, t, "write")
         /\ thread[t].at = "vnode2" => Blockers(t) =
               IF locks.vnode[thread[t].wanted][t] = "free"
               THEN VnodeHolders(thread[t].wanted, t, "write") ELSE {}
         /\ thread[t].at = "sticky" => Blockers(t) = VnodeHolders(thread[t].wanted, t, "read")
<1>1. PICK p : p = thread[t]
  OBVIOUS
<1>2. PICK x : x = p.wanted
  OBVIOUS
<1>3. PICK v : v = VolumeOf[x]
  OBVIOUS
<1>4. Blockers(t) =
        CASE p.at = "vmnt" -> VmntHolders(v, t, FirstVmntLock(p.call))
          [] p.at = "vmnt2" /\ locks.vmnt[v][t] = "free" -> VmntHolders(v, t, "read")
          [] p.at = "checked" -> VmntHolders(p.vmp, t, "excl")
          [] p.at = "vnode" -> VnodeHolders(x, t, FirstVnodeLock(p.call))
          [] p.at = "filp" -> VnodeHolders(x, t, "write")
          [] p.at = "vnode2" /\ locks.vnode[x][t] = "free" -> VnodeHolders(x, t, "write")
          [] p.at = "sticky" -> VnodeHolders(x, t, "read")
          [] OTHER -> {}
  BY <1>1, <1>2, <1>3 DEF Blockers
<1>5. p.at \notin WaitPlaces => Blockers(t) = {}
  BY <1>4 DEF WaitPlaces
<1> QED  BY <1>1, <1>2, <1>3, <1>4, <1>5

\* A step of t: nobody keeps it waiting, and it disturbs nobody.
GoesOn(t) == Frame(t) /\ Blockers(t) = {}

LEMMA ReturnGoesOn ==
  ASSUME LocksInv, NEW t \in Threads, thread[t].at \notin WaitPlaces,
         NEW l, Frees(locks, l, t), Return(t, l)
  PROVE  GoesOn(t)
BY ReturnFrame, WaitsFor DEF GoesOn

LEMMA FirstPathGoesOn ==
  ASSUME LocksInv, NEW t \in Threads,
         FirstPath(t, FirstVmntLock(thread[t].call), FirstVnodeLock(thread[t].call))
  PROVE  GoesOn(t)
<1>1. PICK p : p = thread[t]
  OBVIOUS
<1>2. PICK x : x = p.wanted
  OBVIOUS
<1>3. PICK v : v = VolumeOf[x]
  OBVIOUS
<1>4. PICK a : a = FirstVmntLock(p.call)
  OBVIOUS
<1>5. PICK b : b = FirstVnodeLock(p.call)
  OBVIOUS
<1>6. VfsInv /\ locks \in LockState
  BY PlaceFacts DEF LocksInv
<1>7. CASE /\ p.at = "vmnt" /\ VmntFree(v, t, a)
           /\ locks' = [locks EXCEPT !.vmnt[v][t] = a]
           /\ thread' = [thread EXCEPT ![t].at = "lookup", ![t].vmp = v]
  <2>1. Others(locks, locks', t)
    BY <1>7, LockedAsAsked
  <2>2. \A u \in Threads \ {t} : thread'[u] = thread[u]
    BY <1>6, <1>7 DEF VfsInv, ThreadState
  <2>3. Blockers(t) = {}
    BY <1>1, <1>2, <1>3, <1>4, <1>7, WaitsFor DEF VmntFree
  <2> QED  BY <2>1, <2>2, <2>3 DEF GoesOn, Frame
<1>8. CASE p.at = "lookup" /\ req_lookup(t, "vnode", unlock_vmnt(locks, t, v))
  <2>1. Blockers(t) = {}
    BY <1>1, <1>8, WaitsFor DEF WaitPlaces
  <2>2. CASE GoTo(t, "vnode") /\ UNCHANGED locks
    BY <2>1, <2>2, LockedAsAsked, GoFrame DEF GoesOn
  <2>3. CASE Return(t, unlock_vmnt(locks, t, v))
    <3>1. Frees(locks, unlock_vmnt(locks, t, v), t)
      BY <1>6, UnlockFrees
    <3> QED  BY <2>1, <2>3, <3>1, ReturnFrame DEF GoesOn
  <2> QED  BY <1>8, <2>2, <2>3 DEF req_lookup
<1>9. CASE /\ p.at = "vnode" /\ VnodeFree(x, t, b)
           /\ locks' = [locks EXCEPT !.vnode[x][t] = b, !.refs[t][x] = @ + 1]
           /\ thread' = [thread EXCEPT ![t].at = "found", ![t].vp = x, ![t].wanted = NULL]
  <2>1. Others(locks, locks', t)
    BY <1>9, LockedAsAsked
  <2>2. \A u \in Threads \ {t} : thread'[u] = thread[u]
    BY <1>6, <1>9 DEF VfsInv, ThreadState
  <2>3. Blockers(t) = {}
    BY <1>1, <1>2, <1>5, <1>9, WaitsFor DEF VnodeFree
  <2> QED  BY <2>1, <2>2, <2>3 DEF GoesOn, Frame
<1> QED  BY <1>1, <1>2, <1>3, <1>4, <1>5, <1>7, <1>8, <1>9 DEF FirstPath

LEMMA SecondPathGoesOn ==
  ASSUME LocksInv, NEW t \in Threads, SecondPath(t, "read", "write", Done(t))
  PROVE  GoesOn(t)
<1>1. PICK p : p = thread[t]
  OBVIOUS
<1>2. PICK x : x = p.wanted
  OBVIOUS
<1>3. PICK v : v = VolumeOf[x]
  OBVIOUS
<1>4. VfsInv /\ locks \in LockState
  BY PlaceFacts DEF LocksInv
<1>5. CASE p.at = "vmnt2" /\ locks.vmnt[v][t] # "free" /\ GoTo(t, "lookup2") /\ UNCHANGED locks
  <2>1. Blockers(t) = {}
    BY <1>1, <1>2, <1>3, <1>5, WaitsFor
  <2> QED  BY <1>5, <2>1, LockedAsAsked, GoFrame DEF GoesOn
<1>6. CASE /\ p.at = "vmnt2" /\ VmntFree(v, t, "read")
           /\ locks' = [locks EXCEPT !.vmnt[v][t] = "read"]
           /\ thread' = [thread EXCEPT ![t].at = "lookup2", ![t].vmp2 = v]
  <2>1. Others(locks, locks', t)
    BY <1>6, LockedAsAsked
  <2>2. \A u \in Threads \ {t} : thread'[u] = thread[u]
    BY <1>4, <1>6 DEF VfsInv, ThreadState
  <2>3. Blockers(t) = {}
    BY <1>1, <1>2, <1>3, <1>6, WaitsFor DEF VmntFree
  <2> QED  BY <2>1, <2>2, <2>3 DEF GoesOn, Frame
<1>7. CASE p.at = "lookup2" /\ req_lookup(t, "vnode2",
              IF p.vmp2 = NULL THEN Done(t) ELSE unlock_vmnt(Done(t), t, p.vmp2))
  <2>1. Blockers(t) = {}
    BY <1>1, <1>7, WaitsFor DEF WaitPlaces
  <2>2. PICK l : l = IF p.vmp2 = NULL THEN Done(t) ELSE unlock_vmnt(Done(t), t, p.vmp2)
    OBVIOUS
  <2>3. CASE GoTo(t, "vnode2") /\ UNCHANGED locks
    BY <2>1, <2>3, LockedAsAsked, GoFrame DEF GoesOn
  <2>4. CASE Return(t, l)
    <3>1. Frees(locks, Done(t), t) /\ Done(t) \in LockState
      BY <1>4, DoneFrees
    <3>2. Frees(Done(t), unlock_vmnt(Done(t), t, p.vmp2), t)
      BY <3>1, UnlockFrees
    <3>3. Frees(locks, unlock_vmnt(Done(t), t, p.vmp2), t)
      BY <3>1, <3>2, FreesMore
    <3>4. Frees(locks, l, t)
      BY <2>2, <3>1, <3>3
    <3> QED  BY <2>1, <2>4, <3>4, ReturnFrame DEF GoesOn
  <2> QED  BY <1>7, <2>2, <2>3, <2>4 DEF req_lookup
<1>8. CASE /\ p.at = "vnode2" /\ locks.vnode[x][t] # "free"
           /\ locks' = [locks EXCEPT !.refs[t][x] = @ + 1]
           /\ thread' = [thread EXCEPT ![t].at = "found2", ![t].vp2 = x, ![t].wanted = NULL]
  <2>1. Others(locks, locks', t)
    BY <1>8, LockedAsAsked
  <2>2. \A u \in Threads \ {t} : thread'[u] = thread[u]
    BY <1>4, <1>8 DEF VfsInv, ThreadState
  <2>3. Blockers(t) = {}
    BY <1>1, <1>2, <1>8, WaitsFor
  <2> QED  BY <2>1, <2>2, <2>3 DEF GoesOn, Frame
<1>9. CASE /\ p.at = "vnode2" /\ VnodeFree(x, t, "write")
           /\ locks' = [locks EXCEPT !.vnode[x][t] = "write", !.refs[t][x] = @ + 1]
           /\ thread' = [thread EXCEPT ![t].at = "found2", ![t].vp2 = x,
                                       ![t].vp2_l = x, ![t].wanted = NULL]
  <2>1. Others(locks, locks', t)
    BY <1>9, LockedAsAsked
  <2>2. \A u \in Threads \ {t} : thread'[u] = thread[u]
    BY <1>4, <1>9 DEF VfsInv, ThreadState
  <2>3. Blockers(t) = {}
    BY <1>1, <1>2, <1>9, WaitsFor DEF VnodeFree
  <2> QED  BY <2>1, <2>2, <2>3 DEF GoesOn, Frame
<1> QED  BY <1>1, <1>2, <1>3, <1>5, <1>6, <1>7, <1>8, <1>9 DEF SecondPath

LEMMA StickyGoesOn ==
  ASSUME LocksInv, NEW t \in Threads, NEW next, StickyCheck(t, next)
  PROVE  GoesOn(t)
<1>1. VfsInv /\ Frees(locks, Done(t), t)
  BY DoneFrees DEF LocksInv
<1>2. ASSUME thread[t].at = "found", NEW y, UNCHANGED locks,
             thread' = [thread EXCEPT ![t].at = "stickylookup", ![t].wanted = y]
      PROVE  GoesOn(t)
  <2>1. \A u \in Threads \ {t} : thread'[u] = thread[u]
    BY <1>1, <1>2 DEF VfsInv, ThreadState
  <2> QED  BY <1>2, <2>1, LockedAsAsked, WaitsFor DEF GoesOn, Frame, WaitPlaces
<1>3. ASSUME thread[t].at = "stickylookup", GoTo(t, "sticky"), UNCHANGED locks
      PROVE  GoesOn(t)
  BY <1>3, LockedAsAsked, GoFrame, WaitsFor DEF GoesOn, WaitPlaces
<1>4. ASSUME thread[t].at = "stickylookup", Return(t, Done(t)) PROVE GoesOn(t)
  BY <1>1, <1>4, ReturnGoesOn DEF WaitPlaces
<1>5. ASSUME thread[t].at = "sticky", VnodeFree(thread[t].wanted, t, "read")
      PROVE  Blockers(t) = {}
  BY <1>5, WaitsFor DEF VnodeFree
<1>6. ASSUME thread[t].at = "sticky", VnodeFree(thread[t].wanted, t, "read"), UNCHANGED locks,
             thread' = [thread EXCEPT ![t].at = next, ![t].wanted = NULL]
      PROVE  GoesOn(t)
  <2>1. \A u \in Threads \ {t} : thread'[u] = thread[u]
    BY <1>1, <1>6 DEF VfsInv, ThreadState
  <2> QED  BY <1>5, <1>6, <2>1, LockedAsAsked DEF GoesOn, Frame
<1>7. ASSUME thread[t].at = "sticky", VnodeFree(thread[t].wanted, t, "read"),
             Return(t, Done(t))
      PROVE  GoesOn(t)
  BY <1>1, <1>5, <1>7, ReturnFrame DEF GoesOn
<1> QED  BY <1>2, <1>3, <1>4, <1>6, <1>7 DEF StickyCheck, req_lookup

LEMMA UpgradeGoesOn ==
  ASSUME LocksInv, NEW t \in Threads, thread[t].at = "checked", upgrade_vmnt_lock(t)
  PROVE  GoesOn(t)
<1>1. PICK v : v = thread[t].vmp
  OBVIOUS
<1>2. /\ VmntFree(v, t, "excl") /\ locks' = [locks EXCEPT !.vmnt[v][t] = "excl"]
      /\ GoTo(t, "ready")
  BY <1>1 DEF upgrade_vmnt_lock
<1>3. Frame(t)
  BY <1>2, LockedAsAsked, GoFrame
<1>4. Blockers(t) = {}
  BY <1>1, <1>2, WaitsFor DEF VmntFree
<1> QED  BY <1>3, <1>4 DEF GoesOn

\* The steps of a thread that neither waits for a lock nor takes one.
LEMMA PlainGoesOn ==
  ASSUME LocksInv, NEW t \in Threads
  PROVE  /\ \A call, places : Begin(t, call, places) => GoesOn(t)
         /\ thread[t].at \notin WaitPlaces /\ SecondName(t) => GoesOn(t)
         /\ thread[t].at \notin WaitPlaces /\ Checked(t) => GoesOn(t)
         /\ \A l : thread[t].at \notin WaitPlaces /\ Frees(locks, l, t) /\ Refuse(t, l) =>
               GoesOn(t)
<1>1. VfsInv
  BY DEF LocksInv
<1>2. ASSUME NEW call, NEW places, Begin(t, call, places) PROVE GoesOn(t)
  <2>1. /\ thread[t].at = "idle" /\ locks' = locks
        /\ \A u \in Threads \ {t} : thread'[u] = thread[u]
    BY <1>1, <1>2 DEF Begin, Idle, VfsInv
  <2> QED  BY <2>1, LockedAsAsked, WaitsFor DEF GoesOn, Frame, WaitPlaces
<1>3. ASSUME thread[t].at \notin WaitPlaces, SecondName(t) PROVE GoesOn(t)
  <2>1. locks' = locks /\ \A u \in Threads \ {t} : thread'[u] = thread[u]
    BY <1>1, <1>3 DEF SecondName, VfsInv, ThreadState
  <2> QED  BY <1>3, <2>1, LockedAsAsked, WaitsFor DEF GoesOn, Frame
<1>4. ASSUME thread[t].at \notin WaitPlaces, Checked(t) PROVE GoesOn(t)
  BY <1>4, LockedAsAsked, GoFrame, WaitsFor DEF Checked, GoesOn
<1>5. ASSUME NEW l, thread[t].at \notin WaitPlaces, Frees(locks, l, t), Refuse(t, l)
      PROVE  GoesOn(t)
  BY <1>5, ReturnGoesOn DEF Refuse
<1> QED  BY <1>2, <1>3, <1>4, <1>5

LEMMA SendrecGoesOn ==
  ASSUME LocksInv, NEW t \in Threads, NEW ready \in BOOLEAN, NEW n, NEW l,
         ready => thread[t].at \notin WaitPlaces, Frees(locks, l, t), Sendrec(t, ready, n, l)
  PROVE  GoesOn(t)
<1>1. ASSUME ready, GoTo(t, "fs"), UNCHANGED locks PROVE GoesOn(t)
  BY <1>1, LockedAsAsked, GoFrame, WaitsFor DEF GoesOn
<1>2. ASSUME thread[t].at = "fs", Return(t, l) PROVE GoesOn(t)
  BY <1>2, ReturnGoesOn DEF WaitPlaces
<1> QED  BY <1>1, <1>2 DEF Sendrec

LEMMA TruncateGoesOn ==
  ASSUME LocksInv, NEW t \in Threads, NEW l, Frees(locks, l, t), truncate_vnode(t, l)
  PROVE  GoesOn(t)
<1>1. VfsInv
  BY DEF LocksInv
<1>2. ASSUME thread[t].at = "found", NEW newsize, UNCHANGED locks,
             thread' = [thread EXCEPT ![t].at = "fs", ![t].length = newsize]
      PROVE  GoesOn(t)
  <2>1. \A u \in Threads \ {t} : thread'[u] = thread[u]
    BY <1>1, <1>2 DEF VfsInv, ThreadState
  <2> QED  BY <1>2, <2>1, LockedAsAsked, WaitsFor DEF GoesOn, Frame, WaitPlaces
<1>3. ASSUME thread[t].at = "fs", GoTo(t, "truncated"), UNCHANGED locks
      PROVE  GoesOn(t)
  BY <1>3, LockedAsAsked, GoFrame, WaitsFor DEF GoesOn, WaitPlaces
<1>4. ASSUME thread[t].at \in {"fs", "truncated"}, Return(t, l) PROVE GoesOn(t)
  BY <1>4, ReturnGoesOn DEF WaitPlaces
<1> QED  BY <1>2, <1>3, <1>4 DEF truncate_vnode, req_ftrunc

LEMMA LinkGoesOn ==
  ASSUME LocksInv, NEW t \in Threads, do_link(t)
  PROVE  GoesOn(t)
<1>1. Frees(locks, Done(t), t) /\ Frees(locks, DoneLink(t), t)
  BY DoneFrees, DoneLinkFrees DEF LocksInv
<1>2. CASE Begin(t, "link", Files)
  BY <1>2, PlainGoesOn
<1>3. ASSUME thread[t].call = "link", FirstPath(t, "write", "read") PROVE GoesOn(t)
  BY <1>3, FirstPathGoesOn DEF FirstVmntLock, FirstVnodeLock
<1>4. ASSUME thread[t].at = "found", Refuse(t, Done(t)) \/ SecondName(t) PROVE GoesOn(t)
  BY <1>1, <1>4, PlainGoesOn DEF WaitPlaces
<1>5. ASSUME SecondPath(t, "read", "write", Done(t)) PROVE GoesOn(t)
  BY <1>5, SecondPathGoesOn
<1>6. ASSUME thread[t].at = "found2", Refuse(t, DoneLink(t)) PROVE GoesOn(t)
  BY <1>1, <1>6, PlainGoesOn DEF WaitPlaces
<1>7. ASSUME req_link(t, thread[t].at = "found2" /\ SameVolume(t), DoneLink(t)) PROVE GoesOn(t)
  <2>1. PICK ready \in BOOLEAN : ready = (thread[t].at = "found2" /\ SameVolume(t))
    OBVIOUS
  <2>2. Sendrec(t, ready, 1, DoneLink(t)) /\ (ready => thread[t].at \notin WaitPlaces)
    BY <1>7, <2>1 DEF req_link, WaitPlaces
  <2> QED  BY <1>1, <2>2, SendrecGoesOn
<1> QED  BY <1>2, <1>3, <1>4, <1>5, <1>6, <1>7 DEF do_link

LEMMA UnlinkGoesOn ==
  ASSUME LocksInv, NEW t \in Threads, do_unlink(t)
  PROVE  GoesOn(t)
<1>1. Frees(locks, Done(t), t)
  BY DoneFrees DEF LocksInv
<1>2. CASE Begin(t, "unlink", Dirs)
  BY <1>2, PlainGoesOn
<1>3. ASSUME thread[t].call = "unlink", FirstPath(t, RemovalVmntLock, "write") PROVE GoesOn(t)
  BY <1>3, FirstPathGoesOn DEF FirstVmntLock, FirstVnodeLock
<1>4. ASSUME thread[t].at = "found", Refuse(t, Done(t)) \/ Checked(t) PROVE GoesOn(t)
  BY <1>1, <1>4, PlainGoesOn DEF WaitPlaces
<1>5. ASSUME StickyCheck(t, "checked") PROVE GoesOn(t)
  BY <1>5, StickyGoesOn
<1>6. ASSUME thread[t].at = "checked", upgrade_vmnt_lock(t) PROVE GoesOn(t)
  BY <1>6, UpgradeGoesOn
<1>7. ASSUME req_unlink(t, thread[t].at = "ready", Done(t)) PROVE GoesOn(t)
  BY <1>1, <1>7, SendrecGoesOn DEF req_unlink, WaitPlaces
<1> QED  BY <1>2, <1>3, <1>4, <1>5, <1>6, <1>7 DEF do_unlink

LEMMA RenameGoesOn ==
  ASSUME LocksInv, NEW t \in Threads, do_rename(t)
  PROVE  GoesOn(t)
<1>1. Frees(locks, Done(t), t) /\ Frees(locks, DoneRename(t), t)
  BY DoneFrees, DoneRenameFrees DEF LocksInv
<1>2. CASE Begin(t, "rename", Dirs)
  BY <1>2, PlainGoesOn
<1>3. ASSUME thread[t].call = "rename", FirstPath(t, RemovalVmntLock, "write") PROVE GoesOn(t)
  BY <1>3, FirstPathGoesOn DEF FirstVmntLock, FirstVnodeLock
<1>4. ASSUME StickyCheck(t, "mine") PROVE GoesOn(t)
  BY <1>4, StickyGoesOn
<1>5. ASSUME thread[t].at \in {"found", "mine"}, Refuse(t, Done(t)) \/ SecondName(t)
      PROVE  GoesOn(t)
  BY <1>1, <1>5, PlainGoesOn DEF WaitPlaces
<1>6. ASSUME SecondPath(t, "read", "write", Done(t)) PROVE GoesOn(t)
  BY <1>6, SecondPathGoesOn
<1>7. ASSUME thread[t].at = "found2", Refuse(t, DoneRename(t)) \/ Checked(t) PROVE GoesOn(t)
  BY <1>1, <1>7, PlainGoesOn DEF WaitPlaces
<1>8. ASSUME thread[t].at = "checked", upgrade_vmnt_lock(t) PROVE GoesOn(t)
  BY <1>8, UpgradeGoesOn
<1>9. ASSUME req_rename(t, thread[t].at = "ready", DoneRename(t)) PROVE GoesOn(t)
  BY <1>1, <1>9, SendrecGoesOn DEF req_rename, WaitPlaces
<1> QED  BY <1>2, <1>3, <1>4, <1>5, <1>6, <1>7, <1>8, <1>9 DEF do_rename

LEMMA FtruncateGoesOn ==
  ASSUME LocksInv, NEW t \in Threads, do_ftruncate(t)
  PROVE  GoesOn(t)
<1>1. PICK x : x = thread[t].wanted
  OBVIOUS
<1>2. PICK l : l = unlock_vnode(locks, t, thread[t].vp)
  OBVIOUS
<1>3. Frees(locks, l, t) /\ VfsInv
  BY <1>2, FilpFrees DEF LocksInv
<1>4. CASE Begin(t, "ftruncate", Files)
  BY <1>4, PlainGoesOn
<1>5. ASSUME thread[t].at = "filp", VnodeFree(x, t, "write"),
             locks' = [locks EXCEPT !.vnode[x][t] = "write"],
             thread' = [thread EXCEPT ![t].at = "found", ![t].vp = x, ![t].wanted = NULL]
      PROVE  GoesOn(t)
  <2>1. Others(locks, locks', t)
    BY <1>5, LockedAsAsked
  <2>2. \A u \in Threads \ {t} : thread'[u] = thread[u]
    BY <1>3, <1>5 DEF VfsInv, ThreadState
  <2>3. Blockers(t) = {}
    BY <1>1, <1>5, WaitsFor DEF VnodeFree
  <2> QED  BY <2>1, <2>2, <2>3 DEF GoesOn, Frame
<1>6. ASSUME thread[t].at = "found", Refuse(t, l) PROVE GoesOn(t)
  BY <1>3, <1>6, PlainGoesOn DEF WaitPlaces
<1>7. ASSUME truncate_vnode(t, l) PROVE GoesOn(t)
  BY <1>3, <1>7, TruncateGoesOn
<1> QED  BY <1>1, <1>2, <1>4, <1>5, <1>6, <1>7 DEF do_ftruncate, At

LEMMA OnePathGoesOn ==
  ASSUME LocksInv, NEW t \in Threads,
         do_truncate(t) \/ do_slink(t) \/ do_rdlink(t) \/ do_inodeviewer(t) \/ do_damageinode(t)
  PROVE  GoesOn(t)
<1>1. Frees(locks, Done(t), t) /\ Frees(locks, locks, t)
  BY DoneFrees DEF LocksInv, VfsInv, Sound, Frees, FreesVolumes, Others
<1>2. ASSUME NEW call, NEW places, Begin(t, call, places) PROVE GoesOn(t)
  BY <1>2, PlainGoesOn
<1>3. ASSUME NEW a, NEW b, FirstPath(t, a, b), a = FirstVmntLock(thread[t].call),
             b = FirstVnodeLock(thread[t].call)
      PROVE  GoesOn(t)
  BY <1>3, FirstPathGoesOn
<1>4. ASSUME thread[t].at = "found", Refuse(t, Done(t)) PROVE GoesOn(t)
  BY <1>1, <1>4, PlainGoesOn DEF WaitPlaces
<1>5. ASSUME NEW n, Sendrec(t, thread[t].at = "found", n, Done(t)) PROVE GoesOn(t)
  BY <1>1, <1>5, SendrecGoesOn DEF WaitPlaces
<1>6. ASSUME Sendrec(t, thread[t].at = "ready", 0, locks) PROVE GoesOn(t)
  BY <1>1, <1>6, SendrecGoesOn DEF WaitPlaces
<1>7. ASSUME thread[t].at = "found", locks' = Done(t), GoTo(t, "ready") PROVE GoesOn(t)
  BY <1>1, <1>7, GoFrame, WaitsFor DEF Frees, GoesOn, WaitPlaces
<1>8. CASE do_truncate(t)
  <2>1. ASSUME truncate_vnode(t, Done(t)) PROVE GoesOn(t)
    BY <1>1, <2>1, TruncateGoesOn
  <2>2. thread[t].call = "truncate" =>
           FirstVmntLock(thread[t].call) = "read" /\ FirstVnodeLock(thread[t].call) = "write"
    BY DEF FirstVmntLock, FirstVnodeLock
  <2> QED  BY <1>2, <1>3, <1>4, <1>8, <2>1, <2>2 DEF do_truncate
<1>9. CASE do_slink(t)
  <2>1. thread[t].call = "slink" =>
           FirstVmntLock(thread[t].call) = "write" /\ FirstVnodeLock(thread[t].call) = "write"
    BY DEF FirstVmntLock, FirstVnodeLock
  <2> QED  BY <1>2, <1>3, <1>4, <1>5, <1>9, <2>1 DEF do_slink, req_slink
<1>10. thread[t].call \in {"rdlink", "report", "record"} =>
          FirstVmntLock(thread[t].call) = "read" /\ FirstVnodeLock(thread[t].call) = "read"
  BY DEF FirstVmntLock, FirstVnodeLock
<1>11. CASE do_rdlink(t)
  BY <1>2, <1>3, <1>4, <1>5, <1>10, <1>11 DEF do_rdlink, req_rdlink
<1>12. CASE do_inodeviewer(t)
  BY <1>2, <1>3, <1>6, <1>7, <1>10, <1>12 DEF do_inodeviewer, req_inodeviewer
<1>13. CASE do_damageinode(t)
  BY <1>2, <1>3, <1>5, <1>10, <1>13 DEF do_damageinode, req_damageinode
<1> QED  BY <1>8, <1>9, <1>11, <1>12, <1>13

LEMMA StepGoesOn ==
  ASSUME LocksInv, NEW t \in Threads, Step(t)
  PROVE  GoesOn(t)
BY LinkGoesOn, UnlinkGoesOn, RenameGoesOn, FtruncateGoesOn, OnePathGoesOn DEF Step

\* A thread that does not move still waits for those whose locks have not moved.
LEMMA StillBlocks ==
  ASSUME LocksInv, NEW w \in Threads, Frame(w), NEW t \in Threads \ {w},
         NEW u \in Threads \ {w}, u \in Blockers(t)
  PROVE  u \in Blockers(t)'
<1>1. PICK p : p = thread[t]
  OBVIOUS
<1>2. PICK x : x = p.wanted
  OBVIOUS
<1>3. PICK v : v = VolumeOf[x]
  OBVIOUS
<1>4. p \in ThreadState /\ Shape(p) /\ OnVolumes(p) /\ p.at \in WaitPlaces /\ thread'[t] = p
  BY <1>1, BlockersAre, PlaceFacts DEF LocksInv, Frame, WaitPlaces
<1>5. p.at # "checked" => x \in Vnodes /\ v \in Volumes
  BY <1>2, <1>3, <1>4, VfsAssumption DEF Shape, ThreadState, WaitPlaces
<1>6. p.at = "checked" => p.vmp \in Volumes
  BY <1>4 DEF Shape, ThreadState, OnVolumes
<1>7. /\ \A y \in Volumes : locks'.vmnt[y][t] = locks.vmnt[y][t]
                            /\ locks'.vmnt[y][u] = locks.vmnt[y][u]
      /\ \A y \in Vnodes : locks'.vnode[y][t] = locks.vnode[y][t]
                           /\ locks'.vnode[y][u] = locks.vnode[y][u]
  BY DEF Frame, Others
<1>8. ASSUME NEW y \in Volumes, NEW mode, u \in VmntHolders(y, t, mode)
      PROVE  u \in VmntHolders(y, t, mode)'
  BY <1>7, <1>8 DEF VmntHolders
<1>9. ASSUME NEW y \in Vnodes, NEW mode, u \in VnodeHolders(y, t, mode)
      PROVE  u \in VnodeHolders(y, t, mode)'
  BY <1>7, <1>9 DEF VnodeHolders
<1>10. Blockers(t)' =
        CASE p.at = "vmnt" -> VmntHolders(v, t, FirstVmntLock(p.call))'
          [] p.at = "vmnt2" /\ locks'.vmnt[v][t] = "free" -> VmntHolders(v, t, "read")'
          [] p.at = "checked" -> VmntHolders(p.vmp, t, "excl")'
          [] p.at = "vnode" -> VnodeHolders(x, t, FirstVnodeLock(p.call))'
          [] p.at = "filp" -> VnodeHolders(x, t, "write")'
          [] p.at = "vnode2" /\ locks'.vnode[x][t] = "free" -> VnodeHolders(x, t, "write")'
          [] p.at = "sticky" -> VnodeHolders(x, t, "read")'
          [] OTHER -> {}
  BY <1>2, <1>3, <1>4 DEF Blockers, VmntHolders, VnodeHolders
<1> QED  BY <1>1, <1>2, <1>3, <1>4, <1>5, <1>6, <1>7, <1>8, <1>9, <1>10, WaitsFor DEF WaitPlaces

\* Who waits for one another still does after the step.
StuckStays == \A S \in SUBSET Threads : Stuck(S) => Stuck(S)'

LEMMA StuckStep ==
  ASSUME LocksInv, [Next]_vars
  PROVE  StuckStays
<1>1. ASSUME NEW S \in SUBSET Threads, Stuck(S), NEW w \in Threads, Step(w)
      PROVE  Stuck(S)'
  <2>1. Frame(w) /\ Blockers(w) = {}
    BY <1>1, StepGoesOn DEF GoesOn
  <2>2. w \notin S
    BY <1>1, <2>1 DEF Stuck
  <2>3. ASSUME NEW t \in S PROVE Blockers(t)' \cap S # {}
    <3>1. PICK u \in S : u \in Blockers(t)
      BY <1>1 DEF Stuck
    <3> QED  BY <2>1, <2>2, <3>1, StillBlocks
  <2> QED  BY <1>1, <2>3 DEF Stuck
<1>2. ASSUME UNCHANGED vars, NEW S \in SUBSET Threads, Stuck(S) PROVE Stuck(S)'
  <2>1. locks' = locks /\ thread' = thread
    BY <1>2 DEF vars
  <2>2. \A y, t, mode : VmntHolders(y, t, mode)' = VmntHolders(y, t, mode)
    BY <2>1 DEF VmntHolders
  <2>3. \A y, t, mode : VnodeHolders(y, t, mode)' = VnodeHolders(y, t, mode)
    BY <2>1 DEF VnodeHolders
  <2>4. \A t : Blockers(t)' = Blockers(t)
    BY <2>1, <2>2, <2>3 DEF Blockers
  <2> QED  BY <1>2, <2>4 DEF Stuck
<1> QED  BY <1>1, <1>2 DEF Next, StuckStays

\* Threads that wait for one another do so for ever: none of them can move, and the
\* step of any other thread leaves them and their locks as they are, since a lock of
\* link.c and new.c is let go only by its holder and no wait for one is given up.
THEOREM StuckForEver == Spec => [][StuckStays]_vars
<1>1. LocksInv /\ [Next]_vars => [StuckStays]_vars
  BY StuckStep
<1> QED  BY <1>1, OneWriterPerVolume, PTL DEF Spec
=============================================================================

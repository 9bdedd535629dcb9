---------------------------- MODULE UndeleteProofs ----------------------------
(***************************************************************************)
(* Proofs about Undelete, for any users, directories, names, files and     *)
(* inode numbers and any places of rcdirs and rcnodes: a file in /tmp has  *)
(* its record, and it leaves /tmp only when it is asked for.               *)
(***************************************************************************)
EXTENDS Undelete, TLAPS, WellFoundedInduction, FiniteSetTheorems

-----------------------------------------------------------------------------
\* What a tool remembers at its step.
LEMMA ToolKnows ==
  ASSUME ToolInv, NEW u \in Users
  PROVE  /\ tool[u] \in ToolState
         /\ tool[u].step = "rcmkdir" => tool[u].dir \in Dirs
         /\ tool[u].step \in {"damage", "mv"} => KeyOf(tool[u]) \in Key
         /\ tool[u].step \in {"damage", "mv", "restore"} =>
              tool[u].dir \in Dirs /\ tool[u].name \in Names
         /\ tool[u].step \in {"damage", "mv"} => tool[u].node \in Inodes
         /\ tool[u].step = "restore" => tool[u].node \in Inodes \cup {0, -1}
<1>1. tool[u] \in ToolState
  BY DEF ToolInv
<1> QED  BY <1>1 DEF ToolState, AtMenu, KeyOf, Key

LEMMA NodePositive ==
  ASSUME NEW i \in Inodes \cup {0, -1}
  PROVE  i > 0 <=> i \in Inodes
BY UndeleteAssumption

LEMMA ToolGoes ==
  ASSUME ToolInv, NEW u \in Users, NEW t \in ToolState, tool' = [tool EXCEPT ![u] = t]
  PROVE  ToolInv' /\ tool'[u] = t /\ \A v \in Users \ {u} : tool'[v] = tool[v]
BY DEF ToolInv, ToolState, AtMenu

LEMMA ToolIsDone ==
  ASSUME ToolInv, NEW u \in Users, Done(u)
  PROVE  ToolInv' /\ tool'[u] = AtMenu /\ \A v \in Users \ {u} : tool'[v] = tool[v]
<1>1. AtMenu \in ToolState
  BY DEF ToolState
<1> QED  BY <1>1, ToolGoes DEF Done

-----------------------------------------------------------------------------
\* A file that moves from one place to another, over what was there.
LEMMA DiskStays == DiskInv /\ UNCHANGED disk => DiskInv'
BY DEF DiskInv, disk, DiskTypeOK, InOnePlace, Numbered

LEMMA MovedNumbers ==
  ASSUME DiskInv, NEW f \in Files, NEW old \in Files \cup {NONE}, NEW from, NEW to,
         inode[f] \in Inodes, old # NONE => inode[old] \in Inodes,
         NEW i \in Numbers(f, old, from, to)
  PROVE  i \in Inodes
BY UndeleteAssumption DEF Numbers, Fresh

LEMMA Renumbered ==
  ASSUME DiskInv, NEW f \in Files, NEW i \in Inodes, NEW old, Renumber(f, i, old)
  PROVE  /\ inode' \in [Files -> Inodes \cup {0}] /\ inode'[f] = i
         /\ \A g \in Files \ {f, old} : inode'[g] = inode[g]
BY DEF Renumber, DiskInv, DiskTypeOK

LEMMA CreateDisk ==
  ASSUME DiskInv, NEW d \in Dirs, NEW n \in Names, Create(d, n)
  PROVE  DiskInv'
<1>1. PICK f \in Files, i \in Inodes :
        /\ inode[f] = 0
        /\ entry' = [entry EXCEPT ![d][n] = f]
        /\ inode' = [inode EXCEPT ![f] = i]
        /\ saved' = saved /\ made' = made
  BY DEF Create, Fresh
<1>2. f # NONE /\ 0 \notin Inodes
  BY UndeleteAssumption
<1>3. DiskTypeOK'
  BY <1>1 DEF DiskInv, DiskTypeOK
<1>4. \A e \in Dirs, m \in Names :
        entry'[e][m] = IF e = d /\ m = n THEN f ELSE entry[e][m]
  BY <1>1 DEF DiskInv, DiskTypeOK
<1>5. /\ \A e \in Dirs, m \in Names : entry[e][m] # f
      /\ \A k \in Key : saved[k] # f
  BY <1>1, <1>2 DEF DiskInv, Numbered
<1>6. InOnePlace'
  BY <1>1, <1>2, <1>4, <1>5 DEF DiskInv, InOnePlace
<1>7. Numbered'
  BY <1>1, <1>2, <1>4, <1>5 DEF DiskInv, DiskTypeOK, Numbered
<1> QED  BY <1>3, <1>6, <1>7 DEF DiskInv

LEMMA ToTmpDisk ==
  ASSUME DiskInv, ToolInv, NEW u \in Users, MvToTmp(u)
  PROVE  DiskInv'
<1>1. PICK t : t = tool[u]
  OBVIOUS
<1>2. PICK key : key = <<t.name, t.dir, t.node>>
  OBVIOUS
<1>3. t.dir \in Dirs /\ t.name \in Names /\ key \in Key
  BY <1>1, <1>2, ToolKnows DEF MvToTmp, KeyOf
<1>4. PICK f : f = entry[t.dir][t.name]
  OBVIOUS
<1>5. CASE UNCHANGED disk
  BY <1>5, DiskStays
<1>6. ASSUME f # NONE,
             NEW i \in Numbers(f, saved[key], VolumeOf(t.dir), "root"),
             entry' = [entry EXCEPT ![t.dir][t.name] = NONE],
             saved' = [saved EXCEPT ![key] = f],
             Renumber(f, i, saved[key]), made' = made
      PROVE  DiskInv'
  <2>1. /\ f \in Files /\ saved[key] \in Files \cup {NONE} /\ inode[f] \in Inodes
        /\ saved[key] # NONE => inode[saved[key]] \in Inodes
    BY <1>3, <1>4, <1>6 DEF DiskInv, DiskTypeOK, Numbered
  <2>2. i \in Inodes
    BY <1>6, <2>1, MovedNumbers
  <2>3. /\ inode' \in [Files -> Inodes \cup {0}] /\ inode'[f] = i
        /\ \A g \in Files \ {f, saved[key]} : inode'[g] = inode[g]
    BY <1>6, <2>1, <2>2, Renumbered
  <2>4. DiskTypeOK'
    BY <1>3, <1>6, <2>1, <2>3 DEF DiskInv, DiskTypeOK
  <2>5. \A e \in Dirs, m \in Names :
          entry'[e][m] = IF e = t.dir /\ m = t.name THEN NONE ELSE entry[e][m]
    BY <1>6 DEF DiskInv, DiskTypeOK
  <2>6. \A k \in Key : saved'[k] = IF k = key THEN f ELSE saved[k]
    BY <1>6 DEF DiskInv, DiskTypeOK
  <2>7. /\ \A e \in Dirs, m \in Names : entry[e][m] = f => e = t.dir /\ m = t.name
        /\ \A k \in Key : saved[k] # f
        /\ \A k \in Key : k # key /\ saved[k] # NONE => saved[k] # saved[key]
        /\ \A e \in Dirs, m \in Names : entry[e][m] # NONE => entry[e][m] # saved[key]
    BY <1>3, <1>4, <1>6 DEF DiskInv, InOnePlace
  <2>8. InOnePlace'
    BY <1>3, <1>6, <2>5, <2>6, <2>7 DEF DiskInv, InOnePlace
  <2>9. Numbered'
    <3>1. ASSUME NEW e \in Dirs, NEW m \in Names, entry'[e][m] # NONE
          PROVE  inode'[entry'[e][m]] \in Inodes
      <4>1. entry'[e][m] = entry[e][m] /\ entry[e][m] \in Files \ {f, saved[key]}
        BY <2>5, <2>7, <3>1 DEF DiskInv, DiskTypeOK
      <4> QED  BY <2>3, <3>1, <4>1 DEF DiskInv, Numbered
    <3>2. ASSUME NEW k \in Key, saved'[k] # NONE
          PROVE  inode'[saved'[k]] \in Inodes
      <4>1. CASE k = key
        BY <2>2, <2>3, <2>6, <4>1
      <4>2. CASE k # key
        <5>1. saved'[k] = saved[k] /\ saved[k] \in Files \ {f, saved[key]}
          BY <2>6, <2>7, <3>2, <4>2 DEF DiskInv, DiskTypeOK
        <5> QED  BY <2>3, <3>2, <5>1 DEF DiskInv, Numbered
      <4> QED  BY <4>1, <4>2
    <3> QED  BY <3>1, <3>2 DEF Numbered
  <2> QED  BY <2>4, <2>8, <2>9 DEF DiskInv
<1> QED  BY <1>1, <1>2, <1>4, <1>5, <1>6 DEF MvToTmp, MvFails

LEMMA BackDisk ==
  ASSUME DiskInv, ToolInv, NEW u \in Users, MvBack(u)
  PROVE  DiskInv'
<1>1. PICK t : t = tool[u]
  OBVIOUS
<1>2. PICK key : key = <<t.name, t.dir, t.node>>
  OBVIOUS
<1>3. t.dir \in Dirs /\ t.name \in Names /\ key \in Key
  <2>1. t.dir \in Dirs /\ t.name \in Names /\ t.node \in Inodes \cup {0, -1} /\ t.node > 0
    BY <1>1, ToolKnows DEF MvBack
  <2> QED  BY <1>2, <2>1, NodePositive DEF Key
<1>4. PICK f : f = saved[key]
  OBVIOUS
<1>5. PICK old : old = entry[t.dir][t.name]
  OBVIOUS
<1>6. CASE UNCHANGED disk
  BY <1>6, DiskStays
<1>7. ASSUME f # NONE,
             NEW i \in Numbers(f, old, "root", VolumeOf(t.dir)),
             entry' = [entry EXCEPT ![t.dir][t.name] = f],
             saved' = [saved EXCEPT ![key] = NONE],
             Renumber(f, i, old), made' = made
      PROVE  DiskInv'
  <2>1. /\ f \in Files /\ old \in Files \cup {NONE} /\ inode[f] \in Inodes
        /\ old # NONE => inode[old] \in Inodes
    BY <1>3, <1>4, <1>5, <1>7 DEF DiskInv, DiskTypeOK, Numbered
  <2>2. i \in Inodes
    BY <1>7, <2>1, MovedNumbers
  <2>3. /\ inode' \in [Files -> Inodes \cup {0}] /\ inode'[f] = i
        /\ \A g \in Files \ {f, old} : inode'[g] = inode[g]
    BY <1>7, <2>1, <2>2, Renumbered
  <2>4. DiskTypeOK'
    BY <1>3, <1>7, <2>1, <2>3 DEF DiskInv, DiskTypeOK
  <2>5. \A e \in Dirs, m \in Names :
          entry'[e][m] = IF e = t.dir /\ m = t.name THEN f ELSE entry[e][m]
    BY <1>7 DEF DiskInv, DiskTypeOK
  <2>6. \A k \in Key : saved'[k] = IF k = key THEN NONE ELSE saved[k]
    BY <1>7 DEF DiskInv, DiskTypeOK
  <2>7. /\ \A e \in Dirs, m \in Names : entry[e][m] # f
        /\ \A k \in Key : saved[k] = f => k = key
        /\ \A e \in Dirs, m \in Names :
             (e # t.dir \/ m # t.name) /\ entry[e][m] # NONE => entry[e][m] # old
        /\ \A k \in Key : saved[k] # NONE => saved[k] # old
    BY <1>3, <1>4, <1>5, <1>7 DEF DiskInv, InOnePlace
  <2>8. InOnePlace'
    BY <1>3, <1>7, <2>5, <2>6, <2>7 DEF DiskInv, InOnePlace
  <2>9. Numbered'
    <3>1. ASSUME NEW e \in Dirs, NEW m \in Names, entry'[e][m] # NONE
          PROVE  inode'[entry'[e][m]] \in Inodes
      <4>1. CASE e = t.dir /\ m = t.name
        BY <2>2, <2>3, <2>5, <4>1
      <4>2. CASE e # t.dir \/ m # t.name
        <5>1. entry'[e][m] = entry[e][m] /\ entry[e][m] \in Files \ {f, old}
          BY <2>5, <2>7, <3>1, <4>2 DEF DiskInv, DiskTypeOK
        <5> QED  BY <2>3, <3>1, <5>1 DEF DiskInv, Numbered
      <4> QED  BY <4>1, <4>2
    <3>2. ASSUME NEW k \in Key, saved'[k] # NONE
          PROVE  inode'[saved'[k]] \in Inodes
      <4>1. saved'[k] = saved[k] /\ saved[k] \in Files \ {f, old}
        BY <2>6, <2>7, <3>2 DEF DiskInv, DiskTypeOK
      <4> QED  BY <2>3, <3>2, <4>1 DEF DiskInv, Numbered
    <3> QED  BY <3>1, <3>2 DEF Numbered
  <2> QED  BY <2>4, <2>8, <2>9 DEF DiskInv
<1> QED  BY <1>1, <1>2, <1>4, <1>5, <1>6, <1>7 DEF MvBack, MvFails

LEMMA RemovedDisk ==
  ASSUME DiskInv, NEW u \in Users, RmSaved(u)
  PROVE  DiskInv'
<1>1. PICK gone : gone = Removed(tool[u].name, tool[u].dir)
  OBVIOUS
<1>2. /\ saved' = [k \in Key |-> IF k \in gone THEN NONE ELSE saved[k]]
      /\ inode' = [f \in Files |-> IF \E k \in gone : saved[k] = f THEN 0 ELSE inode[f]]
      /\ made' = made /\ entry' = entry /\ gone \subseteq Key
  BY <1>1 DEF RmSaved, Removed
<1>3. DiskTypeOK'
  BY <1>2 DEF DiskInv, DiskTypeOK
<1>4. InOnePlace'
  BY <1>2 DEF DiskInv, InOnePlace
<1>5. Numbered'
  <2>1. ASSUME NEW e \in Dirs, NEW m \in Names, entry'[e][m] # NONE
        PROVE  inode'[entry'[e][m]] \in Inodes
    <3>1. entry[e][m] \in Files /\ \A k \in gone : saved[k] # entry[e][m]
      BY <1>2, <2>1 DEF DiskInv, DiskTypeOK, InOnePlace
    <3> QED  BY <1>2, <2>1, <3>1 DEF DiskInv, Numbered
  <2>2. ASSUME NEW k \in Key, saved'[k] # NONE
        PROVE  inode'[saved'[k]] \in Inodes
    <3>1. saved'[k] = saved[k] /\ saved[k] \in Files /\ k \notin gone
      BY <1>2, <2>2 DEF DiskInv, DiskTypeOK
    <3>2. \A l \in gone : saved[l] # saved[k]
      BY <1>2, <2>2, <3>1 DEF DiskInv, InOnePlace
    <3> QED  BY <1>2, <2>2, <3>1, <3>2 DEF DiskInv, Numbered
  <2> QED  BY <2>1, <2>2 DEF Numbered
<1> QED  BY <1>3, <1>4, <1>5 DEF DiskInv

-----------------------------------------------------------------------------
\* The records only grow, and so do not lose a record or the first of a name.
Records == [pinode : Dirs, finode : Inodes, fname : Names]

RecordsGrow == rcnodes' = rcnodes \/ \E x \in Records : rcnodes' = Append(rcnodes, x)

LEMMA GrowingKeeps ==
  ASSUME rcnodes \in Seq(Records), RecordsGrow
  PROVE  /\ rcnodes' \in Seq(Records)
         /\ \A k : HasRecord(rcnodes, k) => HasRecord(rcnodes', k)
         /\ \A k : HasFirstRecord(rcnodes, k) => HasFirstRecord(rcnodes', k)
<1>1. CASE rcnodes' = rcnodes
  BY <1>1 DEF HasRecord, HasFirstRecord
<1>2. ASSUME NEW x \in Records, rcnodes' = Append(rcnodes, x)
      PROVE  /\ rcnodes' \in Seq(Records)
             /\ DOMAIN rcnodes \subseteq DOMAIN rcnodes' /\ DOMAIN rcnodes = 1 .. Len(rcnodes)
             /\ \A r \in DOMAIN rcnodes : rcnodes'[r] = rcnodes[r]
             /\ Len(rcnodes) \in Nat
  BY <1>2
<1>3. ASSUME NEW x \in Records, rcnodes' = Append(rcnodes, x), NEW k, HasFirstRecord(rcnodes, k)
      PROVE  HasFirstRecord(rcnodes', k)
  <2>1. PICK r \in DOMAIN rcnodes :
          /\ rcnodes[r] = RecordOf(k)
          /\ \A q \in 1 .. r - 1 : rcnodes[q].pinode # k[2] \/ rcnodes[q].fname # k[1]
    BY <1>3 DEF HasFirstRecord
  <2>2. \A q \in 1 .. r - 1 : q \in DOMAIN rcnodes
    BY <1>2, <1>3
  <2> QED  BY <1>2, <1>3, <2>1, <2>2 DEF HasFirstRecord, RecordOf
<1>4. ASSUME NEW x \in Records, rcnodes' = Append(rcnodes, x), NEW k, HasRecord(rcnodes, k)
      PROVE  HasRecord(rcnodes', k)
  BY <1>2, <1>4 DEF HasRecord, RecordOf
<1> QED  BY <1>1, <1>2, <1>3, <1>4 DEF RecordsGrow

\* What tools were told, and files saved, stays recorded when nothing else happens.
LEMMA RecordInvOf ==
  ASSUME RecordInv, ToolInv, RecordsGrow,
         \A k \in Key : saved'[k] # NONE /\ saved'[k] # saved[k] =>
           k \in unrecorded \/ HasRecord(rcnodes, k),
         \A k : k \in unrecorded => k \in unrecorded' \/ HasRecord(rcnodes', k),
         \A u \in Users : \/ tool'[u] = tool[u]
                          \/ tool'[u].step \notin {"mv", "restore"}
                          \/ /\ tool'[u].step = "mv"
                             /\ KeyOf(tool'[u]) \in unrecorded' \/ HasRecord(rcnodes', KeyOf(tool'[u]))
                          \/ /\ tool'[u].step = "restore"
                             /\ tool'[u].node > 0 => HasFirstRecord(rcnodes', KeyOf(tool'[u]))
  PROVE  RecordInv'
<1>1. /\ rcnodes' \in Seq(Records)
      /\ \A k : HasRecord(rcnodes, k) => HasRecord(rcnodes', k)
      /\ \A k : HasFirstRecord(rcnodes, k) => HasFirstRecord(rcnodes', k)
  BY GrowingKeeps DEF RecordInv, Records
<1>2. SavedIsRecorded'
  <2> SUFFICES ASSUME NEW k \in Key, saved'[k] # NONE
               PROVE  k \in unrecorded' \/ HasRecord(rcnodes', k)
    BY DEF SavedIsRecorded
  <2>1. k \in unrecorded \/ HasRecord(rcnodes, k)
    BY DEF RecordInv, SavedIsRecorded
  <2> QED  BY <1>1, <2>1
<1>3. ToldBefore'
  <2> SUFFICES ASSUME NEW u \in Users, tool'[u].step = "mv"
               PROVE  KeyOf(tool'[u]) \in unrecorded' \/ HasRecord(rcnodes', KeyOf(tool'[u]))
    BY DEF ToldBefore
  <2>1. CASE tool'[u] = tool[u]
    <3>1. KeyOf(tool'[u]) = KeyOf(tool[u])
      BY <2>1 DEF KeyOf
    <3>2. KeyOf(tool[u]) \in unrecorded \/ HasRecord(rcnodes, KeyOf(tool[u]))
      BY <2>1 DEF RecordInv, ToldBefore
    <3> QED  BY <1>1, <3>1, <3>2
  <2>2. CASE tool'[u] # tool[u]
    BY <2>2
  <2> QED  BY <2>1, <2>2
<1>4. AnswersFirst'
  <2> SUFFICES ASSUME NEW u \in Users, tool'[u].step = "restore", tool'[u].node > 0
               PROVE  HasFirstRecord(rcnodes', KeyOf(tool'[u]))
    BY DEF AnswersFirst
  <2>1. CASE tool'[u] = tool[u]
    <3>1. KeyOf(tool'[u]) = KeyOf(tool[u]) /\ HasFirstRecord(rcnodes, KeyOf(tool[u]))
      BY <2>1 DEF KeyOf, RecordInv, AnswersFirst
    <3> QED  BY <1>1, <3>1
  <2>2. CASE tool'[u] # tool[u]
    BY <2>2
  <2> QED  BY <2>1, <2>2
<1> QED  BY <1>1, <1>2, <1>3, <1>4 DEF RecordInv, Records

-----------------------------------------------------------------------------
\* What a step must do: keep the invariant, and take files out of /tmp and put
\* them back only when they were asked for.
RightStep == /\ UndeleteInv'
             /\ \A k \in Key : LeavesIfAsked(k)
             /\ \A k \in Key : ComesBackIfFirst(k)

\* A file in /tmp is not in a directory before the step.
LEMMA NotBackBefore ==
  ASSUME UndeleteInv, NEW k \in Key, saved[k] # NONE
  PROVE  entry[k[2]][k[1]] # saved[k] /\ k[2] \in Dirs /\ k[1] \in Names
BY DEF UndeleteInv, DiskInv, InOnePlace, Key

\* A step that leaves the records and takes no file from /tmp or out of it.
LEMMA QuietStep ==
  ASSUME UndeleteInv, DiskInv', ToolInv', UNCHANGED <<rcnodes, unrecorded>>,
         saved' = saved,
         \A k \in Key : saved[k] # NONE => entry'[k[2]][k[1]] # saved[k],
         \A u \in Users : tool'[u] = tool[u] \/ tool'[u].step \notin {"mv", "restore"}
  PROVE  RightStep
<1>1. RecordInv'
  BY RecordInvOf DEF UndeleteInv, RecordsGrow
<1> QED  BY <1>1 DEF RightStep, UndeleteInv, LeavesIfAsked, ComesBackIfFirst

LEMMA MkdirStep ==
  ASSUME UndeleteInv, NEW d \in Dirs, Mkdir(d)
  PROVE  RightStep
<1>1. DiskInv'
  BY DEF Mkdir, UndeleteInv, DiskInv, DiskTypeOK, InOnePlace, Numbered
<1>2. ToolInv'
  BY DEF Mkdir, UndeleteInv, ToolInv
<1> QED  BY <1>1, <1>2, QuietStep, NotBackBefore DEF Mkdir, mfs

LEMMA CreateStep ==
  ASSUME UndeleteInv, NEW d \in Dirs, NEW n \in Names, Create(d, n)
  PROVE  RightStep
<1>1. DiskInv'
  BY CreateDisk DEF UndeleteInv
<1>2. ToolInv' /\ saved' = saved
  BY DEF Create, UndeleteInv, ToolInv
<1>3. \A k \in Key : saved[k] # NONE => entry'[k[2]][k[1]] # saved[k]
  <2>1. \A k \in Key : saved'[k] # NONE => entry'[k[2]][k[1]] # saved'[k]
    BY <1>1 DEF DiskInv, InOnePlace, Key
  <2> QED  BY <1>2, <2>1
<1> QED  BY <1>1, <1>2, <1>3, QuietStep DEF Create, mfs

LEMMA ToolOnlyStep ==
  ASSUME UndeleteInv, NEW u \in Users, UNCHANGED <<entry, saved, inode>>, made' \subseteq Dirs,
         UNCHANGED <<rcnodes, unrecorded>>, NEW t \in ToolState,
         tool' = [tool EXCEPT ![u] = t], t.step \notin {"mv", "restore"}
  PROVE  RightStep
<1>1. DiskInv'
  BY DEF UndeleteInv, DiskInv, DiskTypeOK, InOnePlace, Numbered
<1>2. ToolInv' /\ tool'[u] = t /\ \A v \in Users \ {u} : tool'[v] = tool[v]
  BY ToolGoes DEF UndeleteInv
<1> QED  BY <1>1, <1>2, QuietStep, NotBackBefore

LEMMA ToolMkdirStep ==
  ASSUME UndeleteInv, NEW u \in Users, NEW d \in Dirs, rcmkdir(u, d)
  PROVE  RightStep
<1>1. PICK t : t = [step |-> "rcmkdir", dir |-> d, name |-> NONE, node |-> 0]
  OBVIOUS
<1>2. t \in ToolState /\ t.step \notin {"mv", "restore"}
  BY <1>1 DEF ToolState
<1>3. /\ UNCHANGED <<entry, saved, inode, rcnodes, unrecorded>>
      /\ tool' = [tool EXCEPT ![u] = t] /\ made' \subseteq Dirs
  BY <1>1 DEF rcmkdir, Goto, mfs, UndeleteInv, DiskInv, DiskTypeOK
<1> QED  BY <1>2, <1>3, ToolOnlyStep

LEMMA DoneStep ==
  ASSUME UndeleteInv, NEW u \in Users, UNCHANGED <<disk, rcnodes, unrecorded>>, Done(u)
  PROVE  RightStep
<1>1. AtMenu \in ToolState /\ AtMenu.step \notin {"mv", "restore"}
  BY DEF ToolState, AtMenu
<1>2. UNCHANGED <<entry, saved, inode, rcnodes, unrecorded>> /\ made' \subseteq Dirs
  BY DEF disk, UndeleteInv, DiskInv, DiskTypeOK
<1>3. tool' = [tool EXCEPT ![u] = AtMenu]
  BY DEF Done
<1> QED  BY <1>1, <1>2, <1>3, ToolOnlyStep

LEMMA RecordDirStep ==
  ASSUME UndeleteInv, NEW u \in Users, do_rcmkdir(u)
  PROVE  RightStep
BY DoneStep DEF do_rcmkdir, fs_rcmkdir, VfsFails, mfs

LEMMA NotRestoredStep ==
  ASSUME UndeleteInv, NEW u \in Users, NotRestored(u)
  PROVE  RightStep
BY DoneStep DEF NotRestored, mfs

LEMMA BeginDamageStep ==
  ASSUME UndeleteInv, NEW u \in Users, NEW d \in Dirs, NEW n \in Names, damageInode(u, d, n)
  PROVE  RightStep
<1>1. PICK t : t = [step |-> "damage", dir |-> d, name |-> n, node |-> inode[entry[d][n]]]
  OBVIOUS
<1>2. inode[entry[d][n]] \in Inodes
  BY DEF damageInode, UndeleteInv, DiskInv, Numbered
<1>3. t \in ToolState /\ t.step \notin {"mv", "restore"}
  BY <1>1, <1>2 DEF ToolState
<1>4. /\ UNCHANGED <<entry, saved, inode, rcnodes, unrecorded>>
      /\ tool' = [tool EXCEPT ![u] = t] /\ made' \subseteq Dirs
  BY <1>1 DEF damageInode, Goto, mfs, disk, UndeleteInv, DiskInv, DiskTypeOK
<1> QED  BY <1>3, <1>4, ToolOnlyStep

\* The call is told to MFS: with a record, or as one that has none.
LEMMA DamageStep ==
  ASSUME UndeleteInv, NEW u \in Users, do_damageinode(u)
  PROVE  RightStep
<1>1. PICK t : t = tool[u]
  OBVIOUS
<1>2. PICK key : key = KeyOf(t)
  OBVIOUS
<1>3. /\ t.step = "damage" /\ t.dir \in Dirs /\ t.name \in Names /\ t.node \in Inodes
      /\ UNCHANGED disk
  BY <1>1, ToolKnows DEF do_damageinode, UndeleteInv
<1>4. PICK s : s = [step |-> "mv", dir |-> t.dir, name |-> t.name, node |-> t.node]
  OBVIOUS
<1>5. ToolInv' /\ tool'[u] = s /\ \A v \in Users \ {u} : tool'[v] = tool[v]
  <2>1. s \in ToolState
    BY <1>3, <1>4 DEF ToolState
  <2>2. tool' = [tool EXCEPT ![u] = s]
    BY <1>1, <1>4 DEF do_damageinode, Goto
  <2> QED  BY <2>1, <2>2, ToolGoes DEF UndeleteInv
<1>6. DiskInv' /\ saved' = saved /\ entry' = entry
  BY <1>3, DiskStays DEF UndeleteInv, disk
<1>7. PICK x : x = [pinode |-> t.dir, finode |-> t.node, fname |-> t.name]
  OBVIOUS
<1>8. x \in Records /\ x = RecordOf(key) /\ KeyOf(s) = key
  BY <1>2, <1>3, <1>4, <1>7 DEF Records, RecordOf, KeyOf
<1>9. /\ rcnodes' = rcnodes \/ rcnodes' = Append(rcnodes, x)
      /\ \/ unrecorded' = unrecorded \cup {key}
         \/ rcnodes' = Append(rcnodes, x) /\ unrecorded' = unrecorded \ {key}
  <2>1. CASE VfsFails /\ unrecorded' = unrecorded \cup {key}
    BY <2>1 DEF VfsFails, mfs
  <2>2. CASE /\ fs_damageinode(t.dir, t.name, t.node)
             /\ unrecorded' = IF t.dir \in rcdirs /\ ~fault'
                              THEN unrecorded \ {key} ELSE unrecorded \cup {key}
    BY <1>7, <2>2 DEF fs_damageinode, Record
  <2> QED  BY <1>1, <1>2, <2>1, <2>2 DEF do_damageinode, KeyOf
<1>10. RecordsGrow /\ rcnodes \in Seq(Records)
  BY <1>8, <1>9 DEF RecordsGrow, UndeleteInv, RecordInv, Records
<1>11. key \in unrecorded' \/ HasRecord(rcnodes', key)
  <2>1. CASE unrecorded' = unrecorded \cup {key}
    BY <2>1
  <2>2. CASE rcnodes' = Append(rcnodes, x)
    <3>1. Len(rcnodes) + 1 \in DOMAIN rcnodes' /\ rcnodes'[Len(rcnodes) + 1] = x
      BY <1>10, <2>2
    <3> QED  BY <1>8, <3>1 DEF HasRecord
  <2> QED  BY <1>9, <2>1, <2>2
<1>12. \A k : k \in unrecorded => k \in unrecorded' \/ HasRecord(rcnodes', k)
  BY <1>9, <1>11
<1>13. RecordInv'
  <2>1. s.step = "mv"
    BY <1>4
  <2> QED  BY <1>5, <1>6, <1>8, <1>10, <1>11, <1>12, <2>1, RecordInvOf DEF UndeleteInv
<1> QED  BY <1>5, <1>6, <1>13, NotBackBefore
         DEF RightStep, UndeleteInv, LeavesIfAsked, ComesBackIfFirst

\* The file is moved away under the number that MFS was told.
LEMMA ToTmpStep ==
  ASSUME UndeleteInv, NEW u \in Users, MvToTmp(u)
  PROVE  RightStep
<1>1. PICK key : key = KeyOf(tool[u])
  OBVIOUS
<1>2. /\ tool[u].step = "mv" /\ Done(u) /\ UNCHANGED <<rcnodes, unrecorded>>
      /\ DiskInv' /\ key \in Key
  BY <1>1, ToTmpDisk, ToolKnows DEF MvToTmp, UndeleteInv, mfs
<1>3. ToolInv' /\ tool'[u] = AtMenu /\ \A v \in Users \ {u} : tool'[v] = tool[v]
  BY <1>2, ToolIsDone DEF UndeleteInv
<1>4. \A k \in Key : saved'[k] # saved[k] => k = key
  BY <1>1 DEF MvToTmp, MvFails, disk, KeyOf, UndeleteInv, DiskInv, DiskTypeOK
<1>5. key \in unrecorded \/ HasRecord(rcnodes, key)
  BY <1>1, <1>2 DEF UndeleteInv, RecordInv, ToldBefore
<1>6. \A d \in Dirs, n \in Names : entry'[d][n] = entry[d][n] \/ entry'[d][n] = NONE
  BY DEF MvToTmp, MvFails, disk, UndeleteInv, DiskInv, DiskTypeOK
<1>7. RecordInv'
  <2>1. AtMenu.step \notin {"mv", "restore"}
    BY DEF AtMenu
  <2> QED  BY <1>2, <1>3, <1>4, <1>5, <2>1, RecordInvOf DEF UndeleteInv, RecordsGrow
<1>8. ASSUME NEW k \in Key PROVE LeavesIfAsked(k)
  BY <1>1, <1>2, <1>3, <1>4 DEF LeavesIfAsked, Replacing
<1>9. ASSUME NEW k \in Key PROVE ComesBackIfFirst(k)
  BY <1>6, NotBackBefore DEF ComesBackIfFirst
<1> QED  BY <1>2, <1>3, <1>7, <1>8, <1>9 DEF RightStep, UndeleteInv

\* The file that comes back is the one of the answer.
LEMMA BackStep ==
  ASSUME UndeleteInv, NEW u \in Users, MvBack(u)
  PROVE  RightStep
<1>1. PICK t : t = tool[u]
  OBVIOUS
<1>2. PICK key : key = KeyOf(t)
  OBVIOUS
<1>3. /\ t.step = "restore" /\ t.node > 0 /\ Done(u) /\ UNCHANGED <<rcnodes, unrecorded>>
      /\ DiskInv'
  BY <1>1, BackDisk DEF MvBack, UndeleteInv, mfs
<1>4. t.dir \in Dirs /\ t.name \in Names /\ t.node \in Inodes /\ key \in Key
  <2>1. t.dir \in Dirs /\ t.name \in Names /\ t.node \in Inodes \cup {0, -1}
    BY <1>1, <1>3, ToolKnows DEF UndeleteInv
  <2> QED  BY <1>2, <1>3, <2>1, NodePositive DEF Key, KeyOf
<1>5. ToolInv' /\ tool'[u] = AtMenu /\ \A v \in Users \ {u} : tool'[v] = tool[v]
  BY <1>3, ToolIsDone DEF UndeleteInv
<1>6. \A k \in Key : saved'[k] = saved[k] \/ (k = key /\ saved'[k] = NONE)
  BY <1>1, <1>2 DEF MvBack, MvFails, disk, KeyOf, UndeleteInv, DiskInv, DiskTypeOK
<1>7. \A d \in Dirs, n \in Names :
        \/ entry'[d][n] = entry[d][n]
        \/ entry'[d][n] = saved[key] /\ saved[key] # NONE
  BY <1>1, <1>2, <1>4 DEF MvBack, MvFails, disk, KeyOf, UndeleteInv, DiskInv, DiskTypeOK
<1>8. RecordInv'
  <2>1. AtMenu.step \notin {"mv", "restore"}
    BY DEF AtMenu
  <2> QED  BY <1>3, <1>5, <1>6, <2>1, RecordInvOf DEF UndeleteInv, RecordsGrow
<1>9. ASSUME NEW k \in Key PROVE LeavesIfAsked(k)
  <2>1. ASSUME k = key PROVE Undeleting(u, k)
    BY <1>1, <1>2, <1>3, <1>4, <2>1, UndeleteAssumption DEF Undeleting, KeyOf
  <2> QED  BY <1>5, <1>6, <2>1 DEF LeavesIfAsked
<1>10. ASSUME NEW k \in Key, saved[k] # NONE, entry'[k[2]][k[1]] = saved[k]
       PROVE  HasFirstRecord(rcnodes, k)
  <2>1. saved[key] = saved[k]
    BY <1>7, <1>10, NotBackBefore
  <2>2. k = key
    BY <1>4, <1>10, <2>1 DEF UndeleteInv, DiskInv, InOnePlace
  <2> QED  BY <1>1, <1>2, <1>3, <2>2 DEF UndeleteInv, RecordInv, AnswersFirst
<1> QED  BY <1>3, <1>5, <1>8, <1>9, <1>10 DEF RightStep, UndeleteInv, ComesBackIfFirst

LEMMA RemoveStep ==
  ASSUME UndeleteInv, NEW u \in Users, RmSaved(u)
  PROVE  RightStep
<1>1. /\ tool[u].step = "restore" /\ Done(u) /\ UNCHANGED <<entry, rcnodes, unrecorded>>
      /\ DiskInv'
  BY RemovedDisk DEF RmSaved, UndeleteInv, mfs
<1>2. ToolInv' /\ tool'[u] = AtMenu /\ \A v \in Users \ {u} : tool'[v] = tool[v]
  BY <1>1, ToolIsDone DEF UndeleteInv
<1>3. \A k \in Key : \/ saved'[k] = saved[k]
                     \/ /\ saved'[k] = NONE /\ k[1] = tool[u].name
                        /\ <<tool[u].dir, k[2]>> \in Prefix
  BY DEF RmSaved, Removed
<1>4. RecordInv'
  <2>1. AtMenu.step \notin {"mv", "restore"}
    BY DEF AtMenu
  <2> QED  BY <1>1, <1>2, <1>3, <2>1, RecordInvOf DEF UndeleteInv, RecordsGrow
<1>5. ASSUME NEW k \in Key PROVE LeavesIfAsked(k)
  BY <1>1, <1>2, <1>3 DEF LeavesIfAsked, Undeleting
<1>6. ASSUME NEW k \in Key PROVE ComesBackIfFirst(k)
  BY <1>1, NotBackBefore DEF ComesBackIfFirst
<1> QED  BY <1>1, <1>2, <1>4, <1>5, <1>6 DEF RightStep, UndeleteInv

-----------------------------------------------------------------------------
\* MFS's search for the name stops at its first record.
LEMMA LeastOf ==
  ASSUME NEW S \in SUBSET Nat, S # {}
  PROVE  \E i \in S : \A j \in S : i <= j
<1>1. PICK Below : Below = {0 .. i : i \in S}
  OBVIOUS
<1>2. Below \subseteq FiniteSubsetsOf(Nat) /\ Below # {}
  <2>1. ASSUME NEW i \in S PROVE 0 .. i \in SUBSET Nat /\ IsFiniteSet(0 .. i)
    <3>1. IsFiniteSet(0 .. i)
      BY FS_Interval
    <3> QED  BY <3>1
  <2>2. Below \subseteq FiniteSubsetsOf(Nat)
    BY <1>1, <2>1, Zenon DEF FiniteSubsetsOf
  <2>3. Below # {}
    BY <1>1
  <2> QED  BY <2>2, <2>3
<1>3. PICK x \in Below : \A y \in Below : <<y, x>> \notin StrictSubsetOrdering(Nat)
  BY <1>2, FS_StrictSubsetOrderingWellFounded, WFMin
<1>4. PICK i \in S : x = 0 .. i
  BY <1>1
<1>5. ASSUME NEW j \in S, j < i PROVE FALSE
  <2>1. 0 .. j \subseteq 0 .. i /\ 0 .. j # 0 .. i
    BY <1>5
  <2>2. 0 .. j \in Below /\ 0 .. j \in SUBSET Nat /\ 0 .. i \in SUBSET Nat
    BY <1>1
  <2>3. <<0 .. j, 0 .. i>> \in StrictSubsetOrdering(Nat)
    BY <2>1, <2>2 DEF StrictSubsetOrdering
  <2> QED  BY <1>3, <1>4, <2>2, <2>3
<1> QED  BY <1>5

LEMMA FoundIsFirst ==
  ASSUME rcnodes \in Seq(Records), NEW d \in Dirs, NEW n \in Names, Recorded(d, n) # {}
  PROVE  HasFirstRecord(rcnodes, <<n, d, FoundNode(d, n)>>)
<1>1. PICK S : S = Recorded(d, n)
  OBVIOUS
<1>2. DOMAIN rcnodes = 1 .. Len(rcnodes) /\ Len(rcnodes) \in Nat
  OBVIOUS
<1>3. S \in SUBSET Nat /\ S \subseteq DOMAIN rcnodes
  BY <1>1, <1>2 DEF Recorded
<1>4. PICK r : r = CHOOSE k \in S : \A l \in S : k <= l
  OBVIOUS
<1>5. r \in S /\ \A l \in S : r <= l
  <2>1. \E k \in S : \A l \in S : k <= l
    BY <1>1, <1>3, LeastOf
  <2> QED  BY <1>4, <2>1
<1>6. r \in DOMAIN rcnodes /\ rcnodes[r].pinode = d /\ rcnodes[r].fname = n
  BY <1>1, <1>5 DEF Recorded
<1>7. rcnodes[r] = RecordOf(<<n, d, FoundNode(d, n)>>)
  <2>1. FoundNode(d, n) = rcnodes[r].finode
    BY <1>1, <1>4 DEF FoundNode
  <2>2. rcnodes[r] \in Records
    BY <1>6
  <2> QED  BY <1>6, <2>1, <2>2 DEF RecordOf, Records
<1>8. ASSUME NEW q \in 1 .. r - 1 PROVE rcnodes[q].pinode # d \/ rcnodes[q].fname # n
  <2>1. q \in DOMAIN rcnodes /\ r \in Nat /\ ~(r <= q)
    BY <1>2, <1>6
  <2> QED  BY <1>1, <1>5, <2>1 DEF Recorded
<1> QED  BY <1>6, <1>7, <1>8 DEF HasFirstRecord

\* An answer above zero is the number in the first record.
LEMMA AnswerStep ==
  ASSUME UndeleteInv, NEW u \in Users, NEW d \in Dirs, NEW n \in Names, restoreInode(u, d, n)
  PROVE  RightStep
<1>1. PICK answer \in Inodes \cup {0, -1} :
        /\ fs_restoreinode(d, n, answer) \/ (answer = -1 /\ VfsFails)
        /\ Goto(u, "restore", d, n, answer)
  BY DEF restoreInode
<1>2. PICK t : t = [step |-> "restore", dir |-> d, name |-> n, node |-> answer]
  OBVIOUS
<1>3. ToolInv' /\ tool'[u] = t /\ \A v \in Users \ {u} : tool'[v] = tool[v]
  <2>1. t \in ToolState
    BY <1>1, <1>2 DEF ToolState
  <2>2. tool' = [tool EXCEPT ![u] = t]
    BY <1>1, <1>2 DEF Goto
  <2> QED  BY <2>1, <2>2, ToolGoes DEF UndeleteInv
<1>4. UNCHANGED <<disk, rcnodes, unrecorded>>
  BY <1>1 DEF restoreInode, fs_restoreinode, VfsFails, mfs
<1>5. DiskInv' /\ saved' = saved /\ entry' = entry
  BY <1>4, DiskStays DEF UndeleteInv, disk
<1>6. t.step = "restore" /\ t.node = answer /\ KeyOf(t) = <<n, d, answer>>
  BY <1>2 DEF KeyOf
<1>7. ASSUME answer > 0 PROVE HasFirstRecord(rcnodes, <<n, d, answer>>)
  <2>1. Recorded(d, n) # {} /\ answer = FoundNode(d, n)
    BY <1>1, <1>7 DEF fs_restoreinode
  <2> QED  BY <2>1, FoundIsFirst DEF UndeleteInv, RecordInv, Records
<1>8. RecordInv'
  BY <1>3, <1>4, <1>5, <1>6, <1>7, RecordInvOf DEF UndeleteInv, RecordsGrow
<1> QED  BY <1>3, <1>5, <1>8, NotBackBefore
         DEF RightStep, UndeleteInv, LeavesIfAsked, ComesBackIfFirst

-----------------------------------------------------------------------------
LEMMA UndeleteInit == Init => UndeleteInv
<1> SUFFICES ASSUME Init PROVE UndeleteInv
  OBVIOUS
<1>1. DiskInv
  BY UndeleteAssumption DEF Init, DiskInv, DiskTypeOK, InOnePlace, Numbered, Key
<1>2. ToolInv
  BY DEF Init, ToolInv, ToolState
<1>3. RecordInv
  BY DEF Init, RecordInv, SavedIsRecorded, ToldBefore, AnswersFirst, AtMenu
<1> QED  BY <1>1, <1>2, <1>3 DEF UndeleteInv

LEMMA StutterStep == UndeleteInv /\ UNCHANGED vars => UndeleteInv'
BY DEF vars, disk, mfs, UndeleteInv, DiskInv, DiskTypeOK, InOnePlace, Numbered, ToolInv,
       RecordInv, SavedIsRecorded, ToldBefore, AnswersFirst

LEMMA UndeleteStep ==
  ASSUME UndeleteInv, Next
  PROVE  RightStep \/ (UNCHANGED vars /\ UndeleteInv')
<1>1. CASE UNCHANGED vars
  BY <1>1, StutterStep
<1>2. CASE Step
  <2>1. ASSUME NEW d \in Dirs, Mkdir(d) PROVE RightStep
    BY <2>1, MkdirStep
  <2>2. ASSUME NEW d \in Dirs, NEW n \in Names, Create(d, n) PROVE RightStep
    BY <2>2, CreateStep
  <2>3. ASSUME NEW u \in Users, \/ do_rcmkdir(u) \/ do_damageinode(u) \/ MvToTmp(u)
                                \/ MvBack(u) \/ RmSaved(u) \/ NotRestored(u)
        PROVE  RightStep
    BY <2>3, RecordDirStep, DamageStep, ToTmpStep, BackStep, RemoveStep, NotRestoredStep
  <2>4. ASSUME NEW u \in Users, NEW d \in Dirs, rcmkdir(u, d) PROVE RightStep
    BY <2>4, ToolMkdirStep
  <2>5. ASSUME NEW u \in Users, NEW d \in Dirs, NEW n \in Names,
               damageInode(u, d, n) \/ restoreInode(u, d, n)
        PROVE  RightStep
    BY <2>5, BeginDamageStep, AnswerStep
  <2> QED  BY <1>2, <2>1, <2>2, <2>3, <2>4, <2>5 DEF Step
<1> QED  BY <1>1, <1>2 DEF Next

LEMMA UndeleteNext == UndeleteInv /\ [Next]_vars => UndeleteInv'
BY UndeleteStep, StutterStep DEF RightStep

\* Whatever tools, programs and MFS do, a file is in one place, a tool knows the
\* number of a file that is or was there, MFS was told of every file that is in
\* /tmp or about to be moved there, or the tool's call failed, and its answers
\* are first records: the inductive invariant of the other three theorems.
THEOREM MfsIsTold == Spec => []UndeleteInv
BY UndeleteInit, UndeleteNext, PTL DEF Spec

\* damageInode calls before it moves: no file is in /tmp under a number that was
\* not recorded, unless its directory was not known or the call failed.
THEOREM NoUnknownFileSaved == Spec => []SavedIsRecorded
<1>1. UndeleteInv => SavedIsRecorded
  BY DEF UndeleteInv, RecordInv
<1> QED  BY <1>1, MfsIsTold, PTL

\* Of testp3.c's commands only the mv and the rm of an undelete take a file out of
\* /tmp, one of its name in its directory or in one whose number's digits begin
\* those of its directory's number, as the tool's pattern cannot tell them apart;
\* and only a deletion under its very key replaces it.
THEOREM NothingLeavesUnasked == Spec => SavedUntilAsked
<1>1. UndeleteInv /\ [Next]_vars => [\A k \in Key : LeavesIfAsked(k)]_vars
  BY UndeleteStep DEF RightStep
<1> QED  BY <1>1, MfsIsTold, PTL DEF Spec, SavedUntilAsked

\* fs_restoreinode answers with the first record of the name, and records are
\* only appended: what a tool moves back is the file that was deleted first.
THEOREM FirstDeletedComesBack == Spec => FirstComesBack
<1>1. UndeleteInv /\ [Next]_vars => [\A k \in Key : ComesBackIfFirst(k)]_vars
  BY UndeleteStep DEF RightStep
<1> QED  BY <1>1, MfsIsTold, PTL DEF Spec, FirstComesBack
=============================================================================

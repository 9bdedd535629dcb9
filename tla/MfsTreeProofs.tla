----------------------------- MODULE MfsTreeProofs -----------------------------
(***************************************************************************)
(* Proofs about MfsTree, for any inodes, names and largest number of       *)
(* links: link counts are exact, directories without links are empty, a    *)
(* call that fails changes nothing, mount points keep their names, and the *)
(* directories are a tree.                                                 *)
(***************************************************************************)
EXTENDS MfsTree, TLAPS, FiniteSetTheorems, WellFoundedInduction

EntryMaps == [Inodes -> [AllNames -> Inodes \cup {NO_INODE}]]

Volumes == [entry : EntryMaps, nlinks : [Inodes -> Int]]

\* The link counts of v are those of its entries.
Counted(v) ==
    v \in Volumes /\ \A i \in Inodes : v.nlinks[i] = Cardinality(LinksIn(v.entry, i))

-----------------------------------------------------------------------------
LEMMA LinksAreFinite ==
  ASSUME NEW e, NEW i
  PROVE  IsFiniteSet(LinksIn(e, i))
<1>1. IsFiniteSet({dot1, dot2})
  <2>1. IsFiniteSet({dot1}) /\ IsFiniteSet({dot2})
    BY FS_Singleton
  <2>2. {dot1, dot2} = {dot1} \cup {dot2}
    OBVIOUS
  <2> QED  BY <2>1, <2>2, FS_Union
<1>2. IsFiniteSet(AllNames)
  BY <1>1, FS_Union, TreeAssumption DEF AllNames
<1>3. IsFiniteSet(Inodes \X AllNames)
  BY <1>2, FS_Product, TreeAssumption
<1>4. LinksIn(e, i) \subseteq Inodes \X AllNames
  BY DEF LinksIn
<1> QED  BY <1>3, <1>4, FS_Subset

\* What one changed entry does to the links of each inode, and their numbers.
Changed(e, e2, d, n, j) == e \in EntryMaps /\ e2 = [e EXCEPT ![d][n] = j]

LinksChange(e, e2, d, n, j, i) ==
    /\ LinksIn(e2, i) = IF i = j THEN LinksIn(e, i) \cup {<<d, n>>}
                                 ELSE LinksIn(e, i) \ {<<d, n>>}
    /\ <<d, n>> \in LinksIn(e, i) <=> e[d][n] = i
    /\ Cardinality(LinksIn(e, i)) \in Nat
    /\ Cardinality(LinksIn(e2, i)) =
         IF i = j THEN Cardinality(LinksIn(e, i)) + (IF e[d][n] = i THEN 0 ELSE 1)
                  ELSE Cardinality(LinksIn(e, i)) - (IF e[d][n] = i THEN 1 ELSE 0)

LEMMA OneEntryChanged ==
  ASSUME NEW e, NEW e2, NEW d \in Inodes, NEW n \in AllNames,
         NEW j \in Inodes \cup {NO_INODE}, NEW i \in Inodes, Changed(e, e2, d, n, j)
  PROVE  LinksChange(e, e2, d, n, j, i)
<1>1. \A p \in Inodes \X AllNames :
        e2[p[1]][p[2]] = IF p = <<d, n>> THEN j ELSE e[p[1]][p[2]]
  BY DEF EntryMaps, Changed
<1>2. PICK L : L = LinksIn(e, i)
  OBVIOUS
<1>3. PICK p \in Inodes \X AllNames : p = <<d, n>>
  OBVIOUS
<1>4. LinksIn(e2, i) = IF i = j THEN L \cup {p} ELSE L \ {p}
  BY <1>1, <1>2, <1>3 DEF LinksIn
<1>5. p \in L <=> e[d][n] = i
  BY <1>2, <1>3 DEF LinksIn
<1>6. IsFiniteSet(L) /\ Cardinality(L) \in Nat
  BY <1>2, LinksAreFinite, FS_CardinalityType
<1>7. Cardinality(L \cup {p}) = IF p \in L THEN Cardinality(L) ELSE Cardinality(L) + 1
  BY <1>6, FS_AddElement
<1>8. Cardinality(L \ {p}) = IF p \in L THEN Cardinality(L) - 1 ELSE Cardinality(L)
  BY <1>6, FS_RemoveElement
<1> QED  BY <1>2, <1>3, <1>4, <1>5, <1>6, <1>7, <1>8 DEF LinksChange

LEMMA DeletedEntry ==
  ASSUME NEW v \in Volumes, NEW d \in Inodes, NEW n \in AllNames
  PROVE  /\ Delete(v, d, n) \in Volumes
         /\ Delete(v, d, n).entry = [v.entry EXCEPT ![d][n] = NO_INODE]
         /\ Delete(v, d, n).nlinks = v.nlinks
BY DEF Delete, Volumes, EntryMaps

\* unlink_file takes the entry away, when it is there, and its link.
LEMMA UnlinkCounts ==
  ASSUME NEW v, Counted(v), NEW d \in Inodes, NEW n \in AllNames
  PROVE  /\ Counted(unlink_file(v, d, n))
         /\ unlink_file(v, d, n).entry = [v.entry EXCEPT ![d][n] = NO_INODE]
         /\ \A i \in Inodes : unlink_file(v, d, n).nlinks[i] <= v.nlinks[i]
<1>1. v \in Volumes /\ v.entry \in EntryMaps /\ v.nlinks \in [Inodes -> Int]
  BY DEF Counted, Volumes
<1>2. CASE v.entry[d][n] = NO_INODE
  <2>1. unlink_file(v, d, n) = v
    BY <1>2 DEF unlink_file
  <2>2. v.entry = [v.entry EXCEPT ![d][n] = NO_INODE]
    BY <1>1, <1>2 DEF EntryMaps
  <2> QED  BY <1>1, <2>1, <2>2
<1>3. CASE v.entry[d][n] # NO_INODE
  <2>1. PICK x \in Inodes : x = v.entry[d][n]
    BY <1>1, <1>3 DEF EntryMaps
  <2>2. PICK w : w = unlink_file(v, d, n)
    OBVIOUS
  <2>3. PICK u : u = Delete(v, d, n)
    OBVIOUS
  <2>4. u \in Volumes /\ u.entry = [v.entry EXCEPT ![d][n] = NO_INODE] /\ u.nlinks = v.nlinks
    BY <1>1, <2>3, DeletedEntry
  <2>5. w = [u EXCEPT !.nlinks[x] = @ - 1]
    BY <1>3, <2>1, <2>2, <2>3 DEF unlink_file
  <2>6. /\ w \in Volumes /\ w.entry = u.entry
        /\ w.nlinks = [v.nlinks EXCEPT ![x] = @ - 1]
    BY <1>1, <2>4, <2>5 DEF Volumes
  <2>7. ASSUME NEW i \in Inodes
        PROVE  w.nlinks[i] = Cardinality(LinksIn(w.entry, i)) /\ w.nlinks[i] <= v.nlinks[i]
    <3>1. v.nlinks[i] = Cardinality(LinksIn(v.entry, i)) /\ v.nlinks[i] \in Int
      BY <1>1 DEF Counted
    <3>2. Changed(v.entry, w.entry, d, n, NO_INODE)
      BY <1>1, <2>4, <2>6 DEF Changed
    <3>3. LinksChange(v.entry, w.entry, d, n, NO_INODE, i)
      BY <3>2, OneEntryChanged
    <3>4. i # NO_INODE
      BY TreeAssumption
    <3>5. Cardinality(LinksIn(w.entry, i)) =
            Cardinality(LinksIn(v.entry, i)) - (IF i = x THEN 1 ELSE 0)
      BY <2>1, <3>3, <3>4 DEF LinksChange
    <3>6. w.nlinks[i] = v.nlinks[i] - (IF i = x THEN 1 ELSE 0)
      BY <1>1, <2>6, <3>1
    <3> QED  BY <3>1, <3>5, <3>6
  <2> QED  BY <2>2, <2>4, <2>6, <2>7 DEF Counted
<1> QED  BY <1>2, <1>3

\* A new entry with its link.
Linked(v, d, n, i) == [Enter(v, d, n, i) EXCEPT !.nlinks[i] = @ + 1]

OneMore(f, g, x) == g = [f EXCEPT ![x] = @ + 1]

LEMMA LinkCountsUp ==
  ASSUME NEW v, Counted(v), NEW d \in Inodes, NEW n \in AllNames, NEW x \in Inodes,
         v.entry[d][n] = NO_INODE, NEW w, w = Linked(v, d, n, x)
  PROVE  /\ Counted(w) /\ Changed(v.entry, w.entry, d, n, x)
         /\ OneMore(v.nlinks, w.nlinks, x)
<1>1. v \in Volumes /\ v.entry \in EntryMaps /\ v.nlinks \in [Inodes -> Int]
  BY DEF Counted, Volumes
<1>3. PICK u : u = Enter(v, d, n, x)
  OBVIOUS
<1>4. u \in Volumes /\ u.entry = [v.entry EXCEPT ![d][n] = x] /\ u.nlinks = v.nlinks
  BY <1>1, <1>3 DEF Enter, Volumes, EntryMaps
<1>5. w = [u EXCEPT !.nlinks[x] = @ + 1]
  BY <1>3 DEF Linked
<1>6. /\ w \in Volumes /\ w.entry = u.entry
      /\ w.nlinks = [v.nlinks EXCEPT ![x] = @ + 1]
  BY <1>1, <1>4, <1>5 DEF Volumes
<1>7. ASSUME NEW i \in Inodes PROVE w.nlinks[i] = Cardinality(LinksIn(w.entry, i))
  <2>1. v.nlinks[i] = Cardinality(LinksIn(v.entry, i)) /\ v.nlinks[i] \in Int
    BY <1>1 DEF Counted
  <2>2. Changed(v.entry, w.entry, d, n, x)
    BY <1>1, <1>4, <1>6 DEF Changed
  <2>3. LinksChange(v.entry, w.entry, d, n, x, i)
    BY <2>2, OneEntryChanged
  <2>4. i # NO_INODE
    BY TreeAssumption
  <2>5. Cardinality(LinksIn(w.entry, i)) =
          Cardinality(LinksIn(v.entry, i)) + (IF i = x THEN 1 ELSE 0)
    BY <2>3, <2>4 DEF LinksChange
  <2>6. w.nlinks[i] = v.nlinks[i] + (IF i = x THEN 1 ELSE 0)
    BY <1>1, <1>6, <2>1
  <2> QED  BY <2>1, <2>5, <2>6
<1> QED  BY <1>1, <1>4, <1>6, <1>7 DEF Counted, Changed, OneMore

\* rename: the link of old goes from one entry to another.
Moved(v, od, on, nd, nn, x) == Enter(Delete(v, od, on), nd, nn, x)

MovesEntry(e, e2, od, on, nd, nn, x) ==
    /\ e2 \in EntryMaps
    /\ \A p \in Inodes, m \in AllNames :
         e2[p][m] = IF p = nd /\ m = nn THEN x
                    ELSE IF p = od /\ m = on THEN NO_INODE
                    ELSE e[p][m]

LEMMA MoveCounts ==
  ASSUME NEW v, Counted(v), NEW od \in Inodes, NEW on \in AllNames,
         NEW nd \in Inodes, NEW nn \in AllNames, NEW x \in Inodes,
         v.entry[od][on] = x, v.entry[nd][nn] = NO_INODE,
         NEW w, w = Moved(v, od, on, nd, nn, x)
  PROVE  Counted(w) /\ MovesEntry(v.entry, w.entry, od, on, nd, nn, x)
<1>1. v \in Volumes /\ v.entry \in EntryMaps /\ v.nlinks \in [Inodes -> Int]
  BY DEF Counted, Volumes
<1>2. PICK u : u = Delete(v, od, on)
  OBVIOUS
<1>3. w = Enter(u, nd, nn, x)
  BY <1>2 DEF Moved
<1>4. u \in Volumes /\ u.entry = [v.entry EXCEPT ![od][on] = NO_INODE] /\ u.nlinks = v.nlinks
  BY <1>1, <1>2, DeletedEntry
<1>5. w \in Volumes /\ w.entry = [u.entry EXCEPT ![nd][nn] = x] /\ w.nlinks = v.nlinks
  <2>1. PICK y : y = Enter(u, nd, nn, x)
    OBVIOUS
  <2>2. y \in Volumes /\ y.entry = [u.entry EXCEPT ![nd][nn] = x] /\ y.nlinks = u.nlinks
    BY <1>4, <2>1 DEF Enter, Volumes, EntryMaps
  <2>3. w = y
    BY <1>3, <2>1
  <2> QED  BY <1>4, <2>2, <2>3
<1>6. u.entry \in EntryMaps
  BY <1>4 DEF Volumes
<1>7. u.entry[nd][nn] = NO_INODE
  BY <1>1, <1>4 DEF EntryMaps
<1>8. ASSUME NEW i \in Inodes PROVE w.nlinks[i] = Cardinality(LinksIn(w.entry, i))
  <2>1. v.nlinks[i] = Cardinality(LinksIn(v.entry, i))
    BY <1>1 DEF Counted
  <2>2. Changed(v.entry, u.entry, od, on, NO_INODE) /\ Changed(u.entry, w.entry, nd, nn, x)
    BY <1>1, <1>4, <1>5, <1>6 DEF Changed
  <2>3. LinksChange(v.entry, u.entry, od, on, NO_INODE, i)
    BY <2>2, OneEntryChanged
  <2>4. LinksChange(u.entry, w.entry, nd, nn, x, i)
    BY <2>2, OneEntryChanged
  <2>5. i # NO_INODE
    BY TreeAssumption
  <2>6. Cardinality(LinksIn(u.entry, i)) =
          Cardinality(LinksIn(v.entry, i)) - (IF i = x THEN 1 ELSE 0)
    BY <2>3, <2>5 DEF LinksChange
  <2>7. Cardinality(LinksIn(w.entry, i)) =
          Cardinality(LinksIn(u.entry, i)) + (IF i = x THEN 1 ELSE 0)
    BY <1>7, <2>4, <2>5 DEF LinksChange
  <2>8. Cardinality(LinksIn(v.entry, i)) \in Nat
    BY <2>3 DEF LinksChange
  <2> QED  BY <1>5, <2>1, <2>6, <2>7, <2>8
<1>9. MovesEntry(v.entry, w.entry, od, on, nd, nn, x)
  <2>1. \A p \in Inodes, m \in AllNames :
          u.entry[p][m] = IF p = od /\ m = on THEN NO_INODE ELSE v.entry[p][m]
    BY <1>1, <1>4 DEF EntryMaps
  <2>2. \A p \in Inodes, m \in AllNames :
          w.entry[p][m] = IF p = nd /\ m = nn THEN x ELSE u.entry[p][m]
    BY <1>5, <1>6 DEF EntryMaps
  <2>3. w.entry \in EntryMaps
    BY <1>5 DEF Volumes
  <2> QED  BY <2>1, <2>2, <2>3 DEF MovesEntry
<1> QED  BY <1>5, <1>8, <1>9 DEF Counted

-----------------------------------------------------------------------------
\* What the entries e and the types t of a volume are between requests.
LiveLinks(e, t) ==
    \A p \in Inodes, n \in AllNames : e[p][n] # NO_INODE => t[e[p][n]] # "free"

Shaped(e, t) == e \in EntryMaps /\ Dotted(e, t) /\ Reached(e) /\ LiveLinks(e, t)

LEMMA HasLinks ==
  ASSUME NEW v, Counted(v), NEW p \in Inodes, NEW n \in AllNames, NEW i \in Inodes,
         v.entry[p][n] = i
  PROVE  v.nlinks[i] > 0
<1>1. <<p, n>> \in LinksIn(v.entry, i)
  BY DEF LinksIn
<1>2. PICK L : L = LinksIn(v.entry, i)
  OBVIOUS
<1>3. IsFiniteSet(L) /\ Cardinality(L) \in Nat
  BY <1>2, LinksAreFinite, FS_CardinalityType
<1>4. Cardinality(L) # 0
  BY <1>1, <1>2, <1>3, FS_EmptySet
<1> QED  BY <1>2, <1>3, <1>4 DEF Counted

LEMMA NoLinks ==
  ASSUME NEW v, Counted(v), NEW i \in Inodes, v.nlinks[i] = 0
  PROVE  \A p \in Inodes, n \in AllNames : v.entry[p][n] # i
BY HasLinks

LEMMA LinkedInodes ==
  ASSUME NEW v, Counted(v), NEW i \in Inodes, v.nlinks[i] # 0
  PROVE  v.nlinks[i] > 0 /\ \E p \in Inodes, n \in AllNames : v.entry[p][n] = i
<1>1. PICK L : L = LinksIn(v.entry, i)
  OBVIOUS
<1>2. IsFiniteSet(L) /\ Cardinality(L) \in Nat /\ Cardinality(L) # 0
  BY <1>1, LinksAreFinite, FS_CardinalityType DEF Counted
<1>3. L # {}
  BY <1>2, FS_EmptySet
<1> QED  BY <1>1, <1>2, <1>3 DEF LinksIn, Counted

LEMMA VolumeIs ==
  ASSUME TreeInv
  PROVE  Counted(Volume) /\ Shaped(entry, type) /\ Volume.entry = entry
         /\ Volume.nlinks = i_nlinks
<1>1. Volume.entry = entry /\ Volume.nlinks = i_nlinks /\ Volume \in Volumes
  BY DEF Volume, Volumes, EntryMaps, TreeInv, TypeOK
<1>2. Counted(Volume)
  BY <1>1 DEF Counted, TreeInv, LinkCounts, Links
<1>3. LiveLinks(entry, type)
  <2> SUFFICES ASSUME NEW p \in Inodes, NEW n \in AllNames, entry[p][n] # NO_INODE
               PROVE  type[entry[p][n]] # "free"
    BY DEF LiveLinks
  <2>1. entry[p][n] \in Inodes
    BY DEF TreeInv, TypeOK
  <2>2. i_nlinks[entry[p][n]] > 0
    BY <1>1, <1>2, <2>1, HasLinks
  <2> QED  BY <2>1, <2>2 DEF TreeInv, FreeOnes
<1> QED  BY <1>1, <1>2, <1>3 DEF Shaped, TreeInv, TypeOK, EntryMaps

\* A directory with links is the root or has a name.
LEMMA LinkedIsNamed ==
  ASSUME TreeInv, NEW d \in Inodes \ {ROOT_INODE}, Exists(d)
  PROVE  Named(entry, d)
<1>1. PICK p \in Inodes, n \in AllNames : entry[p][n] = d
  BY VolumeIs, LinkedInodes DEF Exists
<1>2. CASE n \in Names
  BY <1>1, <1>2 DEF Named
<1>3. CASE n = dot1
  <2>1. p = d
    BY <1>1, <1>3, TreeAssumption DEF TreeInv, Dotted
  <2>2. entry[d] # NoEntries
    BY <1>1, <2>1, TreeAssumption DEF NoEntries
  <2> QED  BY <2>2 DEF TreeInv, Reached
<1>4. CASE n = dot2
  <2>1. PICK m \in Names : entry[d][m] = p
    BY <1>1, <1>4 DEF TreeInv, Reached
  <2>2. entry[d] # NoEntries
    BY <2>1, TreeAssumption DEF NoEntries, AllNames
  <2> QED  BY <2>2 DEF TreeInv, Reached
<1> QED  BY <1>2, <1>3, <1>4 DEF AllNames

\* An inode without links has no entries and is not the root.
LEMMA UnlinkedIsEmpty ==
  ASSUME NEW v, Counted(v), NEW t, Shaped(v.entry, t), NEW i \in Inodes, v.nlinks[i] = 0
  PROVE  v.entry[i] = NoEntries /\ i # ROOT_INODE
<1>1. \A p \in Inodes, n \in AllNames : v.entry[p][n] # i
  BY NoLinks
<1>2. i # ROOT_INODE
  BY <1>1, TreeAssumption DEF Shaped, Dotted, AllNames
<1>3. ~Named(v.entry, i)
  BY <1>1 DEF Named, AllNames
<1> QED  BY <1>2, <1>3 DEF Shaped, Reached

\* put_inode frees inodes, and leaves all entries.
LEMMA Settled ==
  ASSUME TreeInv, NEW v, Counted(v), Shaped(v.entry, type), NEW holders, Settle(v, holders),
         holders \subseteq Inodes, mounted' \subseteq holders, ROOT_INODE \in holders,
         \A i \in holders : type[i] # "free"
  PROVE  TreeInv' /\ entry' = v.entry /\ i_nlinks' = v.nlinks
<1>1. PICK gone : gone = {i \in Inodes : v.nlinks[i] = 0 /\ i \notin holders}
  OBVIOUS
<1>2. /\ type' = [i \in Inodes |-> IF i \in gone THEN "free" ELSE type[i]]
      /\ entry' = [i \in Inodes |-> IF i \in gone THEN NoEntries ELSE v.entry[i]]
      /\ i_nlinks' = v.nlinks /\ held' = holders
  BY <1>1 DEF Settle
<1>3. v.entry \in EntryMaps /\ v.nlinks \in [Inodes -> Int]
  BY DEF Counted, Volumes
<1>4. \A i \in gone : v.entry[i] = NoEntries /\ i # ROOT_INODE
  BY <1>1, UnlinkedIsEmpty
<1>5. entry' = v.entry
  <2>1. \A i \in Inodes : v.entry[i] = IF i \in gone THEN NoEntries ELSE v.entry[i]
    BY <1>4
  <2>2. v.entry = [i \in Inodes |-> v.entry[i]]
    BY <1>3 DEF EntryMaps
  <2> QED  BY <1>2, <2>1, <2>2
<1>6. \A i \in Inodes : v.nlinks[i] \in Nat
  <2> SUFFICES ASSUME NEW i \in Inodes PROVE v.nlinks[i] \in Nat
    OBVIOUS
  <2>1. CASE v.nlinks[i] = 0
    BY <2>1
  <2>2. CASE v.nlinks[i] # 0
    BY <1>3, <2>2, LinkedInodes
  <2> QED  BY <2>1, <2>2
<1>7. TypeOK'
  <2>1. i_nlinks' \in [Inodes -> Nat]
    BY <1>2, <1>3, <1>6
  <2>2. type' \in [Inodes -> {"dir", "file", "free"}]
    BY <1>2 DEF TreeInv, TypeOK
  <2> QED  BY <1>2, <1>3, <1>5, <2>1, <2>2 DEF TypeOK, EntryMaps
<1>8. LinkCounts'
  BY <1>2, <1>5 DEF Counted, LinkCounts, Links
<1>9. Dotted(entry', type')
  BY <1>2, <1>4, <1>5, TreeAssumption DEF Shaped, Dotted
<1>10. Reached(entry')
  BY <1>5 DEF Shaped
<1>11. FreeOnes'
  <2> SUFFICES ASSUME NEW i \in Inodes
               PROVE  type'[i] = "free" <=> v.nlinks[i] = 0 /\ i \notin holders
    BY <1>2 DEF FreeOnes
  <2>1. CASE i \in gone
    BY <1>1, <1>2, <2>1
  <2>2. CASE i \notin gone
    <3>1. type'[i] = type[i] /\ ~(v.nlinks[i] = 0 /\ i \notin holders)
      BY <1>1, <1>2, <2>2
    <3>2. ASSUME type[i] = "free" PROVE FALSE
      <4>1. v.nlinks[i] # 0
        BY <3>1, <3>2
      <4>2. PICK p \in Inodes, n \in AllNames : v.entry[p][n] = i
        BY <4>1, LinkedInodes
      <4> QED  BY <3>2, <4>2, TreeAssumption DEF Shaped, LiveLinks
    <3> QED  BY <3>1, <3>2
  <2> QED  BY <2>1, <2>2
<1>12. Dotted(entry, type)' /\ Reached(entry)'
  BY <1>9, <1>10 DEF Dotted, Reached, Named
<1> QED  BY <1>2, <1>5, <1>7, <1>8, <1>11, <1>12 DEF TreeInv

-----------------------------------------------------------------------------
\* One more name, n in directory d, for an inode that is not free.
LEMMA EnteredShape ==
  ASSUME NEW e, NEW t, Shaped(e, t), NEW d \in Inodes, NEW n \in Names, NEW i \in Inodes,
         e[d][n] = NO_INODE, t[d] = "dir", d = ROOT_INODE \/ Named(e, d), t[i] # "free",
         NEW e2, e2 = [e EXCEPT ![d][n] = i]
  PROVE  Shaped(e2, t)
<1>1. e \in EntryMaps /\ e2 \in EntryMaps
  BY DEF Shaped, EntryMaps, AllNames
<1>2. \A p \in Inodes, m \in AllNames : e2[p][m] = IF p = d /\ m = n THEN i ELSE e[p][m]
  BY <1>1 DEF EntryMaps
<1>3. \A p \in Inodes \ {d} : e2[p] = e[p]
  BY <1>1 DEF EntryMaps
<1>4. \A p, q \in Inodes, m \in Names : e[p][m] = q => e2[p][m] = q
  BY <1>2, TreeAssumption DEF AllNames
<1>5. \A q \in Inodes : Named(e, q) => Named(e2, q)
  BY <1>4 DEF Named
<1>6. \A p \in Inodes : e2[p][dot1] = e[p][dot1] /\ e2[p][dot2] = e[p][dot2]
  BY <1>2, TreeAssumption DEF AllNames
<1>7. Dotted(e2, t)
  BY <1>3, <1>6, TreeAssumption DEF Shaped, Dotted
<1>8. Reached(e2)
  <2>1. ASSUME NEW q \in Inodes \ {ROOT_INODE}, e2[q] # NoEntries PROVE Named(e2, q)
    <3>1. CASE q = d
      BY <1>5, <3>1
    <3>2. CASE q # d
      BY <1>3, <1>5, <2>1, <3>2 DEF Shaped, Reached
    <3> QED  BY <3>1, <3>2
  <2>2. ASSUME NEW q \in Inodes, NEW p \in Inodes, e2[q][dot2] = p
        PROVE  (q = ROOT_INODE /\ p = ROOT_INODE) \/ \E m \in Names : e2[p][m] = q
    BY <1>4, <1>6, <2>2 DEF Shaped, Reached
  <2> QED  BY <2>1, <2>2 DEF Reached
<1>9. LiveLinks(e2, t)
  BY <1>2 DEF Shaped, LiveLinks
<1> QED  BY <1>1, <1>7, <1>8, <1>9 DEF Shaped

\* The name n of x in directory d is gone, and with it what x has for entries.
Removed(e, e2, d, n, x) ==
    /\ e2 \in EntryMaps
    /\ \A p \in Inodes, m \in AllNames :
         e2[p][m] = IF (p = d /\ m = n) \/ p = x THEN NO_INODE ELSE e[p][m]

NoNamesIn(e, x) == \A m \in Names : e[x][m] = NO_INODE

LEMMA RemovedShape ==
  ASSUME NEW e, NEW t, Shaped(e, t), NEW d \in Inodes, NEW n \in Names,
         NEW x \in Inodes \ {ROOT_INODE}, e[d][n] = x, NoNamesIn(e, x),
         NEW e2, Removed(e, e2, d, n, x)
  PROVE  /\ Shaped(e2, t)
         /\ \A q \in Inodes \ {x} : Named(e, q) => Named(e2, q)
<1>1. e \in EntryMaps /\ e2 \in EntryMaps
  BY DEF Shaped, Removed
<1>2. \A p \in Inodes, m \in AllNames : e2[p][m] \in {e[p][m], NO_INODE}
  BY DEF Removed
<1>3. \A p \in Inodes, q \in Inodes \ {x}, m \in Names : e[p][m] = q => e2[p][m] = q
  BY TreeAssumption DEF Removed, NoNamesIn, AllNames
<1>4. \A q \in Inodes \ {x} : Named(e, q) => Named(e2, q)
  BY <1>3 DEF Named
<1>5. e2[x] = NoEntries
  <2>1. \A m \in AllNames : e2[x][m] = NO_INODE
    BY DEF Removed
  <2> QED  BY <1>1, <2>1 DEF EntryMaps, NoEntries
<1>6. \A p \in Inodes : e[p] = NoEntries => e2[p] = NoEntries
  <2> SUFFICES ASSUME NEW p \in Inodes, e[p] = NoEntries PROVE e2[p] = NoEntries
    OBVIOUS
  <2>1. \A m \in AllNames : e2[p][m] = NO_INODE
    BY <1>2 DEF NoEntries
  <2> QED  BY <1>1, <2>1 DEF EntryMaps, NoEntries
<1>7. Dotted(e2, t)
  <2>1. \A p \in Inodes : e2[p][dot1] \in {p, NO_INODE}
    BY <1>2 DEF Shaped, Dotted, AllNames
  <2>2. e2[ROOT_INODE][dot1] = ROOT_INODE
    BY TreeAssumption DEF Shaped, Dotted, AllNames, Removed
  <2> QED  BY <1>6, <2>1, <2>2 DEF Shaped, Dotted
<1>8. Reached(e2)
  <2>1. ASSUME NEW q \in Inodes \ {ROOT_INODE}, e2[q] # NoEntries PROVE Named(e2, q)
    <3>1. q # x /\ e[q] # NoEntries
      BY <1>5, <1>6, <2>1
    <3> QED  BY <1>4, <3>1 DEF Shaped, Reached
  <2>2. ASSUME NEW q \in Inodes, NEW p \in Inodes, e2[q][dot2] = p
        PROVE  (q = ROOT_INODE /\ p = ROOT_INODE) \/ \E m \in Names : e2[p][m] = q
    <3>1. q # x
      BY <2>2, TreeAssumption DEF Removed, AllNames
    <3>2. e[q][dot2] = p
      BY <1>2, <2>2, TreeAssumption DEF AllNames
    <3> QED  BY <1>3, <3>1, <3>2 DEF Shaped, Reached
  <2> QED  BY <2>1, <2>2 DEF Reached
<1>9. LiveLinks(e2, t)
  BY <1>2 DEF Shaped, LiveLinks
<1> QED  BY <1>1, <1>4, <1>7, <1>8, <1>9 DEF Shaped

\* x has a new name, nn in nd, for its old one, on in od, and c for "..".
Renamed(e, e2, od, on, nd, nn, x, c) ==
    /\ e2 \in EntryMaps
    /\ \A p \in Inodes, m \in AllNames :
         e2[p][m] = IF p = nd /\ m = nn THEN x
                    ELSE IF p = od /\ m = on THEN NO_INODE
                    ELSE IF p = x /\ m = dot2 THEN c
                    ELSE e[p][m]

LEMMA RenamedShape ==
  ASSUME NEW e, NEW t, Shaped(e, t), NEW od \in Inodes, NEW on \in Names,
         NEW nd \in Inodes, NEW nn \in Names, NEW x \in Inodes, NEW c,
         e[od][on] = x, e[nd][nn] = NO_INODE, t[nd] = "dir",
         nd = ROOT_INODE \/ Named(e, nd),
         IF t[x] = "dir" /\ od # nd THEN c \in {nd, NO_INODE} ELSE c = e[x][dot2],
         NEW e2, Renamed(e, e2, od, on, nd, nn, x, c)
  PROVE  Shaped(e2, t)
<1>1. e \in EntryMaps /\ e2 \in EntryMaps
  BY DEF Shaped, Renamed
<1>2. \A p \in Inodes, q \in Inodes \ {x}, m \in Names : e[p][m] = q => e2[p][m] = q
  BY TreeAssumption DEF Renamed, AllNames
<1>3. \A q \in Inodes \ {x} : Named(e, q) => Named(e2, q)
  BY <1>2 DEF Named
<1>4. e2[nd][nn] = x
  BY DEF Renamed, AllNames
<1>5. \A p \in Inodes : e2[p][dot1] = e[p][dot1]
  BY TreeAssumption DEF Renamed, AllNames
<1>6. \A p \in Inodes \ {x} : e2[p][dot2] = e[p][dot2]
  BY TreeAssumption DEF Renamed, AllNames
<1>7. e2[x][dot2] = c
  BY TreeAssumption DEF Renamed, AllNames
<1>8. \A p \in Inodes \ {nd, x} : e[p] = NoEntries => e2[p] = NoEntries
  <2> SUFFICES ASSUME NEW p \in Inodes \ {nd, x}, e[p] = NoEntries PROVE e2[p] = NoEntries
    OBVIOUS
  <2>1. \A m \in AllNames : e2[p][m] = NO_INODE
    BY DEF NoEntries, Renamed
  <2> QED  BY <1>1, <2>1 DEF EntryMaps, NoEntries
<1>9. Dotted(e2, t)
  <2>1. ASSUME t[x] # "dir" PROVE e2[x] = NoEntries
    <3>1. e[x] = NoEntries /\ x # nd
      BY <2>1 DEF Shaped, Dotted
    <3>2. c = NO_INODE
      BY <2>1, <3>1 DEF NoEntries, AllNames
    <3>3. \A m \in AllNames : e2[x][m] = NO_INODE
      BY <3>1, <3>2 DEF NoEntries, Renamed
    <3> QED  BY <1>1, <3>3 DEF EntryMaps, NoEntries
  <2>2. \A p \in Inodes : t[p] # "dir" => e2[p] = NoEntries
    BY <1>8, <2>1 DEF Shaped, Dotted
  <2> QED  BY <1>5, <2>2, TreeAssumption DEF Shaped, Dotted
<1>10. Reached(e2)
  <2>1. ASSUME NEW q \in Inodes \ {ROOT_INODE}, e2[q] # NoEntries PROVE Named(e2, q)
    <3>1. CASE q = x
      BY <1>4, <3>1 DEF Named
    <3>2. CASE q # x /\ q = nd
      BY <1>3, <3>2
    <3>3. CASE q # x /\ q # nd
      BY <1>3, <1>8, <2>1, <3>3 DEF Shaped, Reached
    <3> QED  BY <3>1, <3>2, <3>3
  <2>2. ASSUME NEW q \in Inodes, NEW p \in Inodes, e2[q][dot2] = p
        PROVE  (q = ROOT_INODE /\ p = ROOT_INODE) \/ \E m \in Names : e2[p][m] = q
    <3>1. CASE q # x
      BY <1>2, <1>6, <2>2, <3>1 DEF Shaped, Reached
    <3>2. CASE q = x /\ t[x] = "dir" /\ od # nd
      BY <1>4, <1>7, <2>2, <3>2, TreeAssumption
    <3>3. CASE q = x /\ ~(t[x] = "dir" /\ od # nd)
      <4>1. e[x][dot2] = p
        BY <1>7, <2>2, <3>3
      <4>2. t[x] = "dir"
        <5>1. e[x] # NoEntries
          BY <4>1, TreeAssumption DEF NoEntries, AllNames
        <5> QED  BY <5>1 DEF Shaped, Dotted
      <4>3. od = nd
        BY <3>3, <4>2
      <4>4. CASE x = ROOT_INODE /\ p = ROOT_INODE
        BY <3>3, <4>4
      <4>5. ASSUME NEW m \in Names, e[p][m] = x PROVE \E k \in Names : e2[p][k] = q
        <5>1. CASE p = od /\ m = on
          BY <1>4, <3>3, <4>3, <5>1
        <5>2. CASE ~(p = od /\ m = on)
          <6>1. m \in AllNames /\ m # dot2
            BY TreeAssumption DEF AllNames
          <6>2. e2[p][m] = x
            BY <4>5, <5>2, <6>1 DEF Renamed
          <6> QED  BY <3>3, <6>2
        <5> QED  BY <5>1, <5>2
      <4> QED  BY <3>3, <4>1, <4>4, <4>5 DEF Shaped, Reached
    <3> QED  BY <3>1, <3>2, <3>3
  <2> QED  BY <2>1, <2>2 DEF Reached
<1>11. LiveLinks(e2, t)
  <2> SUFFICES ASSUME NEW p \in Inodes, NEW m \in AllNames, e2[p][m] # NO_INODE
               PROVE  t[e2[p][m]] # "free"
    BY DEF LiveLinks
  <2>1. t[x] # "free"
    BY TreeAssumption DEF Shaped, LiveLinks, AllNames
  <2>2. \/ e2[p][m] \in {x, NO_INODE, nd}
        \/ e2[p][m] = e[p][m]
    <3>1. c \in {nd, NO_INODE, e[x][dot2]}
      OBVIOUS
    <3> QED  BY <3>1 DEF Renamed
  <2> QED  BY <2>1, <2>2 DEF Shaped, LiveLinks
<1> QED  BY <1>1, <1>9, <1>10, <1>11 DEF Shaped

-----------------------------------------------------------------------------
\* unlink of a file and rmdir of an empty directory, whichever the model calls.
Removal(w, d, n, x) ==
    \/ type[x] # "dir" /\ w = unlink_file(Volume, d, n)
    \/ Removable(x, n) /\ w = remove_dir(Volume, d, n)

\* A file has no name in the place of "." or "..".
LEMMA FileNames ==
  ASSUME TreeInv, NEW d \in Inodes, NEW n \in AllNames, entry[d][n] \in Inodes,
         type[entry[d][n]] # "dir"
  PROVE  n \in Names
<1>1. entry[entry[d][n]] = NoEntries
  BY DEF TreeInv, Dotted
<1>2. CASE n = dot1
  <2>1. entry[d][n] = d
    BY <1>2, TreeAssumption DEF TreeInv, Dotted
  <2> QED  BY <1>1, <2>1, TreeAssumption DEF NoEntries
<1>3. CASE n = dot2
  <2>1. \/ d = ROOT_INODE /\ entry[d][n] = ROOT_INODE
        \/ \E m \in Names : entry[entry[d][n]][m] = d
    BY <1>3 DEF TreeInv, Reached
  <2> QED  BY <1>1, <2>1, TreeAssumption DEF NoEntries, AllNames, TreeInv, Dotted
<1> QED  BY <1>2, <1>3 DEF AllNames

\* remove_dir takes away the name and the two entries, with their links.
LEMMA RemoveDirCounts ==
  ASSUME NEW v, Counted(v), NEW d \in Inodes, NEW n \in AllNames, NEW x \in Inodes \ {d},
         v.entry[d][n] = x
  PROVE  /\ Counted(remove_dir(v, d, n))
         /\ \A p \in Inodes, m \in AllNames :
              remove_dir(v, d, n).entry[p][m] =
                IF (p = d /\ m = n) \/ (p = x /\ m \in {dot1, dot2}) THEN NO_INODE
                ELSE v.entry[p][m]
<1>1. PICK u : u = unlink_file(v, d, n)
  OBVIOUS
<1>2. Counted(u) /\ u.entry = [v.entry EXCEPT ![d][n] = NO_INODE]
  BY <1>1, UnlinkCounts
<1>3. dot1 \in AllNames /\ dot2 \in AllNames
  BY DEF AllNames
<1>4. PICK w : w = unlink_file(u, x, dot1)
  OBVIOUS
<1>5. Counted(w) /\ w.entry = [u.entry EXCEPT ![x][dot1] = NO_INODE]
  <2>1. x \in Inodes /\ Counted(u)
    BY <1>2
  <2>2. /\ Counted(unlink_file(u, x, dot1))
        /\ unlink_file(u, x, dot1).entry = [u.entry EXCEPT ![x][dot1] = NO_INODE]
    BY <1>3, <2>1, UnlinkCounts
  <2> QED  BY <1>4, <2>2
<1>6. PICK z : z = unlink_file(w, x, dot2)
  OBVIOUS
<1>7. Counted(z) /\ z.entry = [w.entry EXCEPT ![x][dot2] = NO_INODE]
  BY <1>3, <1>5, <1>6, UnlinkCounts
<1>8. z = remove_dir(v, d, n)
  BY <1>1, <1>4, <1>6 DEF remove_dir
<1>9. v.entry \in EntryMaps /\ u.entry \in EntryMaps /\ w.entry \in EntryMaps
  BY <1>2, <1>5 DEF Counted, Volumes
<1>10. \A p \in Inodes, m \in AllNames :
         u.entry[p][m] = IF p = d /\ m = n THEN NO_INODE ELSE v.entry[p][m]
  BY <1>2, <1>9 DEF EntryMaps
<1>11. \A p \in Inodes, m \in AllNames :
         w.entry[p][m] = IF p = x /\ m = dot1 THEN NO_INODE ELSE u.entry[p][m]
  BY <1>5, <1>9 DEF EntryMaps
<1>12. \A p \in Inodes, m \in AllNames :
         z.entry[p][m] = IF p = x /\ m = dot2 THEN NO_INODE ELSE w.entry[p][m]
  BY <1>7, <1>9 DEF EntryMaps
<1>13. \A p \in Inodes, m \in AllNames :
         z.entry[p][m] = IF (p = d /\ m = n) \/ (p = x /\ m \in {dot1, dot2}) THEN NO_INODE
                         ELSE v.entry[p][m]
  BY <1>10, <1>11, <1>12
<1> QED  BY <1>7, <1>8, <1>13

\* The names of mount points stay.
NamesKept(e, e2) ==
    \A m \in mounted, p \in Inodes, n \in Names : e[p][n] = m => e2[p][n] = m

LEMMA RemovalDoes ==
  ASSUME TreeInv, NEW d \in Inodes, NEW n \in AllNames, NEW x \in Inodes,
         entry[d][n] = x, type[d] = "dir", NEW w, Removal(w, d, n, x)
  PROVE  /\ n \in Names /\ x # d /\ x # ROOT_INODE /\ NoNamesIn(entry, x)
         /\ Counted(w) /\ Shaped(w.entry, type) /\ Removed(entry, w.entry, d, n, x)
         /\ \A q \in Inodes \ {x} : Named(entry, q) => Named(w.entry, q)
         /\ x \notin mounted => NamesKept(entry, w.entry)
<1>1. /\ Counted(Volume) /\ Shaped(entry, type) /\ Volume.entry = entry
      /\ entry \in EntryMaps
  BY VolumeIs DEF Shaped
<1>2. n \in Names
  BY FileNames DEF Removal, Removable, AllNames
<1>3. NoNamesIn(entry, x) /\ x # ROOT_INODE
  <2>1. CASE type[x] # "dir"
    BY <2>1 DEF TreeInv, Dotted, NoEntries, NoNamesIn, AllNames
  <2>2. CASE Removable(x, n)
    <3>1. \A m \in AllNames : entry[x][m] # NO_INODE => m \in {dot1, dot2}
      BY <1>1, <2>2 DEF Removable, IsEmpty, Entries
    <3> QED  BY <2>2, <3>1, TreeAssumption DEF Removable, NoNamesIn, AllNames
  <2> QED  BY <2>1, <2>2 DEF Removal
<1>4. x # d
  BY <1>2, <1>3, TreeAssumption DEF NoNamesIn
<1>5. Counted(w) /\ Removed(entry, w.entry, d, n, x)
  <2>1. CASE type[x] # "dir" /\ w = unlink_file(Volume, d, n)
    <3>1. Counted(w) /\ w.entry = [entry EXCEPT ![d][n] = NO_INODE]
      BY <1>1, <2>1, UnlinkCounts
    <3>2. \A m \in AllNames : entry[x][m] = NO_INODE
      BY <2>1 DEF TreeInv, Dotted, NoEntries
    <3>3. \A p \in Inodes, m \in AllNames :
            w.entry[p][m] = IF p = d /\ m = n THEN NO_INODE ELSE entry[p][m]
      BY <1>1, <3>1 DEF EntryMaps
    <3>4. w.entry \in EntryMaps
      BY <3>1 DEF Counted, Volumes
    <3> QED  BY <3>1, <3>2, <3>3, <3>4 DEF Removed
  <2>2. CASE w = remove_dir(Volume, d, n)
    <3>1. /\ Counted(w)
          /\ \A p \in Inodes, m \in AllNames :
               w.entry[p][m] =
                 IF (p = d /\ m = n) \/ (p = x /\ m \in {dot1, dot2}) THEN NO_INODE
                 ELSE entry[p][m]
      BY <1>1, <1>4, <2>2, RemoveDirCounts
    <3>2. w.entry \in EntryMaps
      BY <3>1 DEF Counted, Volumes
    <3> QED  BY <1>3, <3>1, <3>2 DEF Removed, NoNamesIn, AllNames
  <2> QED  BY <2>1, <2>2 DEF Removal
<1>6. /\ Shaped(w.entry, type)
      /\ \A q \in Inodes \ {x} : Named(entry, q) => Named(w.entry, q)
  <2>1. x \in Inodes \ {ROOT_INODE} /\ n \in Names /\ NoNamesIn(entry, x)
    BY <1>2, <1>3
  <2>2. PICK e2 : e2 = w.entry
    OBVIOUS
  <2>3. Removed(entry, e2, d, n, x) /\ Shaped(entry, type)
    BY <1>1, <1>5, <2>2
  <2>4. Shaped(e2, type) /\ \A q \in Inodes \ {x} : Named(entry, q) => Named(e2, q)
    BY <2>1, <2>3, RemovedShape
  <2> QED  BY <2>2, <2>4
<1>7. ASSUME x \notin mounted PROVE NamesKept(entry, w.entry)
  <2> SUFFICES ASSUME NEW m \in mounted, NEW p \in Inodes, NEW k \in Names, entry[p][k] = m
               PROVE  w.entry[p][k] = m
    BY DEF NamesKept
  <2>1. m \in Inodes
    BY DEF TreeInv, TypeOK
  <2> QED  BY <1>3, <1>5, <1>7, <2>1, TreeAssumption DEF Removed, NoNamesIn, AllNames
<1> QED  BY <1>2, <1>3, <1>4, <1>5, <1>6, <1>7

\* ".." of a directory that moved is its new parent, or is missing when there
\* was no room.
Reparents(e, e2, x, d, roomy) ==
    /\ e2 \in EntryMaps
    /\ \E c \in {d, NO_INODE} :
         /\ roomy => c = d
         /\ \A p \in Inodes, m \in AllNames :
              e2[p][m] = IF p = x /\ m = dot2 THEN c ELSE e[p][m]

LEMMA ReparentedCounts ==
  ASSUME NEW v, Counted(v), NEW x \in Inodes, NEW d \in Inodes, NEW full,
         NEW w, w = unlink_file(v, x, dot2)
  PROVE  /\ Counted(Reparented(v, x, d, full))
         /\ Reparents(v.entry, Reparented(v, x, d, full).entry, x, d, Room(w, x, full))
<1>1. dot2 \in AllNames
  BY DEF AllNames
<1>3. Counted(w) /\ w.entry = [v.entry EXCEPT ![x][dot2] = NO_INODE]
  BY <1>1, UnlinkCounts
<1>4. v.entry \in EntryMaps /\ w.entry \in EntryMaps
  BY <1>3 DEF Counted, Volumes
<1>5. \A p \in Inodes, m \in AllNames :
        w.entry[p][m] = IF p = x /\ m = dot2 THEN NO_INODE ELSE v.entry[p][m]
  BY <1>3, <1>4 DEF EntryMaps
<1>6. CASE Room(w, x, full)
  <2>1. PICK z : z = Linked(w, x, dot2, d)
    OBVIOUS
  <2>2. w.entry[x][dot2] = NO_INODE
    BY <1>1, <1>5
  <2>3. Counted(z) /\ z.entry = [w.entry EXCEPT ![x][dot2] = d]
    <3>1. Counted(w)
      BY <1>3
    <3>2. Counted(z) /\ Changed(w.entry, z.entry, x, dot2, d)
      BY <1>1, <2>1, <2>2, <3>1, LinkCountsUp
    <3> QED  BY <3>2 DEF Changed
  <2>4. z.entry \in EntryMaps
    BY <2>3 DEF Counted, Volumes
  <2>5. \A p \in Inodes, m \in AllNames :
          z.entry[p][m] = IF p = x /\ m = dot2 THEN d ELSE w.entry[p][m]
    BY <1>4, <2>3 DEF EntryMaps
  <2>6. Reparents(v.entry, z.entry, x, d, Room(w, x, full))
    BY <1>5, <2>4, <2>5 DEF Reparents
  <2>7. z = Reparented(v, x, d, full)
    BY <1>6, <2>1 DEF Reparented, Linked
  <2> QED  BY <2>3, <2>6, <2>7
<1>7. CASE ~Room(w, x, full)
  <2>1. w = Reparented(v, x, d, full)
    BY <1>7 DEF Reparented
  <2>2. Reparents(v.entry, w.entry, x, d, Room(w, x, full))
    BY <1>4, <1>5, <1>7 DEF Reparents
  <2> QED  BY <1>3, <2>1, <2>2
<1> QED  BY <1>6, <1>7

-----------------------------------------------------------------------------
\* What is proved of each request.
GoodStep ==
    /\ TreeInv'
    /\ r' = "error" => UNCHANGED <<type, entry, i_nlinks, held, mounted>>
    /\ NamesKept(entry, entry')

\* The volume is as it was, and no inode is freed by that.
LEMMA SameVolume ==
  ASSUME TreeInv, UNCHANGED <<type, entry, i_nlinks>>,
         mounted' \subseteq held', held' \subseteq Inodes, ROOT_INODE \in held',
         \A i \in Inodes : i_nlinks[i] = 0 => (i \in held <=> i \in held')
  PROVE  TreeInv' /\ NamesKept(entry, entry')
<1>1. TypeOK'
  BY DEF TreeInv, TypeOK
<1>2. LinkCounts'
  BY DEF TreeInv, LinkCounts, Links
<1>3. Dotted(entry, type)' /\ Reached(entry)'
  BY DEF TreeInv, Dotted, Reached, Named
<1>4. FreeOnes'
  BY DEF TreeInv, FreeOnes
<1> QED  BY <1>1, <1>2, <1>3, <1>4 DEF TreeInv, NamesKept

LEMMA FailStep == ASSUME TreeInv, Fail PROVE GoodStep
<1>1. UNCHANGED <<type, entry, i_nlinks, held, mounted>>
  BY DEF Fail
<1>2. TreeInv' /\ NamesKept(entry, entry')
  BY <1>1, SameVolume DEF TreeInv, TypeOK
<1> QED  BY <1>1, <1>2 DEF GoodStep

\* The end of a request on volume v.
LEMMA Succeeds ==
  ASSUME TreeInv, NEW v, Counted(v), Shaped(v.entry, type), Settle(v, held), UNCHANGED mounted
  PROVE  TreeInv' /\ entry' = v.entry
<1>1. \A i \in held : type[i] # "free"
  BY DEF TreeInv, FreeOnes, TypeOK
<1>2. held \subseteq Inodes /\ ROOT_INODE \in held /\ mounted' \subseteq held
  BY DEF TreeInv, TypeOK
<1> QED  BY <1>1, <1>2, Settled

LEMMA SucceedStep ==
  ASSUME TreeInv, NEW v, Counted(v), Shaped(v.entry, type), NamesKept(entry, v.entry), Succeed(v)
  PROVE  GoodStep
BY Succeeds DEF Succeed, GoodStep

\* A volume that was not changed stays so.
LEMMA VolumeSettles ==
  ASSUME TreeInv, Settle(Volume, held)
  PROVE  UNCHANGED <<type, entry, i_nlinks, held>>
<1>1. Counted(Volume) /\ Shaped(entry, type) /\ Volume.entry = entry /\ Volume.nlinks = i_nlinks
  BY VolumeIs
<1>2. PICK gone : gone = {i \in Inodes : i_nlinks[i] = 0 /\ i \notin held}
  OBVIOUS
<1>3. /\ type' = [i \in Inodes |-> IF i \in gone THEN "free" ELSE type[i]]
      /\ entry' = [i \in Inodes |-> IF i \in gone THEN NoEntries ELSE entry[i]]
      /\ i_nlinks' = i_nlinks /\ held' = held
  BY <1>1, <1>2 DEF Settle
<1>4. \A i \in gone : type[i] = "free" /\ entry[i] = NoEntries
  BY <1>2 DEF TreeInv, FreeOnes, Dotted
<1>5. type' = type
  BY <1>3, <1>4 DEF TreeInv, TypeOK
<1>6. entry' = entry
  BY <1>3, <1>4 DEF TreeInv, TypeOK
<1> QED  BY <1>3, <1>5, <1>6

LEMMA VolumeKept == NamesKept(entry, entry)
BY DEF NamesKept

-----------------------------------------------------------------------------
LEMMA LinkStep ==
  ASSUME TreeInv, NEW rip \in Inodes, NEW d \in Inodes, NEW n \in AllNames,
         NEW su, NEW full, fs_link(rip, d, n, su, full)
  PROVE  GoodStep
<1>1. CASE Fail
  BY <1>1, FailStep
<1>2. CASE ~Fail
  <2>1. /\ type[d] = "dir" /\ i_nlinks[rip] > 0 /\ Exists(d) /\ entry[d][n] = NO_INODE
        /\ n \in Names
        /\ Succeed(Linked(Volume, d, n, rip))
    BY <1>2 DEF fs_link, Linked
  <2>2. Counted(Volume) /\ Shaped(entry, type) /\ Volume.entry = entry
    BY VolumeIs
  <2>3. PICK w : w = Linked(Volume, d, n, rip)
    OBVIOUS
  <2>4. Counted(w) /\ w.entry = [entry EXCEPT ![d][n] = rip]
    <3>1. Counted(w) /\ Changed(Volume.entry, w.entry, d, n, rip)
      BY <2>1, <2>2, <2>3, LinkCountsUp
    <3> QED  BY <2>2, <3>1 DEF Changed
  <2>5. type[rip] # "free" /\ (d = ROOT_INODE \/ Named(entry, d))
    BY <2>1, LinkedIsNamed DEF TreeInv, FreeOnes
  <2>6. PICK e2 : e2 = [entry EXCEPT ![d][n] = rip]
    OBVIOUS
  <2>7. Shaped(e2, type)
    BY <2>1, <2>2, <2>5, <2>6, EnteredShape
  <2>8. NamesKept(entry, e2)
    <3> SUFFICES ASSUME NEW m \in mounted, NEW p \in Inodes, NEW k \in Names, entry[p][k] = m
                 PROVE  e2[p][k] = m
      BY DEF NamesKept
    <3>1. m # NO_INODE
      BY TreeAssumption DEF TreeInv, TypeOK
    <3>2. ~(p = d /\ k = n)
      BY <2>1, <3>1
    <3> QED  BY <2>6, <3>2 DEF TreeInv, TypeOK
  <2> QED  BY <2>1, <2>3, <2>4, <2>6, <2>7, <2>8, SucceedStep
<1> QED  BY <1>1, <1>2

LEMMA UnlinkStep ==
  ASSUME TreeInv, NEW d \in Inodes, NEW n \in AllNames,
         NEW request, fs_unlink(d, n, request)
  PROVE  GoodStep
<1>1. CASE Fail
  BY <1>1, FailStep
<1>2. CASE ~Fail
  <2>1. PICK x : x = entry[d][n]
    OBVIOUS
  <2>2. /\ type[d] = "dir" /\ x # NO_INODE /\ ~EntersMount(x)
        /\ \E w : Removal(w, d, n, x) /\ Succeed(w)
    BY <1>2, <2>1 DEF fs_unlink, Removal
  <2>3. x \in Inodes
    BY <2>1, <2>2 DEF TreeInv, TypeOK
  <2>4. PICK w : Removal(w, d, n, x) /\ Succeed(w)
    BY <2>2
  <2>5. Counted(w) /\ Shaped(w.entry, type) /\ (x \notin mounted => NamesKept(entry, w.entry))
    BY <2>1, <2>2, <2>3, <2>4, RemovalDoes
  <2>6. NamesKept(entry, w.entry)
    BY <2>2, <2>5 DEF EntersMount
  <2> QED  BY <2>4, <2>5, <2>6, SucceedStep
<1> QED  BY <1>1, <1>2

-----------------------------------------------------------------------------
\* rename, once the name it replaces is gone and v is what is left: the volume
\* z after the writes.
RenamedVolume(v, od, on, nd, nn, x, full) ==
    IF type[x] = "dir" /\ od # nd
    THEN Reparented(Moved(v, od, on, nd, nn, x), x, nd, full)
    ELSE Moved(v, od, on, nd, nn, x)

OtherNamesKept(e, e2, x) ==
    \A p \in Inodes, q \in Inodes \ {x}, m \in Names : e[p][m] = q => e2[p][m] = q

\* ".." of a directory that comes to another is that one, when there is room.
RenamedTo(v, z, od, on, nd, nn, x, full) ==
    \E c : /\ IF type[x] = "dir" /\ od # nd
              THEN /\ c \in {nd, NO_INODE}
                   /\ Room(unlink_file(Moved(v, od, on, nd, nn, x), x, dot2), x, full) => c = nd
              ELSE c = v.entry[x][dot2]
           /\ Renamed(v.entry, z.entry, od, on, nd, nn, x, c)

LEMMA RenameDoes ==
  ASSUME NEW v, Counted(v), Shaped(v.entry, type),
         NEW od \in Inodes, NEW on \in Names, NEW nd \in Inodes, NEW nn \in Names,
         NEW x \in Inodes, v.entry[od][on] = x, v.entry[nd][nn] = NO_INODE,
         type[nd] = "dir", nd = ROOT_INODE \/ Named(v.entry, nd), NEW full,
         NEW z, z = RenamedVolume(v, od, on, nd, nn, x, full)
  PROVE  /\ Counted(z) /\ Shaped(z.entry, type) /\ OtherNamesKept(v.entry, z.entry, x)
         /\ RenamedTo(v, z, od, on, nd, nn, x, full)
<1>1. on \in AllNames /\ nn \in AllNames /\ dot2 \in AllNames
  BY DEF AllNames
<1>2. PICK w : w = Moved(v, od, on, nd, nn, x)
  OBVIOUS
<1>3. Counted(w) /\ MovesEntry(v.entry, w.entry, od, on, nd, nn, x)
  BY <1>1, <1>2, MoveCounts
<1>4. PICK e : e = v.entry
  OBVIOUS
<1>5. PICK e2 : e2 = z.entry
  OBVIOUS
<1>6. Counted(z) /\ RenamedTo(v, z, od, on, nd, nn, x, full)
  <2>1. CASE type[x] = "dir" /\ od # nd
    <3>1. z = Reparented(w, x, nd, full)
      BY <1>2, <2>1 DEF RenamedVolume
    <3>2. PICK roomy : roomy = Room(unlink_file(w, x, dot2), x, full)
      OBVIOUS
    <3>3. Counted(z) /\ Reparents(w.entry, z.entry, x, nd, roomy)
      <4>1. Counted(w)
        BY <1>3
      <4> QED  BY <3>1, <3>2, <4>1, ReparentedCounts
    <3>4. PICK c \in {nd, NO_INODE} :
            /\ roomy => c = nd
            /\ \A p \in Inodes, m \in AllNames :
                 e2[p][m] = IF p = x /\ m = dot2 THEN c ELSE w.entry[p][m]
      BY <1>5, <3>3 DEF Reparents
    <3>5. Renamed(e, e2, od, on, nd, nn, x, c)
      BY <1>3, <1>4, <1>5, <3>3, <3>4, TreeAssumption DEF Renamed, MovesEntry, Reparents
    <3>6. Room(unlink_file(Moved(v, od, on, nd, nn, x), x, dot2), x, full) => c = nd
      BY <1>2, <3>2, <3>4
    <3> QED  BY <1>4, <1>5, <2>1, <3>3, <3>4, <3>5, <3>6 DEF RenamedTo
  <2>2. CASE ~(type[x] = "dir" /\ od # nd)
    <3>1. z = w
      BY <1>2, <2>2 DEF RenamedVolume
    <3>2. PICK c : c = e[x][dot2]
      OBVIOUS
    <3>3. Renamed(e, e2, od, on, nd, nn, x, c)
      BY <1>3, <1>4, <1>5, <3>1, <3>2 DEF Renamed, MovesEntry
    <3> QED  BY <1>3, <1>4, <1>5, <2>2, <3>1, <3>2, <3>3 DEF RenamedTo
  <2> QED  BY <2>1, <2>2
<1>7. PICK c : /\ IF type[x] = "dir" /\ od # nd THEN c \in {nd, NO_INODE} ELSE c = e[x][dot2]
               /\ Renamed(e, e2, od, on, nd, nn, x, c)
  BY <1>4, <1>5, <1>6 DEF RenamedTo
<1>8. Shaped(e2, type)
  <2>1. /\ Shaped(e, type) /\ e[od][on] = x /\ e[nd][nn] = NO_INODE
        /\ nd = ROOT_INODE \/ Named(e, nd)
    BY <1>4
  <2> QED  BY <1>7, <2>1, RenamedShape
<1>9. OtherNamesKept(e, e2, x)
  <2> SUFFICES ASSUME NEW p \in Inodes, NEW q \in Inodes \ {x}, NEW m \in Names, e[p][m] = q
               PROVE  e2[p][m] = q
    BY DEF OtherNamesKept
  <2>1. m \in AllNames /\ m # dot2
    BY TreeAssumption DEF AllNames
  <2>2. ~(p = nd /\ m = nn) /\ ~(p = od /\ m = on)
    BY <1>4, TreeAssumption
  <2> QED  BY <1>7, <2>1, <2>2 DEF Renamed
<1> QED  BY <1>4, <1>5, <1>6, <1>8, <1>9

\* What rename decided.
LEMMA CheckedRename ==
  ASSUME NEW od, NEW on, NEW nd, NEW nn, RenameCheck(od, on, nd, nn) = "OK",
         NEW old, old = entry[od][on], NEW new, new = entry[nd][nn]
  PROVE  /\ old # NO_INODE /\ old \notin mounted /\ Exists(nd) /\ new \notin mounted
         /\ old # new /\ on \notin {dot1, dot2} /\ nn \notin {dot1, dot2}
         /\ \/ new = NO_INODE
            \/ IF type[old] = "dir" THEN Removable(new, nn) ELSE type[new] # "dir"
BY DEF RenameCheck, EntersMount

\* There is room for a name in a directory that lost one.
LEMMA RoomForAnother ==
  ASSUME NEW v, NEW d, NEW n \in AllNames, entry[d][n] # NO_INODE, v.entry[d][n] = NO_INODE,
         \A m \in AllNames : entry[d][m] = NO_INODE => v.entry[d][m] = NO_INODE, NEW full
  PROVE  Room(v, d, full)
<1>1. PICK S : S = Entries(Volume, d)
  OBVIOUS
<1>2. PICK T : T = Entries(v, d)
  OBVIOUS
<1>3. T \subseteq S /\ n \in S /\ n \notin T /\ S \subseteq AllNames
  BY <1>1, <1>2 DEF Entries, Volume
<1>4. IsFiniteSet(AllNames)
  <2>1. IsFiniteSet({dot1}) /\ IsFiniteSet({dot2})
    BY FS_Singleton
  <2>2. AllNames = Names \cup ({dot1} \cup {dot2})
    BY DEF AllNames
  <2>3. IsFiniteSet({dot1} \cup {dot2})
    BY <2>1, FS_Union
  <2> QED  BY <2>2, <2>3, FS_Union, TreeAssumption
<1>5. IsFiniteSet(S)
  BY <1>3, <1>4, FS_Subset
<1>6. IsFiniteSet(T) /\ Cardinality(T) <= Cardinality(S) /\ Cardinality(T) # Cardinality(S)
  BY <1>3, <1>5, FS_Subset
<1>7. Cardinality(S) \in Nat /\ Cardinality(T) \in Nat
  BY <1>5, <1>6, FS_CardinalityType
<1> QED  BY <1>1, <1>2, <1>6, <1>7 DEF Room

\* What is left when the name that rename replaces is gone.
ReadyToMove(v, od, on, nd, nn, x) ==
    /\ Counted(v) /\ Shaped(v.entry, type)
    /\ v.entry[od][on] = x /\ v.entry[nd][nn] = NO_INODE
    /\ nd = ROOT_INODE \/ Named(v.entry, nd)
    /\ NamesKept(entry, v.entry)
    /\ \/ v.entry = entry
       \/ \E new \in Inodes \ {ROOT_INODE} :
             entry[nd][nn] = new /\ Removed(entry, v.entry, nd, nn, new)

LEMMA ReplacedIsReady ==
  ASSUME TreeInv, NEW od \in Inodes, NEW on \in AllNames, NEW nd \in Inodes,
         NEW nn \in AllNames, type[nd] = "dir", RenameCheck(od, on, nd, nn) = "OK",
         NEW x, x = entry[od][on],
         NEW v, v = Replaced(Volume, nd, nn, type[x] = "dir")
  PROVE  /\ ReadyToMove(v, od, on, nd, nn, x)
         /\ v = Volume \/ \A full : Room(v, nd, full)
<1>1. PICK new : new = entry[nd][nn]
  OBVIOUS
<1>2. /\ x # NO_INODE /\ x \notin mounted /\ Exists(nd) /\ new \notin mounted
      /\ x # new /\ on \in Names /\ nn \in Names
      /\ \/ new = NO_INODE
         \/ IF type[x] = "dir" THEN Removable(new, nn) ELSE type[new] # "dir"
  BY <1>1, CheckedRename DEF AllNames
<1>3. Counted(Volume) /\ Shaped(entry, type) /\ Volume.entry = entry
  BY VolumeIs
<1>4. nd = ROOT_INODE \/ Named(entry, nd)
  BY <1>2, LinkedIsNamed
<1>5. CASE new = NO_INODE
  <2>1. v = Volume
    BY <1>1, <1>3, <1>5 DEF Replaced
  <2> QED  BY <1>1, <1>3, <1>4, <1>5, <2>1, VolumeKept DEF ReadyToMove
<1>6. CASE new # NO_INODE
  <2>1. new \in Inodes
    BY <1>1, <1>6 DEF TreeInv, TypeOK
  <2>2. Removal(v, nd, nn, new)
    BY <1>1, <1>2, <1>3, <1>6 DEF Replaced, Removal
  <2>3. /\ new # nd /\ new # ROOT_INODE /\ NoNamesIn(entry, new)
        /\ Counted(v) /\ Shaped(v.entry, type) /\ Removed(entry, v.entry, nd, nn, new)
        /\ \A q \in Inodes \ {new} : Named(entry, q) => Named(v.entry, q)
        /\ NamesKept(entry, v.entry)
    BY <1>1, <1>2, <2>1, <2>2, RemovalDoes
  <2>4. od # new /\ ~(od = nd /\ on = nn)
    BY <1>1, <1>2, <2>3 DEF NoNamesIn
  <2>5. v.entry[od][on] = x /\ v.entry[nd][nn] = NO_INODE
    BY <2>3, <2>4 DEF Removed
  <2>6. nd = ROOT_INODE \/ Named(v.entry, nd)
    BY <1>4, <2>3
  <2>7. \A m \in AllNames : entry[nd][m] = NO_INODE => v.entry[nd][m] = NO_INODE
    BY <2>3 DEF Removed
  <2>8. \A full : Room(v, nd, full)
    BY <1>1, <1>6, <2>5, <2>7, RoomForAnother
  <2> QED  BY <1>1, <2>1, <2>3, <2>5, <2>6, <2>8 DEF ReadyToMove
<1> QED  BY <1>5, <1>6

\* A rename that writes.
RenameMoves(od, on, nd, nn, x, v, full, z) ==
    /\ RenameCheck(od, on, nd, nn) = "OK" /\ x = entry[od][on] /\ type[nd] = "dir"
    /\ x \in Inodes \ mounted /\ on \in Names /\ nn \in Names
    /\ ReadyToMove(v, od, on, nd, nn, x)
    /\ Counted(z) /\ Shaped(z.entry, type) /\ OtherNamesKept(v.entry, z.entry, x)
    /\ RenamedTo(v, z, od, on, nd, nn, x, full)
    /\ Succeed(z)

LEMMA RenameOutcomes ==
  ASSUME TreeInv, NEW od \in Inodes, NEW on \in AllNames, NEW nd \in Inodes,
         NEW nn \in AllNames, fs_rename(od, on, nd, nn)
  PROVE  \/ Fail
         \/ Settle(Volume, held) /\ UNCHANGED mounted
         \/ \E x, v, full, z : RenameMoves(od, on, nd, nn, x, v, full, z)
<1>1. CASE Fail \/ Succeed(Volume)
  BY <1>1 DEF Succeed
<1>2. CASE ~Fail /\ ~Succeed(Volume)
  <2>1. PICK x : x = entry[od][on]
    OBVIOUS
  <2>2. PICK full \in BOOLEAN : Move(x, od, on, nd, nn, full)
    BY <1>2, <2>1 DEF fs_rename
  <2>3. type[nd] = "dir" /\ RenameCheck(od, on, nd, nn) = "OK"
    BY <1>2 DEF fs_rename
  <2>4. PICK v : v = Replaced(Volume, nd, nn, type[x] = "dir")
    OBVIOUS
  <2>5. /\ ReadyToMove(v, od, on, nd, nn, x)
        /\ v = Volume \/ Room(v, nd, full)
    BY <2>1, <2>3, <2>4, ReplacedIsReady
  <2>6. x \in Inodes /\ x \notin mounted /\ on \in Names /\ nn \in Names
    <3>1. PICK new : new = entry[nd][nn]
      OBVIOUS
    <3>2. x # NO_INODE /\ x \notin mounted /\ on \in Names /\ nn \in Names
      BY <2>1, <2>3, <3>1, CheckedRename DEF AllNames
    <3> QED  BY <2>1, <3>2 DEF TreeInv, TypeOK
  <2>7. PICK z : z = RenamedVolume(v, od, on, nd, nn, x, full)
    OBVIOUS
  <2>8. IF od = nd \/ Room(v, nd, full) THEN Succeed(z)
        ELSE r' = "error" /\ Settle(v, held) /\ UNCHANGED mounted
    BY <2>2, <2>4, <2>7 DEF Move, Moved, RenamedVolume
  <2>9. CASE od = nd \/ Room(v, nd, full)
    <3>1. /\ Counted(v) /\ Shaped(v.entry, type)
          /\ v.entry[od][on] = x /\ v.entry[nd][nn] = NO_INODE
          /\ nd = ROOT_INODE \/ Named(v.entry, nd)
      BY <2>5 DEF ReadyToMove
    <3>2. /\ Counted(z) /\ Shaped(z.entry, type) /\ OtherNamesKept(v.entry, z.entry, x)
          /\ RenamedTo(v, z, od, on, nd, nn, x, full)
      BY <2>3, <2>6, <2>7, <3>1, RenameDoes
    <3>3. RenameMoves(od, on, nd, nn, x, v, full, z)
      BY <2>1, <2>3, <2>5, <2>6, <2>8, <2>9, <3>2 DEF RenameMoves
    <3> QED  BY <3>3
  <2>10. CASE ~(od = nd \/ Room(v, nd, full))
    BY <2>5, <2>8, <2>10
  <2> QED  BY <2>9, <2>10
<1> QED  BY <1>1, <1>2

LEMMA RenameStep ==
  ASSUME TreeInv, NEW od \in Inodes, NEW on \in AllNames, NEW nd \in Inodes,
         NEW nn \in AllNames, fs_rename(od, on, nd, nn)
  PROVE  GoodStep
<1>1. CASE Fail
  BY <1>1, FailStep
<1>2. CASE Settle(Volume, held) /\ UNCHANGED mounted
  <2>1. UNCHANGED <<type, entry, i_nlinks, held>>
    BY <1>2, VolumeSettles
  <2>2. TreeInv' /\ NamesKept(entry, entry')
    BY <1>2, <2>1, SameVolume DEF TreeInv, TypeOK
  <2> QED  BY <1>2, <2>1, <2>2 DEF GoodStep
<1>3. ASSUME NEW x, NEW v, NEW full, NEW z, RenameMoves(od, on, nd, nn, x, v, full, z)
      PROVE  GoodStep
  <2>1. NamesKept(entry, z.entry)
    BY <1>3 DEF RenameMoves, ReadyToMove, NamesKept, OtherNamesKept, TreeInv, TypeOK
  <2> QED  BY <1>3, <2>1, SucceedStep DEF RenameMoves
<1> QED  BY <1>1, <1>2, <1>3, RenameOutcomes

-----------------------------------------------------------------------------
\* A free inode i gets a type and a name.
LEMMA NewInode ==
  ASSUME TreeInv, NEW i \in Inodes, type[i] = "free",
         NEW k \in {"dir", "file"}, type' = [type EXCEPT ![i] = k],
         NEW v, Counted(v), v.entry = entry', v.nlinks = i_nlinks', Shaped(v.entry, type'),
         i_nlinks'[i] # 0, UNCHANGED <<held, mounted>>,
         \A q \in Inodes \ {i} : i_nlinks'[q] = 0 <=> i_nlinks[q] = 0
  PROVE  TreeInv'
<1>1. \A q \in Inodes : v.nlinks[q] \in Nat
  <2> SUFFICES ASSUME NEW q \in Inodes PROVE v.nlinks[q] \in Nat
    OBVIOUS
  <2>1. IsFiniteSet(LinksIn(v.entry, q))
    BY LinksAreFinite
  <2> QED  BY <2>1, FS_CardinalityType DEF Counted
<1>2. TypeOK'
  <2>1. v.nlinks \in [Inodes -> Nat]
    BY <1>1 DEF Counted, Volumes
  <2>2. entry' \in EntryMaps
    BY DEF Shaped
  <2> QED  BY <2>1, <2>2 DEF TreeInv, TypeOK, EntryMaps
<1>3. LinkCounts'
  BY DEF Counted, LinkCounts, Links
<1>4. Dotted(entry, type)' /\ Reached(entry)'
  BY DEF Shaped, Dotted, Reached, Named
<1>5. FreeOnes'
  BY DEF TreeInv, TypeOK, FreeOnes
<1> QED  BY <1>2, <1>3, <1>4, <1>5 DEF TreeInv

\* The shape does not depend on whether a file without entries is free.
LEMMA TypedShape ==
  ASSUME NEW e, NEW t, Shaped(e, t), t \in [Inodes -> {"dir", "file", "free"}],
         NEW i \in Inodes, t[i] = "free", NEW k \in {"dir", "file"},
         NEW t2, t2 = [t EXCEPT ![i] = k]
  PROVE  Shaped(e, t2)
<1>1. \A q \in Inodes : t2[q] = IF q = i THEN k ELSE t[q]
  OBVIOUS
<1>2. e \in EntryMaps
  BY DEF Shaped
<1>3. Dotted(e, t2)
  <2>1. \A q \in Inodes : t2[q] # "dir" => t[q] # "dir"
    BY <1>1
  <2>2. t2[ROOT_INODE] = "dir"
    BY <1>1, TreeAssumption DEF Shaped, Dotted
  <2> QED  BY <2>1, <2>2 DEF Shaped, Dotted
<1>4. LiveLinks(e, t2)
  <2>1. \A p \in Inodes, n \in AllNames : e[p][n] \in Inodes \cup {NO_INODE}
    BY <1>2 DEF EntryMaps
  <2>2. \A q \in Inodes : t[q] # "free" => t2[q] # "free"
    BY <1>1
  <2> QED  BY <2>1, <2>2 DEF Shaped, LiveLinks
<1> QED  BY <1>3, <1>4 DEF Shaped

\* A free place gets an entry: names stay.
EntriesKept(e, e2) ==
    \A p \in Inodes, m \in Names : e[p][m] # NO_INODE => e2[p][m] = e[p][m]

LEMMA EnteredKeeps ==
  ASSUME TreeInv, NEW e2, EntriesKept(entry, e2)
  PROVE  NamesKept(entry, e2)
BY TreeAssumption DEF NamesKept, EntriesKept, TreeInv, TypeOK

LEMMA CreateStep ==
  ASSUME TreeInv, NEW d \in Inodes, NEW n \in AllNames, NEW i \in Inodes, fs_create(d, n, i)
  PROVE  GoodStep
<1>1. /\ type[d] = "dir" /\ Exists(d) /\ n \in Names /\ entry[d][n] = NO_INODE
      /\ type[i] = "free"
      /\ type' = [type EXCEPT ![i] = "file"]
      /\ entry' = [entry EXCEPT ![d][n] = i]
      /\ i_nlinks' = [i_nlinks EXCEPT ![i] = 1]
      /\ r' = "OK" /\ UNCHANGED <<held, mounted>>
  BY DEF fs_create
<1>2. /\ Counted(Volume) /\ Shaped(entry, type) /\ Volume.entry = entry
      /\ Volume.nlinks = i_nlinks
  BY VolumeIs
<1>3. /\ i_nlinks[i] = 0 /\ i_nlinks \in [Inodes -> Nat]
      /\ type \in [Inodes -> {"dir", "file", "free"}]
  BY <1>1 DEF TreeInv, FreeOnes, TypeOK
<1>4. PICK v : v = Linked(Volume, d, n, i)
  OBVIOUS
<1>5. /\ Counted(v) /\ Changed(Volume.entry, v.entry, d, n, i)
      /\ OneMore(Volume.nlinks, v.nlinks, i)
  BY <1>1, <1>2, <1>4, LinkCountsUp
<1>6. v.entry = entry' /\ v.nlinks = i_nlinks'
  <2>1. v.entry = entry'
    BY <1>1, <1>2, <1>5 DEF Changed
  <2>2. v.nlinks = i_nlinks'
    BY <1>1, <1>2, <1>3, <1>5 DEF OneMore
  <2> QED  BY <2>1, <2>2
<1>7. d = ROOT_INODE \/ Named(entry, d)
  BY <1>1, LinkedIsNamed
<1>8. Shaped(v.entry, type')
  <2>1. PICK t : t = type'
    OBVIOUS
  <2>2. Shaped(entry, t)
    BY <1>1, <1>2, <1>3, <2>1, TypedShape
  <2>3. PICK e2 : e2 = [entry EXCEPT ![d][n] = i]
    OBVIOUS
  <2>4. t[d] = "dir" /\ t[i] # "free"
    BY <1>1, <1>3, <2>1
  <2>5. Shaped(e2, t)
    BY <1>1, <1>7, <2>2, <2>3, <2>4, EnteredShape
  <2> QED  BY <1>1, <1>6, <2>1, <2>3, <2>5
<1>9. /\ i_nlinks'[i] # 0
      /\ \A q \in Inodes \ {i} : i_nlinks'[q] = 0 <=> i_nlinks[q] = 0
  BY <1>1, <1>3
<1>10. TreeInv'
  BY <1>1, <1>5, <1>6, <1>8, <1>9, NewInode
<1>11. NamesKept(entry, entry')
  <2>1. EntriesKept(entry, entry')
    BY <1>1 DEF TreeInv, TypeOK, EntriesKept
  <2> QED  BY <2>1, EnteredKeeps
<1> QED  BY <1>1, <1>10, <1>11 DEF GoodStep

\* "." and ".." of a new directory i, which has a name in d.
LEMMA NewDirectoryShape ==
  ASSUME NEW e, NEW t, Shaped(e, t), NEW d \in Inodes, NEW n \in Names, NEW i \in Inodes \ {d},
         e[d][n] = i, t[i] = "dir", t[d] = "dir", e[i] = NoEntries,
         NEW e2, e2 \in EntryMaps,
         \A p \in Inodes, m \in AllNames :
           e2[p][m] = IF p = i /\ m = dot1 THEN i
                      ELSE IF p = i /\ m = dot2 THEN d
                      ELSE e[p][m]
  PROVE  Shaped(e2, t)
<1>1. e \in EntryMaps
  BY DEF Shaped
<1>2. dot1 \in AllNames /\ dot2 \in AllNames /\ dot1 # dot2
  BY TreeAssumption DEF AllNames
<1>3. \A p \in Inodes \ {i} : e2[p] = e[p]
  <2> SUFFICES ASSUME NEW p \in Inodes \ {i} PROVE e2[p] = e[p]
    OBVIOUS
  <2>1. \A m \in AllNames : e2[p][m] = e[p][m]
    OBVIOUS
  <2> QED  BY <1>1, <2>1 DEF EntryMaps
<1>4. i # ROOT_INODE
  <2>1. e[i][dot1] = NO_INODE
    BY <1>2 DEF NoEntries
  <2> QED  BY <2>1, TreeAssumption DEF Shaped, Dotted
<1>5. \A p \in Inodes, m \in Names : e2[p][m] = e[p][m]
  BY TreeAssumption DEF AllNames
<1>6. \A q \in Inodes : Named(e, q) => Named(e2, q)
  BY <1>5 DEF Named
<1>7. Dotted(e2, t)
  BY <1>2, <1>3, <1>4, TreeAssumption DEF Shaped, Dotted
<1>8. Reached(e2)
  <2>1. ASSUME NEW q \in Inodes \ {ROOT_INODE}, e2[q] # NoEntries PROVE Named(e2, q)
    <3>1. CASE q = i
      BY <1>6, <3>1 DEF Named
    <3>2. CASE q # i
      BY <1>3, <1>6, <2>1, <3>2 DEF Shaped, Reached
    <3> QED  BY <3>1, <3>2
  <2>2. ASSUME NEW q \in Inodes, NEW p \in Inodes, e2[q][dot2] = p
        PROVE  (q = ROOT_INODE /\ p = ROOT_INODE) \/ \E m \in Names : e2[p][m] = q
    <3>1. CASE q = i
      BY <1>2, <1>5, <2>2, <3>1
    <3>2. CASE q # i
      BY <1>3, <1>5, <2>2, <3>2 DEF Shaped, Reached
    <3> QED  BY <3>1, <3>2
  <2> QED  BY <2>1, <2>2 DEF Reached
<1>9. LiveLinks(e2, t)
  <2> SUFFICES ASSUME NEW p \in Inodes, NEW m \in AllNames, e2[p][m] # NO_INODE
               PROVE  t[e2[p][m]] # "free"
    BY DEF LiveLinks
  <2>1. e2[p][m] \in {i, d, e[p][m]}
    OBVIOUS
  <2> QED  BY <2>1 DEF Shaped, LiveLinks
<1> QED  BY <1>7, <1>8, <1>9 DEF Shaped

LEMMA MkdirStep ==
  ASSUME TreeInv, NEW d \in Inodes, NEW n \in AllNames, NEW i \in Inodes, fs_mkdir(d, n, i)
  PROVE  GoodStep
<1>1. /\ type[d] = "dir" /\ i_nlinks[d] \in 1 .. LINK_MAX - 1
      /\ n \in Names /\ entry[d][n] = NO_INODE /\ type[i] = "free"
      /\ type' = [type EXCEPT ![i] = "dir"]
      /\ entry' = [entry EXCEPT ![d][n] = i,
                     ![i] = [NoEntries EXCEPT ![dot1] = i, ![dot2] = d]]
      /\ i_nlinks' = [i_nlinks EXCEPT ![d] = @ + 1, ![i] = 2]
      /\ r' = "OK" /\ UNCHANGED <<held, mounted>>
  BY DEF fs_mkdir
<1>2. /\ Counted(Volume) /\ Shaped(entry, type) /\ Volume.entry = entry
      /\ Volume.nlinks = i_nlinks /\ entry \in EntryMaps
  BY VolumeIs DEF Shaped
<1>3. /\ i_nlinks[i] = 0 /\ i_nlinks \in [Inodes -> Nat] /\ i # d /\ Exists(d)
      /\ type \in [Inodes -> {"dir", "file", "free"}] /\ entry[i] = NoEntries
  BY <1>1 DEF TreeInv, FreeOnes, TypeOK, Dotted, Exists
<1>4. dot1 \in AllNames /\ dot2 \in AllNames /\ dot1 # dot2 /\ n \notin {dot1, dot2}
  BY <1>1, TreeAssumption DEF AllNames
<1>5. PICK u : u = Linked(Volume, d, n, i)
  OBVIOUS
<1>6. /\ Counted(u) /\ Changed(Volume.entry, u.entry, d, n, i)
      /\ OneMore(Volume.nlinks, u.nlinks, i)
  BY <1>1, <1>2, <1>5, LinkCountsUp
<1>7. u.entry \in EntryMaps
  BY <1>6 DEF Counted, Volumes
<1>8. \A p \in Inodes, m \in AllNames :
        u.entry[p][m] = IF p = d /\ m = n THEN i ELSE entry[p][m]
  BY <1>2, <1>6 DEF Changed, EntryMaps
<1>9. u.entry[i] = NoEntries /\ u.entry[i][dot1] = NO_INODE /\ u.entry[i][dot2] = NO_INODE
  BY <1>2, <1>3, <1>4, <1>6 DEF Changed, EntryMaps, NoEntries
<1>10. PICK w : w = Linked(u, i, dot1, i)
  OBVIOUS
<1>11. /\ Counted(w) /\ Changed(u.entry, w.entry, i, dot1, i)
       /\ OneMore(u.nlinks, w.nlinks, i)
  <2>1. Counted(u)
    BY <1>6
  <2> QED  BY <1>4, <1>9, <1>10, <2>1, LinkCountsUp
<1>12. \A p \in Inodes, m \in AllNames :
         w.entry[p][m] = IF p = i /\ m = dot1 THEN i ELSE u.entry[p][m]
  BY <1>7, <1>11 DEF Changed, EntryMaps
<1>13. w.entry[i][dot2] = NO_INODE /\ w.entry \in EntryMaps
  BY <1>4, <1>9, <1>11, <1>12 DEF Counted, Volumes
<1>14. PICK z : z = Linked(w, i, dot2, d)
  OBVIOUS
<1>15. /\ Counted(z) /\ Changed(w.entry, z.entry, i, dot2, d)
       /\ OneMore(w.nlinks, z.nlinks, d)
  <2>1. Counted(w)
    BY <1>11
  <2> QED  BY <1>4, <1>13, <1>14, <2>1, LinkCountsUp
<1>16. \A p \in Inodes, m \in AllNames :
         z.entry[p][m] = IF p = i /\ m = dot2 THEN d ELSE w.entry[p][m]
  BY <1>13, <1>15 DEF Changed, EntryMaps
<1>17. z.entry \in EntryMaps
  BY <1>15 DEF Counted, Volumes
<1>18. \A p \in Inodes, m \in AllNames :
         entry'[p][m] = IF p = d /\ m = n THEN i
                        ELSE IF p = i /\ m = dot1 THEN i
                        ELSE IF p = i /\ m = dot2 THEN d
                        ELSE entry[p][m]
  BY <1>1, <1>2, <1>3, <1>4 DEF EntryMaps, NoEntries
<1>19. entry' \in EntryMaps
  BY <1>1, <1>2, <1>3, <1>4 DEF EntryMaps, NoEntries
<1>20. z.entry = entry'
  <2>1. \A p \in Inodes : \A m \in AllNames : z.entry[p][m] = entry'[p][m]
    BY <1>3, <1>4, <1>8, <1>12, <1>16, <1>18
  <2>2. \A p \in Inodes : z.entry[p] = entry'[p]
    <3> SUFFICES ASSUME NEW p \in Inodes PROVE z.entry[p] = entry'[p]
      OBVIOUS
    <3>1. z.entry[p] \in [AllNames -> Inodes \cup {NO_INODE}]
      BY <1>17 DEF EntryMaps
    <3>2. entry'[p] \in [AllNames -> Inodes \cup {NO_INODE}]
      BY <1>19 DEF EntryMaps
    <3> QED  BY <2>1, <3>1, <3>2
  <2> QED  BY <1>17, <1>19, <2>2 DEF EntryMaps
<1>21. z.nlinks = i_nlinks'
  BY <1>1, <1>2, <1>3, <1>6, <1>11, <1>15 DEF OneMore
<1>22. d = ROOT_INODE \/ Named(entry, d)
  BY <1>3, LinkedIsNamed
<1>23. Shaped(z.entry, type')
  <2>1. PICK t : t = type'
    OBVIOUS
  <2>2. Shaped(entry, t)
    BY <1>1, <1>2, <1>3, <2>1, TypedShape
  <2>3. PICK e2 : e2 = [entry EXCEPT ![d][n] = i]
    OBVIOUS
  <2>4. t[d] = "dir" /\ t[i] = "dir"
    BY <1>1, <1>3, <2>1
  <2>5. Shaped(e2, t)
    BY <1>1, <1>22, <2>2, <2>3, <2>4, EnteredShape
  <2>6. e2 = u.entry
    BY <1>2, <1>6, <2>3 DEF Changed
  <2>7. PICK e3 : e3 = z.entry
    OBVIOUS
  <2>8. e2[d][n] = i /\ e2[i] = NoEntries /\ n \in Names /\ e3 \in EntryMaps
    BY <1>1, <1>4, <1>8, <1>9, <1>17, <2>6, <2>7 DEF AllNames
  <2>9. \A p \in Inodes, m \in AllNames :
          e3[p][m] = IF p = i /\ m = dot1 THEN i
                     ELSE IF p = i /\ m = dot2 THEN d
                     ELSE e2[p][m]
    BY <1>4, <1>12, <1>16, <2>6, <2>7
  <2>10. Shaped(e3, t)
    BY <1>3, <2>4, <2>5, <2>8, <2>9, NewDirectoryShape
  <2> QED  BY <2>1, <2>7, <2>10
<1>24. /\ i_nlinks'[i] # 0
       /\ \A q \in Inodes \ {i} : i_nlinks'[q] = 0 <=> i_nlinks[q] = 0
  BY <1>1, <1>3
<1>25. TreeInv'
  BY <1>1, <1>15, <1>20, <1>21, <1>23, <1>24, NewInode
<1>26. NamesKept(entry, entry')
  <2>1. EntriesKept(entry, entry')
    <3> SUFFICES ASSUME NEW p \in Inodes, NEW m \in Names, entry[p][m] # NO_INODE
                 PROVE  entry'[p][m] = entry[p][m]
      BY DEF EntriesKept
    <3>1. m \in AllNames /\ m # dot1 /\ m # dot2 /\ ~(p = d /\ m = n)
      BY <1>1, TreeAssumption DEF AllNames
    <3> QED  BY <1>18, <3>1
  <2> QED  BY <2>1, EnteredKeeps
<1> QED  BY <1>1, <1>25, <1>26 DEF GoodStep

-----------------------------------------------------------------------------
LEMMA HoldStep ==
  ASSUME TreeInv, NEW i \in Inodes, fs_lookup(i) \/ fs_mountpoint(i) \/ unmount(i)
  PROVE  GoodStep
<1>1. UNCHANGED <<type, entry, i_nlinks>> /\ r' = "OK"
  BY DEF fs_lookup, fs_mountpoint, unmount
<1>2. /\ mounted' \subseteq held' /\ held' \subseteq Inodes /\ ROOT_INODE \in held'
      /\ \A q \in Inodes : i_nlinks[q] = 0 => (q \in held <=> q \in held')
  <2>1. mounted \subseteq held /\ held \subseteq Inodes /\ ROOT_INODE \in held
    BY DEF TreeInv, TypeOK
  <2>2. CASE fs_lookup(i)
    BY <2>1, <2>2 DEF fs_lookup
  <2>3. CASE fs_mountpoint(i)
    BY <2>1, <2>3 DEF fs_mountpoint
  <2>4. CASE unmount(i)
    BY <2>1, <2>4 DEF unmount
  <2> QED  BY <2>2, <2>3, <2>4
<1>3. TreeInv' /\ NamesKept(entry, entry')
  BY <1>1, <1>2, SameVolume
<1> QED  BY <1>1, <1>3 DEF GoodStep

LEMMA PutStep ==
  ASSUME TreeInv, NEW i \in Inodes, fs_putnode(i)
  PROVE  GoodStep
<1>1. PICK holders : holders = held \ {i}
  OBVIOUS
<1>2. Settle(Volume, holders) /\ r' = "OK" /\ mounted' = mounted /\ i \notin mounted
      /\ i # ROOT_INODE
  BY <1>1 DEF fs_putnode
<1>3. /\ holders \subseteq Inodes /\ mounted' \subseteq holders /\ ROOT_INODE \in holders
      /\ \A q \in holders : type[q] # "free"
  BY <1>1, <1>2 DEF TreeInv, TypeOK, FreeOnes
<1>4. Counted(Volume) /\ Shaped(Volume.entry, type) /\ Volume.entry = entry
  BY VolumeIs
<1>5. TreeInv' /\ entry' = entry
  BY <1>2, <1>3, <1>4, Settled
<1> QED  BY <1>2, <1>5, VolumeKept DEF GoodStep

LEMMA InitIsTree == Init => TreeInv
<1> SUFFICES ASSUME Init PROVE TreeInv
  OBVIOUS
<1>1. dot1 \in AllNames /\ dot2 \in AllNames /\ dot1 # dot2
  BY TreeAssumption DEF AllNames
<1>2. NoEntries \in [AllNames -> Inodes \cup {NO_INODE}]
  BY DEF NoEntries
<1>3. PICK rootentries :
        rootentries = [NoEntries EXCEPT ![dot1] = ROOT_INODE, ![dot2] = ROOT_INODE]
  OBVIOUS
<1>4. /\ rootentries \in [AllNames -> Inodes \cup {NO_INODE}]
      /\ \A n \in AllNames : rootentries[n] = IF n \in {dot1, dot2} THEN ROOT_INODE ELSE NO_INODE
  BY <1>1, <1>3, TreeAssumption DEF NoEntries
<1>5. \A q \in Inodes : entry[q] = IF q = ROOT_INODE THEN rootentries ELSE NoEntries
  BY <1>3 DEF Init
<1>6. \A q \in Inodes, n \in AllNames :
        entry[q][n] = IF q = ROOT_INODE /\ n \in {dot1, dot2} THEN ROOT_INODE ELSE NO_INODE
  BY <1>4, <1>5 DEF NoEntries
<1>7. TypeOK
  BY <1>2, <1>3, <1>4, TreeAssumption DEF Init, TypeOK
<1>8. LinkCounts
  <2> SUFFICES ASSUME NEW i \in Inodes PROVE i_nlinks[i] = Cardinality(Links(i))
    BY DEF LinkCounts
  <2>1. CASE i # ROOT_INODE
    <3>1. Links(i) = {}
      BY <1>6, <2>1, TreeAssumption DEF Links, LinksIn
    <3> QED  BY <2>1, <3>1, FS_EmptySet DEF Init
  <2>2. CASE i = ROOT_INODE
    <3>1. PICK p \in Inodes \X AllNames : p = <<ROOT_INODE, dot1>>
      BY <1>1, TreeAssumption
    <3>2. PICK q \in Inodes \X AllNames : q = <<ROOT_INODE, dot2>>
      BY <1>1, TreeAssumption
    <3>3. p # q
      BY <1>1, <3>1, <3>2
    <3>4. Links(i) = {p} \cup {q}
      <4>1. Links(i) = {l \in Inodes \X AllNames : entry[l[1]][l[2]] = i}
        BY DEF Links, LinksIn
      <4>2. ASSUME NEW l \in Inodes \X AllNames
            PROVE  entry[l[1]][l[2]] = i <=> l \in {p} \cup {q}
        BY <1>6, <2>2, <3>1, <3>2, TreeAssumption
      <4> QED  BY <4>1, <4>2
    <3>5. IsFiniteSet({p}) /\ Cardinality({p}) = 1
      BY FS_Singleton
    <3>6. Cardinality({p} \cup {q}) = 2
      BY <3>3, <3>5, FS_AddElement
    <3> QED  BY <2>2, <3>4, <3>6 DEF Init
  <2> QED  BY <2>1, <2>2
<1>9. Dotted(entry, type)
  BY <1>1, <1>5, <1>6, TreeAssumption DEF Init, Dotted
<1>10. Reached(entry)
  BY <1>1, <1>5, <1>6, TreeAssumption DEF Reached
<1>11. FreeOnes
  BY DEF Init, FreeOnes
<1> QED  BY <1>7, <1>8, <1>9, <1>10, <1>11 DEF TreeInv

LEMMA EveryStep == ASSUME TreeInv, Next PROVE GoodStep
<1>1. ASSUME NEW i \in Inodes, fs_lookup(i) \/ fs_putnode(i) \/ fs_mountpoint(i) \/ unmount(i)
      PROVE  GoodStep
  BY <1>1, HoldStep, PutStep
<1>2. ASSUME NEW d \in Inodes, NEW n \in AllNames, NEW i \in Inodes,
             fs_create(d, n, i) \/ fs_mkdir(d, n, i)
      PROVE  GoodStep
  BY <1>2, CreateStep, MkdirStep
<1>3. ASSUME NEW d \in Inodes, NEW n \in AllNames, NEW rip \in Inodes,
             NEW su \in BOOLEAN, NEW full \in BOOLEAN, fs_link(rip, d, n, su, full)
      PROVE  GoodStep
  BY <1>3, LinkStep
<1>4. ASSUME NEW d \in Inodes, NEW n \in AllNames,
             NEW request \in {"REQ_UNLINK", "REQ_RMDIR"}, fs_unlink(d, n, request)
      PROVE  GoodStep
  BY <1>4, UnlinkStep
<1>5. ASSUME NEW d \in Inodes, NEW n \in AllNames, NEW e \in Inodes, NEW m \in AllNames,
             fs_rename(d, n, e, m)
      PROVE  GoodStep
  BY <1>5, RenameStep
<1> QED  BY <1>1, <1>2, <1>3, <1>4, <1>5 DEF Next

\* The link counts are those of the entries, only directories have entries,
\* a directory with entries has a name, and an inode is free when it has no
\* links and VFS does not hold it, whatever mfs/link.c is asked to do.
THEOREM TreeHolds == Spec => []TreeInv
<1>1. TreeInv /\ [Next]_vars => TreeInv'
  <2> SUFFICES ASSUME TreeInv, [Next]_vars PROVE TreeInv'
    OBVIOUS
  <2>1. CASE Next
    BY <2>1, EveryStep DEF GoodStep
  <2>2. CASE UNCHANGED vars
    BY <2>2 DEF vars, TreeInv, TypeOK, LinkCounts, Links, Dotted, Reached, Named, FreeOnes
  <2> QED  BY <2>1, <2>2
<1> QED  BY InitIsTree, <1>1, PTL DEF Spec

\* The link count of an inode is the number of entries that name it, on every
\* path through link, unlink, rmdir and rename.
THEOREM CountsAreLinks == Spec => []LinkCounts
<1>1. TreeInv => LinkCounts
  BY DEF TreeInv
<1> QED  BY TreeHolds, <1>1, PTL

\* A directory that lost its last name is empty and stays so while it is held,
\* so that put_inode loses nothing when it frees it.
THEOREM NothingIsFreedWithEntries == Spec => []RemovedStayEmpty
<1>1. TreeInv => RemovedStayEmpty
  <2> SUFFICES ASSUME TreeInv, NEW d \in Inodes, i_nlinks[d] = 0
               PROVE  Entries(Volume, d) = {}
    BY DEF RemovedStayEmpty
  <2>1. Volume.entry[d] = NoEntries
    BY VolumeIs, UnlinkedIsEmpty
  <2> QED  BY <2>1 DEF Entries, NoEntries
<1> QED  BY TreeHolds, <1>1, PTL

\* A request that fails has changed nothing: rename finds out that there is no
\* room before it has removed the file it replaces, since that makes room.
THEOREM NoHalfRename == Spec => FailuresChangeNothing
<1>1. TreeInv /\ [Next]_vars =>
        [r' = "error" => UNCHANGED <<type, entry, i_nlinks, held, mounted>>]_vars
  BY EveryStep DEF GoodStep
<1> QED  BY TreeHolds, <1>1, PTL DEF Spec, FailuresChangeNothing

\* No request takes a name from a directory that a volume is mounted on.
THEOREM MountPointsKeepNames == Spec => MountPointsStay
<1>1. TreeInv /\ [Next]_vars =>
        [\A m \in mounted \cap mounted' : NamesOf(m) \subseteq NamesOf(m)']_vars
  <2> SUFFICES ASSUME TreeInv, Next, NEW m \in mounted \cap mounted'
               PROVE  NamesOf(m) \subseteq NamesOf(m)'
    OBVIOUS
  <2>1. NamesKept(entry, entry')
    BY EveryStep DEF GoodStep
  <2> QED  BY <2>1 DEF NamesKept, NamesOf
<1> QED  BY TreeHolds, <1>1, PTL DEF Spec, MountPointsStay

-----------------------------------------------------------------------------
\* A set of numbers has a least one.
LEMMA LeastOf ==
  ASSUME NEW S \in SUBSET Nat, S # {}
  PROVE  \E i \in S : \A j \in S : i <= j
<1>1. PICK Below : Below = {0 .. i : i \in S}
  OBVIOUS
<1>2. Below \subseteq FiniteSubsetsOf(Nat) /\ Below # {}
  <2>1. ASSUME NEW i \in S PROVE 0 .. i \in SUBSET Nat /\ IsFiniteSet(0 .. i)
    <3>1. IsFiniteSet(0 .. i)
      BY FS_Interval
    <3> QED  BY <3>1
  <2>2. Below \subseteq FiniteSubsetsOf(Nat)
    BY <1>1, <2>1, Zenon DEF FiniteSubsetsOf
  <2>3. Below # {}
    BY <1>1
  <2> QED  BY <2>2, <2>3
<1>3. PICK x \in Below : \A y \in Below : <<y, x>> \notin StrictSubsetOrdering(Nat)
  BY <1>2, FS_StrictSubsetOrderingWellFounded, WFMin
<1>4. PICK i \in S : x = 0 .. i
  BY <1>1
<1>5. ASSUME NEW j \in S, j < i PROVE FALSE
  <2>1. 0 .. j \subseteq 0 .. i /\ 0 .. j # 0 .. i
    BY <1>5
  <2>2. 0 .. j \in Below /\ 0 .. j \in SUBSET Nat /\ 0 .. i \in SUBSET Nat
    BY <1>1
  <2>3. <<0 .. j, 0 .. i>> \in StrictSubsetOrdering(Nat)
    BY <2>1, <2>2 DEF StrictSubsetOrdering
  <2> QED  BY <1>3, <1>4, <2>2, <2>3
<1> QED  BY <1>5


-----------------------------------------------------------------------------
\* The way up from directory d in the first l steps; the whole way has as many
\* steps as there are inodes.
Climbs(e, u, d, l) ==
    /\ u \in [0 .. l -> Inodes \cup {NO_INODE}] /\ u[0] = d
    /\ \A k \in 0 .. l - 1 : u[k + 1] = IF u[k] = NO_INODE THEN NO_INODE ELSE e[u[k]][dot2]

UpStep(e, d, l, u) ==
    [k \in 0 .. l |-> IF k = 0 THEN d
                      ELSE IF u[k - 1] = NO_INODE THEN NO_INODE
                      ELSE e[u[k - 1]][dot2]]

UpOf(e, d, l) == CHOOSE u : u = UpStep(e, d, l, u)

LEMMA AboveIs ==
  ASSUME NEW d
  PROVE  Above(d) = UpOf(entry, d, Cardinality(Inodes))
BY DEF Above, UpOf, UpStep

LEMMA ClimbsIsUpStep ==
  ASSUME NEW e \in EntryMaps, NEW d \in Inodes, NEW l \in Nat, NEW u
  PROVE  Climbs(e, u, d, l) <=> u \in [0 .. l -> Inodes \cup {NO_INODE}] /\ u = UpStep(e, d, l, u)
<1>1. ASSUME Climbs(e, u, d, l) PROVE u = UpStep(e, d, l, u)
  <2>1. ASSUME NEW k \in 0 .. l
        PROVE  u[k] = IF k = 0 THEN d
                      ELSE IF u[k - 1] = NO_INODE THEN NO_INODE ELSE e[u[k - 1]][dot2]
    <3>1. CASE k = 0
      BY <1>1, <3>1 DEF Climbs
    <3>2. CASE k # 0
      <4>1. k - 1 \in 0 .. l - 1 /\ (k - 1) + 1 = k
        BY <3>2
      <4>2. u[(k - 1) + 1] = IF u[k - 1] = NO_INODE THEN NO_INODE ELSE e[u[k - 1]][dot2]
        BY <1>1, <4>1 DEF Climbs
      <4> QED  BY <3>2, <4>1, <4>2
    <3> QED  BY <3>1, <3>2
  <2> QED  BY <1>1, <2>1 DEF Climbs, UpStep
<1>2. ASSUME u = UpStep(e, d, l, u), u \in [0 .. l -> Inodes \cup {NO_INODE}]
      PROVE  Climbs(e, u, d, l)
  <2>1. \A k \in 0 .. l : u[k] = IF k = 0 THEN d
                                 ELSE IF u[k - 1] = NO_INODE THEN NO_INODE
                                 ELSE e[u[k - 1]][dot2]
    BY <1>2 DEF UpStep
  <2>2. u[0] = d
    BY <2>1
  <2>3. ASSUME NEW k \in 0 .. l - 1
        PROVE  u[k + 1] = IF u[k] = NO_INODE THEN NO_INODE ELSE e[u[k]][dot2]
    <3>1. k + 1 \in 0 .. l /\ k + 1 # 0 /\ (k + 1) - 1 = k
      OBVIOUS
    <3> QED  BY <2>1, <3>1
  <2> QED  BY <1>2, <2>2, <2>3 DEF Climbs
<1>3. Climbs(e, u, d, l) => u \in [0 .. l -> Inodes \cup {NO_INODE}]
  BY DEF Climbs
<1> QED  BY <1>1, <1>2, <1>3

\* One step more.
LEMMA ClimbsOn ==
  ASSUME NEW e \in EntryMaps, NEW d \in Inodes, NEW l \in Nat, NEW u, Climbs(e, u, d, l)
  PROVE  \E v : Climbs(e, v, d, l + 1)
<1>1. PICK y : y = IF u[l] = NO_INODE THEN NO_INODE ELSE e[u[l]][dot2]
  OBVIOUS
<1>2. y \in Inodes \cup {NO_INODE}
  BY <1>1 DEF Climbs, EntryMaps, AllNames
<1>3. PICK v : v = [k \in 0 .. l + 1 |-> IF k = l + 1 THEN y ELSE u[k]]
  OBVIOUS
<1>4. v \in [0 .. l + 1 -> Inodes \cup {NO_INODE}]
  BY <1>2, <1>3 DEF Climbs
<1>5. v[l + 1] = y /\ \A k \in 0 .. l : v[k] = u[k]
  BY <1>3
<1>6. ASSUME NEW k \in 0 .. (l + 1) - 1
      PROVE  v[k + 1] = IF v[k] = NO_INODE THEN NO_INODE ELSE e[v[k]][dot2]
  <2>1. CASE k = l
    BY <1>1, <1>5, <2>1
  <2>2. CASE k # l
    <3>1. k \in 0 .. l - 1 /\ k + 1 \in 0 .. l /\ k \in 0 .. l
      BY <2>2
    <3> QED  BY <1>5, <3>1 DEF Climbs
  <2> QED  BY <2>1, <2>2
<1>7. v[0] = d
  BY <1>5 DEF Climbs
<1> QED  BY <1>4, <1>6, <1>7 DEF Climbs

LEMMA WaysUpExist ==
  ASSUME NEW e \in EntryMaps, NEW d \in Inodes, NEW l \in Nat
  PROVE  \E u : Climbs(e, u, d, l)
<1>1. PICK Bad : Bad = {k \in Nat : ~ \E u : Climbs(e, u, d, k)}
  OBVIOUS
<1>2. 0 \notin Bad
  <2>1. PICK u : u = [k \in 0 .. 0 |-> d]
    OBVIOUS
  <2>2. Climbs(e, u, d, 0)
    BY <2>1 DEF Climbs
  <2> QED  BY <1>1, <2>2
<1>3. ASSUME Bad # {} PROVE FALSE
  <2>1. PICK k \in Bad : \A j \in Bad : k <= j
    BY <1>1, <1>3, LeastOf
  <2>2. k \in Nat /\ k # 0
    BY <1>1, <1>2, <2>1
  <2>3. PICK j \in Nat : k = j + 1
    <3>1. k - 1 \in Nat /\ k = (k - 1) + 1
      BY <2>2
    <3> QED  BY <3>1
  <2>4. j \notin Bad
    BY <2>1, <2>3
  <2>5. PICK u : Climbs(e, u, d, j)
    BY <1>1, <2>4
  <2>6. \E v : Climbs(e, v, d, j + 1)
    BY <2>5, ClimbsOn
  <2> QED  BY <1>1, <2>1, <2>3, <2>6
<1> QED  BY <1>1, <1>3

Steps == Cardinality(Inodes)

LEMMA AboveClimbs ==
  ASSUME entry \in EntryMaps, NEW d \in Inodes
  PROVE  Steps \in Nat /\ Climbs(entry, Above(d), d, Steps)
<1>1. Steps \in Nat
  BY FS_CardinalityType, TreeAssumption DEF Steps
<1>2. PICK v : Climbs(entry, v, d, Steps)
  BY <1>1, WaysUpExist
<1>3. v = UpStep(entry, d, Steps, v)
  BY <1>1, <1>2, ClimbsIsUpStep
<1>4. PICK u : u = UpOf(entry, d, Steps)
  OBVIOUS
<1>5. u = UpStep(entry, d, Steps, u)
  BY <1>3, <1>4 DEF UpOf
<1>6. ASSUME NEW k \in 0 .. Steps, u[k] # v[k] PROVE FALSE
  <2>1. PICK D : D = {j \in 0 .. Steps : u[j] # v[j]}
    OBVIOUS
  <2>2. PICK j \in D : \A m \in D : j <= m
    BY <1>6, <2>1, LeastOf
  <2>3. \A m \in 0 .. Steps :
          /\ u[m] = IF m = 0 THEN d ELSE IF u[m - 1] = NO_INODE THEN NO_INODE
                                    ELSE entry[u[m - 1]][dot2]
          /\ v[m] = IF m = 0 THEN d ELSE IF v[m - 1] = NO_INODE THEN NO_INODE
                                    ELSE entry[v[m - 1]][dot2]
    BY <1>3, <1>5 DEF UpStep
  <2>4. j \in 0 .. Steps /\ j # 0
    BY <2>1, <2>2, <2>3
  <2>5. j - 1 \in 0 .. Steps /\ j - 1 \notin D
    BY <1>1, <2>2, <2>4
  <2> QED  BY <2>1, <2>2, <2>3, <2>4, <2>5
<1>7. u = v
  <2>1. u = [k \in 0 .. Steps |-> u[k]] /\ v = [k \in 0 .. Steps |-> v[k]]
    BY <1>2, <1>5 DEF Climbs, UpStep
  <2>2. \A k \in 0 .. Steps : u[k] = v[k]
    BY <1>6
  <2> QED  BY <2>1, <2>2
<1>8. Above(d) = u
  BY <1>4, AboveIs DEF Steps
<1> QED  BY <1>1, <1>2, <1>7, <1>8

\* A way up that comes to the root, or finds no "..", stays there.
LEMMA ClimbStays ==
  ASSUME NEW e, e[ROOT_INODE][dot2] = ROOT_INODE, NEW u, NEW d, NEW l \in Nat, Climbs(e, u, d, l),
         NEW k \in 0 .. l, u[k] \in {ROOT_INODE, NO_INODE}
  PROVE  \A j \in k .. l : u[j] = u[k]
<1>1. ASSUME NEW m \in k .. l, u[m] # u[k] PROVE FALSE
  <2>1. PICK D : D = {j \in k .. l : u[j] # u[k]}
    OBVIOUS
  <2>2. D \in SUBSET Nat /\ D # {}
    BY <1>1, <2>1
  <2>3. PICK j \in D : \A i \in D : j <= i
    BY <2>2, LeastOf
  <2>4. j \in k .. l /\ j # k
    BY <2>1, <2>3
  <2>5. PICK i \in 0 .. l - 1 : j = i + 1 /\ i \in k .. l
    <3>1. j - 1 \in 0 .. l - 1 /\ j = (j - 1) + 1 /\ j - 1 \in k .. l
      BY <2>4
    <3> QED  BY <3>1
  <2>6. i \notin D
    BY <2>3, <2>5
  <2>7. u[i] = u[k]
    BY <2>1, <2>5, <2>6
  <2>8. u[i + 1] = IF u[i] = NO_INODE THEN NO_INODE ELSE e[u[i]][dot2]
    BY <2>5 DEF Climbs
  <2>9. u[j] = u[k]
    BY <2>5, <2>7, <2>8
  <2> QED  BY <2>1, <2>3, <2>9
<1> QED  BY <1>1

\* Where nothing lies above itself, every way up ends.
LEMMA ClimbEnds ==
  ASSUME NEW e \in EntryMaps, Upward(e), NEW d \in Inodes, NEW u, Climbs(e, u, d, Steps)
  PROVE  u[Steps] \in {ROOT_INODE, NO_INODE}
<1> SUFFICES ASSUME u[Steps] \notin {ROOT_INODE, NO_INODE} PROVE FALSE
  OBVIOUS
<1>1. Steps \in Nat
  BY FS_CardinalityType, TreeAssumption DEF Steps
<1>2. e[ROOT_INODE][dot2] = ROOT_INODE
  BY DEF Upward
<1>3. ASSUME NEW k \in 0 .. Steps PROVE u[k] \in Inodes \ {ROOT_INODE}
  <2>1. u[k] \in Inodes \cup {NO_INODE}
    BY DEF Climbs
  <2>2. Steps \in k .. Steps
    BY <1>1
  <2>3. u[k] \in {ROOT_INODE, NO_INODE} => u[Steps] = u[k]
    BY <1>1, <1>2, <2>2, ClimbStays
  <2> QED  BY <2>1, <2>3
<1>4. u \in [0 .. Steps -> Inodes]
  BY <1>3 DEF Climbs
<1>5. IsFiniteSet(0 .. Steps) /\ Cardinality(0 .. Steps) = Steps + 1
  BY <1>1, FS_Interval
<1>6. Cardinality(Inodes) < Cardinality(0 .. Steps)
  BY <1>1, <1>5 DEF Steps
<1>7. \E i, j \in 0 .. Steps : i # j /\ u[i] = u[j]
  BY <1>4, <1>5, <1>6, FS_PigeonHole, TreeAssumption
<1>8. PICK i, j \in 0 .. Steps : i < j /\ u[i] = u[j]
  <2>1. PICK a, b \in 0 .. Steps : a # b /\ u[a] = u[b]
    BY <1>7
  <2>2. a < b \/ b < a
    BY <2>1
  <2> QED  BY <2>1, <2>2
<1>9. PICK S : S = {u[k] : k \in i .. j - 1}
  OBVIOUS
<1>10. i .. j - 1 \subseteq 0 .. Steps /\ i \in i .. j - 1
  BY <1>1, <1>8
<1>11. S \in SUBSET (Inodes \ {ROOT_INODE}) /\ S # {}
  BY <1>3, <1>9, <1>10
<1>12. PICK s \in S : e[s][dot2] \notin S
  BY <1>11 DEF Upward
<1>13. PICK k \in i .. j - 1 : s = u[k]
  BY <1>9
<1>14. k \in 0 .. Steps /\ k \in 0 .. Steps - 1
  BY <1>1, <1>8, <1>13
<1>15. u[k] # NO_INODE
  BY <1>3, <1>14, TreeAssumption
<1>16. u[k + 1] = e[s][dot2]
  BY <1>13, <1>14, <1>15 DEF Climbs
<1>17. CASE k + 1 = j
  BY <1>8, <1>9, <1>10, <1>12, <1>16, <1>17
<1>18. CASE k + 1 # j
  <2>1. k + 1 \in i .. j - 1
    BY <1>18, <1>13
  <2> QED  BY <1>9, <1>12, <1>16, <2>1
<1> QED  BY <1>17, <1>18

-----------------------------------------------------------------------------
\* Parents that stay or go, but for that of the root.
FewerParents(e, e2) ==
    /\ e2[ROOT_INODE][dot2] = ROOT_INODE
    /\ \A p \in Inodes : e2[p][dot2] \in {e[p][dot2], NO_INODE}

LEMMA FewerUp ==
  ASSUME NEW e, Upward(e), NEW e2, FewerParents(e, e2)
  PROVE  Upward(e2)
<1> SUFFICES ASSUME NEW S \in SUBSET (Inodes \ {ROOT_INODE}), S # {}
             PROVE  \E d \in S : e2[d][dot2] \notin S
  BY DEF Upward, FewerParents
<1>1. PICK d \in S : e[d][dot2] \notin S
  BY DEF Upward
<1> QED  BY <1>1, TreeAssumption DEF FewerParents

\* x goes below nd, which is not below x.
Repoints(e, e2, x, nd) ==
    /\ e2[ROOT_INODE][dot2] = ROOT_INODE
    /\ \A p \in Inodes \ {x} : e2[p][dot2] \in {e[p][dot2], NO_INODE}
    /\ e2[x][dot2] \in {nd, NO_INODE}

LEMMA RepointedUp ==
  ASSUME NEW e \in EntryMaps, Upward(e), NEW e2, NEW x \in Inodes, NEW nd \in Inodes,
         Repoints(e, e2, x, nd), NEW u, Climbs(e, u, nd, Steps),
         \A k \in 0 .. Steps : u[k] \notin {x, NO_INODE}
  PROVE  Upward(e2)
<1> SUFFICES ASSUME NEW S \in SUBSET (Inodes \ {ROOT_INODE}), S # {},
                    \A d \in S : e2[d][dot2] \in S
             PROVE  FALSE
  BY DEF Upward, Repoints
<1>1. Steps \in Nat
  BY FS_CardinalityType, TreeAssumption DEF Steps
<1>2. \A p \in S \ {x} : e[p][dot2] \in S
  BY TreeAssumption DEF Repoints
<1>3. CASE x \notin S
  BY <1>2, <1>3 DEF Upward
<1>4. CASE x \in S
  <2>1. nd \in S
    BY <1>4, TreeAssumption DEF Repoints
  <2>2. u[Steps] \notin S
    <3>1. u[Steps] \in {ROOT_INODE, NO_INODE}
      BY ClimbEnds
    <3> QED  BY <3>1, TreeAssumption
  <2>3. PICK D : D = {k \in 0 .. Steps : u[k] \notin S}
    OBVIOUS
  <2>4. D \in SUBSET Nat /\ Steps \in D
    BY <1>1, <2>2, <2>3
  <2>5. PICK k \in D : \A i \in D : k <= i
    BY <2>4, LeastOf
  <2>6. k \in 0 .. Steps /\ k # 0
    BY <2>1, <2>3, <2>5 DEF Climbs
  <2>7. PICK i \in 0 .. Steps - 1 : k = i + 1 /\ i \in 0 .. Steps
    <3>1. k - 1 \in 0 .. Steps - 1 /\ k = (k - 1) + 1 /\ k - 1 \in 0 .. Steps
      BY <1>1, <2>6
    <3> QED  BY <3>1
  <2>8. i \notin D
    BY <2>5, <2>7
  <2>9. u[i] \in S /\ u[i] # x /\ u[i] # NO_INODE
    BY <2>3, <2>7, <2>8
  <2>10. u[k] = e[u[i]][dot2]
    BY <2>7, <2>9 DEF Climbs
  <2> QED  BY <1>2, <2>3, <2>5, <2>9, <2>10
<1> QED  BY <1>3, <1>4

\* A new directory goes below another.
LEMMA NewUp ==
  ASSUME NEW e, Upward(e), NEW e2, NEW i \in Inodes \ {ROOT_INODE}, NEW d \in Inodes \ {i},
         \A p \in Inodes : e[p][dot2] # i,
         \A p \in Inodes : e2[p][dot2] = IF p = i THEN d ELSE e[p][dot2]
  PROVE  Upward(e2)
<1> SUFFICES ASSUME NEW S \in SUBSET (Inodes \ {ROOT_INODE}), S # {},
                    \A s \in S : e2[s][dot2] \in S
             PROVE  FALSE
  BY TreeAssumption DEF Upward
<1>1. PICK T : T = S \ {i}
  OBVIOUS
<1>2. T # {}
  BY <1>1
<1>3. PICK s \in T : e[s][dot2] \notin T
  BY <1>1, <1>2 DEF Upward
<1> QED  BY <1>1, <1>3

-----------------------------------------------------------------------------
\* The same names, and no directories that were none.
LEMMA OneNameTyped ==
  ASSUME NEW e, NEW t, OneName(e, t), NEW t2, \A q \in Inodes : t2[q] = "dir" => t[q] = "dir"
  PROVE  OneName(e, t2)
BY DEF OneName

LEMMA OneNameEntered ==
  ASSUME NEW e \in EntryMaps, NEW t, OneName(e, t), NEW d \in Inodes, NEW n \in Names,
         NEW i \in Inodes, t[i] # "dir", NEW e2, e2 = [e EXCEPT ![d][n] = i]
  PROVE  OneName(e2, t)
<1>1. \A p \in Inodes, m \in AllNames : e2[p][m] = IF p = d /\ m = n THEN i ELSE e[p][m]
  BY DEF EntryMaps
<1>2. \A p \in Inodes : e2[p][dot1] = e[p][dot1] /\ e2[p][dot2] = e[p][dot2]
  BY <1>1, TreeAssumption DEF AllNames
<1>3. \A p \in Inodes, q \in Inodes \ {i}, m \in Names : e2[p][m] = q => e[p][m] = q
  BY <1>1 DEF AllNames
<1> QED  BY <1>2, <1>3 DEF OneName

LEMMA OneNameRemoved ==
  ASSUME NEW e, NEW t, OneName(e, t), NEW d \in Inodes, NEW n \in Names,
         NEW x \in Inodes, e[d][n] = x, NEW e2, Removed(e, e2, d, n, x)
  PROVE  OneName(e2, t)
<1>1. \A p, q \in Inodes, m \in Names : e2[p][m] = q => e[p][m] = q
  BY TreeAssumption DEF Removed, AllNames
<1>2. \A q \in Inodes \ {x} : e2[q][dot1] = e[q][dot1] /\ e2[q][dot2] = e[q][dot2]
  BY TreeAssumption DEF Removed, AllNames
<1>3. ASSUME NEW p \in Inodes, NEW m \in Names, t[x] = "dir", e2[p][m] = x PROVE FALSE
  <2>1. e[p][m] = x
    BY <1>1, <1>3
  <2>2. p = d /\ m = n
    BY <1>3, <2>1 DEF OneName
  <2>3. e2[d][n] = NO_INODE
    BY DEF Removed, AllNames
  <2> QED  BY <1>3, <2>2, <2>3, TreeAssumption
<1> QED  BY <1>1, <1>2, <1>3 DEF OneName

LEMMA OneNameRenamed ==
  ASSUME NEW e, NEW t, OneName(e, t), NEW od \in Inodes, NEW on \in Names,
         NEW nd \in Inodes, NEW nn \in Names, NEW x \in Inodes, NEW c,
         e[od][on] = x, e[nd][nn] = NO_INODE,
         t[x] = "dir" => c = nd,
         NEW e2, Renamed(e, e2, od, on, nd, nn, x, c)
  PROVE  OneName(e2, t)
<1>1. \A p \in Inodes, q \in Inodes \ {x}, m \in Names : e2[p][m] = q => e[p][m] = q
  BY TreeAssumption DEF Renamed, AllNames
<1>2. \A q \in Inodes \ {x} : e2[q][dot1] = e[q][dot1] /\ e2[q][dot2] = e[q][dot2]
  BY TreeAssumption DEF Renamed, AllNames
<1>3. ASSUME NEW p \in Inodes, NEW m \in Names, t[x] = "dir", e2[p][m] = x
      PROVE  p = nd /\ m = nn
  <2>1. CASE e[p][m] = x /\ ~(p = nd /\ m = nn)
    <3>1. p = od /\ m = on
      BY <1>3, <2>1 DEF OneName
    <3>2. e2[p][m] = NO_INODE
      BY <2>1, <3>1 DEF Renamed, AllNames
    <3> QED  BY <1>3, <3>2, TreeAssumption
  <2>2. CASE e[p][m] # x
    BY <1>3, <2>2, TreeAssumption DEF Renamed, AllNames
  <2> QED  BY <2>1, <2>2
<1>4. ASSUME t[x] = "dir" PROVE x # ROOT_INODE /\ e2[x][dot1] = x /\ e2[x][dot2] = nd
  <2>1. x # ROOT_INODE /\ e[x][dot1] = x
    BY <1>4 DEF OneName
  <2>2. e2[x][dot1] = e[x][dot1] /\ e2[x][dot2] = c
    BY TreeAssumption DEF Renamed, AllNames
  <2> QED  BY <1>4, <2>1, <2>2
<1>5. ASSUME NEW q \in Inodes, NEW p \in Inodes, NEW n \in Names, t[q] = "dir", e2[p][n] = q
      PROVE  /\ q # ROOT_INODE /\ e2[q][dot1] = q /\ e2[q][dot2] = p
             /\ \A m \in Names : e2[p][m] = q => m = n
  <2>1. CASE q = x
    BY <1>3, <1>4, <1>5, <2>1
  <2>2. CASE q # x
    BY <1>1, <1>2, <1>5, <2>2 DEF OneName
  <2> QED  BY <2>1, <2>2
<1> QED  BY <1>5 DEF OneName

\* A new directory.
LEMMA OneNameNew ==
  ASSUME NEW e, NEW t, OneName(e, t), NEW d \in Inodes, NEW n \in Names,
         NEW i \in Inodes \ {d, ROOT_INODE}, \A p \in Inodes, m \in Names : e[p][m] # i,
         e[d][n] = NO_INODE, \A m \in Names : e[i][m] = NO_INODE,
         NEW t2, \A q \in Inodes \ {i} : t2[q] = t[q],
         NEW e2,
         \A p \in Inodes, m \in AllNames :
           e2[p][m] = IF p = d /\ m = n THEN i
                      ELSE IF p = i /\ m = dot1 THEN i
                      ELSE IF p = i /\ m = dot2 THEN d
                      ELSE e[p][m]
  PROVE  OneName(e2, t2)
<1>1. \A p \in Inodes, q \in Inodes \ {i}, m \in Names : e2[p][m] = q => e[p][m] = q
  BY TreeAssumption DEF AllNames
<1>2. \A q \in Inodes \ {i} : e2[q][dot1] = e[q][dot1] /\ e2[q][dot2] = e[q][dot2]
  BY TreeAssumption DEF AllNames
<1>3. e2[i][dot1] = i /\ e2[i][dot2] = d
  BY TreeAssumption DEF AllNames
<1>4. ASSUME NEW p \in Inodes, NEW m \in Names, e2[p][m] = i PROVE p = d /\ m = n
  BY <1>4, TreeAssumption DEF AllNames
<1>5. ASSUME NEW q \in Inodes, NEW p \in Inodes, NEW k \in Names, t2[q] = "dir", e2[p][k] = q
      PROVE  /\ q # ROOT_INODE /\ e2[q][dot1] = q /\ e2[q][dot2] = p
             /\ \A m \in Names : e2[p][m] = q => m = k
  <2>1. CASE q = i
    BY <1>3, <1>4, <1>5, <2>1
  <2>2. CASE q # i
    BY <1>1, <1>2, <1>5, <2>2 DEF OneName
  <2> QED  BY <2>1, <2>2
<1> QED  BY <1>5 DEF OneName

-----------------------------------------------------------------------------
\* What is proved of each request more.
DirKept == Upward(entry') /\ (dirlinks' \/ OneName(entry', type'))

\* The volume e2 at the end of a request.
LEMMA KeptWhenSettled ==
  ASSUME NEW e2, entry' = e2, Upward(e2), dirlinks' \/ OneName(e2, type),
         \A q \in Inodes : type'[q] = "dir" => type[q] = "dir"
  PROVE  DirKept
BY OneNameTyped DEF DirKept

LEMMA SettledTypes ==
  ASSUME NEW v, NEW holders, Settle(v, holders)
  PROVE  \A q \in Inodes : type'[q] = "dir" => type[q] = "dir"
BY DEF Settle

LEMMA DirSucceeds ==
  ASSUME TreeInv, NEW v, Counted(v), Shaped(v.entry, type), Settle(v, held), UNCHANGED mounted,
         Upward(v.entry), dirlinks' \/ OneName(v.entry, type)
  PROVE  DirKept
BY Succeeds, SettledTypes, KeptWhenSettled

LEMMA DirStays ==
  ASSUME DirInv, UNCHANGED <<type, entry, dirlinks>>
  PROVE  DirKept
BY DEF DirInv, DirKept

LEMMA DirFails == ASSUME DirInv, Fail PROVE DirKept
BY DirStays DEF Fail

LEMMA LinkKeeps ==
  ASSUME DirInv, NEW rip \in Inodes, NEW d \in Inodes, NEW n \in AllNames,
         NEW su, NEW full, fs_link(rip, d, n, su, full)
  PROVE  DirKept
<1>1. CASE Fail
  BY <1>1, DirFails
<1>2. CASE ~Fail
  <2>1. /\ type[d] = "dir" /\ i_nlinks[rip] > 0 /\ Exists(d) /\ entry[d][n] = NO_INODE
        /\ n \in Names
        /\ Succeed(Linked(Volume, d, n, rip))
        /\ dirlinks' = (dirlinks \/ type[rip] = "dir")
    BY <1>2 DEF fs_link, Linked
  <2>2. /\ TreeInv /\ Counted(Volume) /\ Shaped(entry, type) /\ Volume.entry = entry
        /\ entry \in EntryMaps
    BY VolumeIs DEF DirInv, Shaped
  <2>3. PICK w : w = Linked(Volume, d, n, rip)
    OBVIOUS
  <2>4. PICK e2 : e2 = [entry EXCEPT ![d][n] = rip]
    OBVIOUS
  <2>5. Counted(w) /\ w.entry = e2
    <3>1. Counted(w) /\ Changed(Volume.entry, w.entry, d, n, rip)
      BY <2>1, <2>2, <2>3, LinkCountsUp
    <3> QED  BY <2>2, <2>4, <3>1 DEF Changed
  <2>6. type[rip] # "free" /\ (d = ROOT_INODE \/ Named(entry, d))
    BY <2>1, <2>2, LinkedIsNamed DEF TreeInv, FreeOnes
  <2>7. Shaped(e2, type)
    BY <2>1, <2>2, <2>4, <2>6, EnteredShape
  <2>8. Upward(e2)
    <3>1. \A p \in Inodes : e2[p][dot2] = entry[p][dot2]
      BY <2>1, <2>2, <2>4, TreeAssumption DEF EntryMaps, AllNames
    <3>2. FewerParents(entry, e2) /\ Upward(entry)
      BY <3>1, TreeAssumption DEF FewerParents, DirInv, Upward
    <3> QED  BY <3>2, FewerUp
  <2>9. dirlinks' \/ OneName(e2, type)
    <3>1. CASE dirlinks \/ type[rip] = "dir"
      BY <2>1, <3>1
    <3>2. CASE ~dirlinks /\ type[rip] # "dir"
      <4>1. OneName(entry, type)
        BY <3>2 DEF DirInv
      <4> QED  BY <2>1, <2>2, <2>4, <3>2, <4>1, OneNameEntered
    <3> QED  BY <3>1, <3>2
  <2> QED  BY <2>1, <2>2, <2>3, <2>5, <2>7, <2>8, <2>9, DirSucceeds DEF Succeed
<1> QED  BY <1>1, <1>2

LEMMA RemovedUp ==
  ASSUME NEW e, Upward(e), NEW d \in Inodes, NEW n \in Names,
         NEW x \in Inodes \ {ROOT_INODE}, NEW e2, Removed(e, e2, d, n, x)
  PROVE  Upward(e2)
<1>1. \A p \in Inodes : e2[p][dot2] = IF p = x THEN NO_INODE ELSE e[p][dot2]
  BY TreeAssumption DEF Removed, AllNames
<1>2. FewerParents(e, e2)
  BY <1>1, TreeAssumption DEF FewerParents, Upward
<1> QED  BY <1>2, FewerUp

LEMMA UnlinkKeeps ==
  ASSUME DirInv, NEW d \in Inodes, NEW n \in AllNames,
         NEW request, fs_unlink(d, n, request)
  PROVE  DirKept
<1>1. CASE Fail
  BY <1>1, DirFails
<1>2. CASE ~Fail
  <2>1. PICK x : x = entry[d][n]
    OBVIOUS
  <2>2. /\ type[d] = "dir" /\ x # NO_INODE
        /\ \E w : Removal(w, d, n, x) /\ Succeed(w)
        /\ UNCHANGED dirlinks
    BY <1>2, <2>1 DEF fs_unlink, Removal
  <2>3. x \in Inodes /\ TreeInv /\ Upward(entry)
    BY <2>1, <2>2 DEF DirInv, TreeInv, TypeOK
  <2>4. PICK w : Removal(w, d, n, x) /\ Succeed(w)
    BY <2>2
  <2>5. /\ n \in Names /\ x # ROOT_INODE
        /\ Counted(w) /\ Shaped(w.entry, type) /\ Removed(entry, w.entry, d, n, x)
    BY <2>1, <2>2, <2>3, <2>4, RemovalDoes
  <2>6. PICK e2 : e2 = w.entry
    OBVIOUS
  <2>7. Removed(entry, e2, d, n, x)
    BY <2>5, <2>6
  <2>8. Upward(e2)
    BY <2>3, <2>5, <2>7, RemovedUp
  <2>9. dirlinks \/ OneName(e2, type)
    BY <2>1, <2>3, <2>5, <2>7, OneNameRemoved DEF DirInv
  <2> QED  BY <2>2, <2>3, <2>4, <2>5, <2>6, <2>8, <2>9, DirSucceeds DEF Succeed
<1> QED  BY <1>1, <1>2

-----------------------------------------------------------------------------
\* A directory that comes to another one: the way up from there ends at the
\* root without it.
LEMMA ApartFromNew ==
  ASSUME NEW od, NEW on, NEW nd, NEW nn, RenameCheck(od, on, nd, nn) = "OK",
         NEW x, x = entry[od][on], type[x] = "dir", od # nd
  PROVE  ~Superdirectory(x, nd)
BY DEF RenameCheck

LEMMA ApartMeans ==
  ASSUME entry \in EntryMaps, Upward(entry), NEW nd \in Inodes, NEW x, ~Superdirectory(x, nd)
  PROVE  /\ x # ROOT_INODE /\ x # nd
         /\ Climbs(entry, Above(nd), nd, Steps)
         /\ \A k \in 0 .. Steps : Above(nd)[k] \notin {x, NO_INODE}
<1>1. PICK u : u = Above(nd)
  OBVIOUS
<1>2. Steps \in Nat /\ Climbs(entry, u, nd, Steps)
  BY <1>1, AboveClimbs
<1>3. DOMAIN u = 0 .. Steps /\ u[0] = nd
  BY <1>2 DEF Climbs
<1>4. \A k \in 0 .. Steps : u[k] \notin {x, NO_INODE}
  BY <1>1, <1>3 DEF Superdirectory
<1>5. u[Steps] \in {ROOT_INODE, NO_INODE}
  BY <1>2, ClimbEnds
<1>6. Steps \in 0 .. Steps /\ 0 \in 0 .. Steps
  BY <1>2
<1>7. x # ROOT_INODE /\ x # nd
  BY <1>3, <1>4, <1>5, <1>6
<1> QED  BY <1>1, <1>2, <1>4, <1>7

\* The ".." entries after a rename, but for those of x, stay or go.
ParentsAfter(e, e2, x, c) ==
    /\ \A p \in Inodes : e[p][dot2] \in {entry[p][dot2], NO_INODE}
    /\ e[ROOT_INODE][dot2] = ROOT_INODE
    /\ \A p \in Inodes \ {x} : e2[p][dot2] = e[p][dot2]
    /\ e2[x][dot2] = c

LEMMA RenamedParents ==
  ASSUME DirInv, NEW od, NEW on \in Names, NEW nd \in Inodes, NEW nn \in Names, NEW x \in Inodes,
         NEW v, ReadyToMove(v, od, on, nd, nn, x),
         NEW z, NEW c, Renamed(v.entry, z.entry, od, on, nd, nn, x, c)
  PROVE  ParentsAfter(v.entry, z.entry, x, c)
<1>1. dot2 \in AllNames /\ dot2 # on /\ dot2 # nn
  BY TreeAssumption DEF AllNames
<1>2. entry[ROOT_INODE][dot2] = ROOT_INODE
  BY DEF DirInv, Upward
<1>3. /\ \A p \in Inodes : v.entry[p][dot2] \in {entry[p][dot2], NO_INODE}
      /\ v.entry[ROOT_INODE][dot2] = ROOT_INODE
  <2>1. CASE v.entry = entry
    BY <1>2, <2>1
  <2>2. CASE v.entry # entry
    <3>1. PICK new \in Inodes \ {ROOT_INODE} : Removed(entry, v.entry, nd, nn, new)
      BY <2>2 DEF ReadyToMove
    <3> QED  BY <1>1, <1>2, <3>1, TreeAssumption DEF Removed
  <2> QED  BY <2>1, <2>2
<1>4. \A p \in Inodes : z.entry[p][dot2] = IF p = x THEN c ELSE v.entry[p][dot2]
  BY <1>1 DEF Renamed
<1>5. \A p \in Inodes \ {x} : z.entry[p][dot2] = v.entry[p][dot2]
  BY <1>4
<1>6. z.entry[x][dot2] = c
  BY <1>4
<1> QED  BY <1>3, <1>5, <1>6 DEF ParentsAfter

LEMMA RenameUp ==
  ASSUME DirInv, NEW od, NEW on, NEW nd \in Inodes, NEW nn, NEW x, NEW v, NEW full, NEW z,
         RenameMoves(od, on, nd, nn, x, v, full, z)
  PROVE  Upward(z.entry)
<1>1. /\ RenameCheck(od, on, nd, nn) = "OK" /\ x = entry[od][on] /\ x \in Inodes
      /\ on \in Names /\ nn \in Names /\ ReadyToMove(v, od, on, nd, nn, x)
  BY DEF RenameMoves
<1>2. PICK c : /\ IF type[x] = "dir" /\ od # nd THEN c \in {nd, NO_INODE} ELSE c = v.entry[x][dot2]
               /\ Renamed(v.entry, z.entry, od, on, nd, nn, x, c)
  BY DEF RenameMoves, RenamedTo
<1>3. /\ \A p \in Inodes : v.entry[p][dot2] \in {entry[p][dot2], NO_INODE}
      /\ v.entry[ROOT_INODE][dot2] = ROOT_INODE
      /\ \A p \in Inodes \ {x} : z.entry[p][dot2] = v.entry[p][dot2]
      /\ z.entry[x][dot2] = c
  <2>1. on \in Names /\ nn \in Names /\ x \in Inodes
    BY <1>1
  <2>2. ReadyToMove(v, od, on, nd, nn, x) /\ Renamed(v.entry, z.entry, od, on, nd, nn, x, c)
    BY <1>1, <1>2
  <2>3. ParentsAfter(v.entry, z.entry, x, c)
    BY <2>1, <2>2, RenamedParents
  <2> QED  BY <2>3 DEF ParentsAfter
<1>4. entry \in EntryMaps /\ Upward(entry)
  BY VolumeIs DEF DirInv, Shaped
<1>5. PICK e2 : e2 = z.entry
  OBVIOUS
<1>6. CASE type[x] = "dir" /\ od # nd
  <2>1. ~Superdirectory(x, nd)
    BY <1>1, <1>6, ApartFromNew
  <2>2. PICK u : u = Above(nd)
    OBVIOUS
  <2>3. /\ x # ROOT_INODE /\ Climbs(entry, u, nd, Steps)
        /\ \A k \in 0 .. Steps : u[k] \notin {x, NO_INODE}
    BY <1>4, <2>1, <2>2, ApartMeans
  <2>4. Repoints(entry, e2, x, nd)
    BY <1>2, <1>3, <1>5, <1>6, <2>3, TreeAssumption DEF Repoints
  <2>5. Upward(e2)
    BY <1>1, <1>4, <2>3, <2>4, RepointedUp
  <2> QED  BY <1>5, <2>5
<1>7. CASE ~(type[x] = "dir" /\ od # nd)
  <2>1. FewerParents(entry, e2)
    BY <1>2, <1>3, <1>5, <1>7, TreeAssumption DEF FewerParents
  <2> QED  BY <1>4, <1>5, <2>1, FewerUp
<1> QED  BY <1>6, <1>7

\* The directory that moves always has room for its "..", which it had.
LEMMA RoomForParent ==
  ASSUME NEW v, Counted(v), NEW od \in Inodes, NEW on \in Names, NEW nd \in Inodes,
         NEW nn \in Names, NEW x \in Inodes \ {nd},
         v.entry[od][on] = x, v.entry[nd][nn] = NO_INODE,
         entry[x][dot2] # NO_INODE,
         \A m \in AllNames : entry[x][m] = NO_INODE => v.entry[x][m] = NO_INODE,
         NEW w, w = unlink_file(Moved(v, od, on, nd, nn, x), x, dot2), NEW full
  PROVE  Room(w, x, full)
<1>1. on \in AllNames /\ nn \in AllNames /\ dot2 \in AllNames
  BY DEF AllNames
<1>2. PICK y : y = Moved(v, od, on, nd, nn, x)
  OBVIOUS
<1>3. Counted(y) /\ MovesEntry(v.entry, y.entry, od, on, nd, nn, x)
  BY <1>1, <1>2, MoveCounts
<1>4. w.entry = [y.entry EXCEPT ![x][dot2] = NO_INODE]
  <2>1. Counted(y) /\ x \in Inodes
    BY <1>3
  <2>2. unlink_file(y, x, dot2).entry = [y.entry EXCEPT ![x][dot2] = NO_INODE]
    BY <1>1, <2>1, UnlinkCounts
  <2>3. w = unlink_file(y, x, dot2)
    BY <1>2
  <2> QED  BY <2>2, <2>3
<1>5. y.entry \in EntryMaps
  BY <1>3 DEF MovesEntry
<1>6. \A m \in AllNames : w.entry[x][m] = IF m = dot2 THEN NO_INODE ELSE y.entry[x][m]
  BY <1>4, <1>5 DEF EntryMaps
<1>7. \A m \in AllNames : entry[x][m] = NO_INODE => y.entry[x][m] = NO_INODE
  BY <1>3 DEF MovesEntry
<1>8. /\ w.entry[x][dot2] = NO_INODE
      /\ \A m \in AllNames : entry[x][m] = NO_INODE => w.entry[x][m] = NO_INODE
  BY <1>1, <1>6, <1>7
<1> QED  BY <1>1, <1>8, RoomForAnother

LEMMA RenameOneName ==
  ASSUME DirInv, OneName(entry, type), NEW od \in Inodes, NEW on, NEW nd \in Inodes, NEW nn, NEW x,
         NEW v, NEW full, NEW z, RenameMoves(od, on, nd, nn, x, v, full, z)
  PROVE  OneName(z.entry, type)
<1>1. /\ RenameCheck(od, on, nd, nn) = "OK" /\ x = entry[od][on] /\ x \in Inodes
      /\ on \in Names /\ nn \in Names /\ ReadyToMove(v, od, on, nd, nn, x)
  BY DEF RenameMoves
<1>2. Counted(v) /\ v.entry[od][on] = x /\ v.entry[nd][nn] = NO_INODE
  BY <1>1 DEF ReadyToMove
<1>3. /\ OneName(v.entry, type)
      /\ \A p \in Inodes, m \in AllNames : v.entry[p][m] \in {entry[p][m], NO_INODE}
  <2>1. CASE v.entry = entry
    BY <2>1
  <2>2. CASE v.entry # entry
    <3>1. PICK new \in Inodes : entry[nd][nn] = new /\ Removed(entry, v.entry, nd, nn, new)
      BY <1>1, <2>2 DEF ReadyToMove
    <3>2. PICK e2 : e2 = v.entry
      OBVIOUS
    <3>3. Removed(entry, e2, nd, nn, new)
      BY <3>1, <3>2
    <3>4. OneName(e2, type)
      BY <1>1, <3>1, <3>3, OneNameRemoved
    <3> QED  BY <3>1, <3>2, <3>4 DEF Removed
  <2> QED  BY <2>1, <2>2
<1>4. PICK c :
        /\ IF type[x] = "dir" /\ od # nd
           THEN Room(unlink_file(Moved(v, od, on, nd, nn, x), x, dot2), x, full) => c = nd
           ELSE c = v.entry[x][dot2]
        /\ Renamed(v.entry, z.entry, od, on, nd, nn, x, c)
  BY DEF RenameMoves, RenamedTo
<1>5. type[x] = "dir" => c = nd
  <2>1. ASSUME type[x] = "dir", od = nd PROVE c = nd
    <3>1. v.entry[x][dot2] = od
      BY <1>1, <1>2, <1>3, <2>1 DEF OneName
    <3> QED  BY <1>4, <2>1, <3>1
  <2>2. ASSUME type[x] = "dir", od # nd PROVE c = nd
    <3>1. ~Superdirectory(x, nd)
      BY <1>1, <2>2, ApartFromNew
    <3>2. entry \in EntryMaps /\ Upward(entry)
      BY VolumeIs DEF DirInv, Shaped
    <3>3. x # nd
      BY <3>1, <3>2, ApartMeans
    <3>4. entry[x][dot2] # NO_INODE
      <4>1. entry[x][dot2] = od
        BY <1>1, <2>2 DEF OneName
      <4> QED  BY <4>1, TreeAssumption
    <3>5. PICK w : w = unlink_file(Moved(v, od, on, nd, nn, x), x, dot2)
      OBVIOUS
    <3>6. \A m \in AllNames : entry[x][m] = NO_INODE => v.entry[x][m] = NO_INODE
      BY <1>1, <1>3
    <3>7. Room(w, x, full)
      BY <1>1, <1>2, <3>3, <3>4, <3>5, <3>6, RoomForParent
    <3> QED  BY <1>4, <2>2, <3>5, <3>7
  <2> QED  BY <2>1, <2>2
<1>6. PICK e, e2 : e = v.entry /\ e2 = z.entry
  OBVIOUS
<1>7. /\ OneName(e, type) /\ e[od][on] = x /\ e[nd][nn] = NO_INODE
      /\ Renamed(e, e2, od, on, nd, nn, x, c)
  BY <1>2, <1>3, <1>4, <1>6
<1>8. OneName(e2, type)
  BY <1>1, <1>5, <1>7, OneNameRenamed
<1> QED  BY <1>6, <1>8

LEMMA RenameKeeps ==
  ASSUME DirInv, NEW od \in Inodes, NEW on \in AllNames, NEW nd \in Inodes,
         NEW nn \in AllNames, fs_rename(od, on, nd, nn)
  PROVE  DirKept
<1>1. TreeInv /\ UNCHANGED dirlinks
  BY DEF DirInv, fs_rename, Fail, Move
<1>2. CASE Fail
  BY <1>2, DirFails
<1>3. CASE Settle(Volume, held)
  BY <1>1, <1>3, VolumeSettles, DirStays
<1>4. ASSUME NEW x, NEW v, NEW full, NEW z, RenameMoves(od, on, nd, nn, x, v, full, z)
      PROVE  DirKept
  <2>1. Upward(z.entry)
    BY <1>4, RenameUp
  <2>2. dirlinks \/ OneName(z.entry, type)
    BY <1>4, RenameOneName DEF DirInv
  <2>3. Counted(z) /\ Shaped(z.entry, type) /\ Settle(z, held) /\ UNCHANGED mounted
    BY <1>4 DEF RenameMoves, Succeed
  <2> QED  BY <1>1, <2>1, <2>2, <2>3, DirSucceeds
<1> QED  BY <1>1, <1>2, <1>3, <1>4, RenameOutcomes

-----------------------------------------------------------------------------
LEMMA CreateKeeps ==
  ASSUME DirInv, NEW d \in Inodes, NEW n \in AllNames, NEW i \in Inodes, fs_create(d, n, i)
  PROVE  DirKept
<1>1. /\ n \in Names /\ type[i] = "free"
      /\ type' = [type EXCEPT ![i] = "file"]
      /\ entry' = [entry EXCEPT ![d][n] = i]
      /\ UNCHANGED dirlinks
  BY DEF fs_create
<1>2. entry \in EntryMaps /\ Upward(entry)
  BY VolumeIs DEF DirInv, Shaped
<1>3. PICK e2 : e2 = [entry EXCEPT ![d][n] = i]
  OBVIOUS
<1>4. \A q \in Inodes : type'[q] = "dir" => type[q] = "dir"
  BY <1>1 DEF DirInv, TreeInv, TypeOK
<1>5. FewerParents(entry, e2)
  BY <1>1, <1>2, <1>3, TreeAssumption DEF FewerParents, Upward, EntryMaps, AllNames
<1>6. Upward(e2)
  BY <1>2, <1>5, FewerUp
<1>7. dirlinks \/ OneName(e2, type)
  <2>1. type[i] # "dir"
    BY <1>1
  <2> QED  BY <1>1, <1>2, <1>3, <2>1, OneNameEntered DEF DirInv
<1> QED  BY <1>1, <1>3, <1>4, <1>6, <1>7, KeptWhenSettled

\* No entry names a free inode, and it has none.
LEMMA FreeIsApart ==
  ASSUME TreeInv, NEW i \in Inodes, type[i] = "free"
  PROVE  /\ \A p \in Inodes, m \in AllNames : entry[p][m] # i
         /\ \A m \in AllNames : entry[i][m] = NO_INODE
         /\ i # ROOT_INODE
<1>1. i_nlinks[i] = 0
  BY DEF TreeInv, FreeOnes
<1>2. /\ Counted(Volume) /\ Shaped(entry, type) /\ Volume.entry = entry
      /\ Volume.nlinks = i_nlinks
  BY VolumeIs
<1>3. \A p \in Inodes, m \in AllNames : entry[p][m] # i
  BY <1>1, <1>2, NoLinks
<1>4. entry[i] = NoEntries /\ i # ROOT_INODE
  BY <1>1, <1>2, UnlinkedIsEmpty
<1> QED  BY <1>3, <1>4 DEF NoEntries

LEMMA MkdirKeeps ==
  ASSUME DirInv, NEW d \in Inodes, NEW n \in AllNames, NEW i \in Inodes, fs_mkdir(d, n, i)
  PROVE  DirKept
<1>1. /\ type[d] = "dir" /\ n \in Names /\ entry[d][n] = NO_INODE /\ type[i] = "free"
      /\ type' = [type EXCEPT ![i] = "dir"]
      /\ entry' = [entry EXCEPT ![d][n] = i,
                     ![i] = [NoEntries EXCEPT ![dot1] = i, ![dot2] = d]]
      /\ UNCHANGED dirlinks
  BY DEF fs_mkdir
<1>2. entry \in EntryMaps /\ Upward(entry) /\ TreeInv
  BY VolumeIs DEF DirInv, Shaped
<1>3. i # d
  BY <1>1
<1>4. dot1 \in AllNames /\ dot2 \in AllNames /\ dot1 # dot2 /\ n \notin {dot1, dot2}
  BY <1>1, TreeAssumption DEF AllNames
<1>5. /\ \A p \in Inodes, m \in AllNames : entry[p][m] # i
      /\ \A m \in AllNames : entry[i][m] = NO_INODE
      /\ i # ROOT_INODE
  BY <1>1, <1>2, FreeIsApart
<1>6. PICK e2 : e2 = entry'
  OBVIOUS
<1>7. \A p \in Inodes, m \in AllNames :
        e2[p][m] = IF p = d /\ m = n THEN i
                   ELSE IF p = i /\ m = dot1 THEN i
                   ELSE IF p = i /\ m = dot2 THEN d
                   ELSE entry[p][m]
  BY <1>1, <1>2, <1>3, <1>4, <1>5, <1>6 DEF EntryMaps, NoEntries
<1>8. Upward(e2)
  <2>1. \A p \in Inodes : e2[p][dot2] = IF p = i THEN d ELSE entry[p][dot2]
    BY <1>4, <1>7
  <2>2. \A p \in Inodes : entry[p][dot2] # i
    BY <1>4, <1>5
  <2>3. i \in Inodes \ {ROOT_INODE} /\ d \in Inodes \ {i}
    BY <1>3, <1>5
  <2> QED  BY <1>2, <2>1, <2>2, <2>3, NewUp
<1>9. dirlinks \/ OneName(e2, type')
  <2> SUFFICES ASSUME ~dirlinks PROVE OneName(e2, type')
    OBVIOUS
  <2>1. OneName(entry, type)
    BY DEF DirInv
  <2>2. PICK t2 : t2 = type'
    OBVIOUS
  <2>3. \A q \in Inodes \ {i} : t2[q] = type[q]
    BY <1>1, <1>2, <2>2 DEF TreeInv, TypeOK
  <2>4. /\ i \in Inodes \ {d, ROOT_INODE}
        /\ \A p \in Inodes, m \in Names : entry[p][m] # i
        /\ \A m \in Names : entry[i][m] = NO_INODE
    BY <1>3, <1>5 DEF AllNames
  <2>5. OneName(e2, t2)
    BY <1>1, <1>7, <2>1, <2>3, <2>4, OneNameNew
  <2> QED  BY <2>2, <2>5
<1> QED  BY <1>1, <1>6, <1>8, <1>9 DEF DirKept

LEMMA PutKeeps ==
  ASSUME DirInv, NEW i \in Inodes, fs_putnode(i)
  PROVE  DirKept
<1>1. PICK holders : holders = held \ {i}
  OBVIOUS
<1>2. Settle(Volume, holders) /\ mounted' = mounted /\ i \notin mounted /\ i # ROOT_INODE
      /\ UNCHANGED dirlinks
  BY <1>1 DEF fs_putnode
<1>3. TreeInv /\ Upward(entry)
  BY DEF DirInv
<1>4. /\ holders \subseteq Inodes /\ mounted' \subseteq holders /\ ROOT_INODE \in holders
      /\ \A q \in holders : type[q] # "free"
  BY <1>1, <1>2, <1>3 DEF TreeInv, TypeOK, FreeOnes
<1>5. Counted(Volume) /\ Shaped(Volume.entry, type) /\ Volume.entry = entry
  BY <1>3, VolumeIs
<1>6. entry' = entry
  BY <1>2, <1>3, <1>4, <1>5, Settled
<1>7. \A q \in Inodes : type'[q] = "dir" => type[q] = "dir"
  BY <1>2, SettledTypes
<1>8. dirlinks' \/ OneName(entry, type)
  BY <1>2 DEF DirInv
<1> QED  BY <1>3, <1>6, <1>7, <1>8, KeptWhenSettled

LEMMA InitIsDir == Init => DirInv
<1> SUFFICES ASSUME Init PROVE DirInv
  OBVIOUS
<1>1. dot1 \in AllNames /\ dot2 \in AllNames /\ dot1 # dot2
  BY TreeAssumption DEF AllNames
<1>2. PICK rootentries :
        rootentries = [NoEntries EXCEPT ![dot1] = ROOT_INODE, ![dot2] = ROOT_INODE]
  OBVIOUS
<1>3. \A n \in AllNames : rootentries[n] = IF n \in {dot1, dot2} THEN ROOT_INODE ELSE NO_INODE
  BY <1>1, <1>2 DEF NoEntries
<1>4. \A q \in Inodes : entry[q] = IF q = ROOT_INODE THEN rootentries ELSE NoEntries
  BY <1>2 DEF Init
<1>5. \A q \in Inodes, n \in AllNames :
        entry[q][n] = IF q = ROOT_INODE /\ n \in {dot1, dot2} THEN ROOT_INODE ELSE NO_INODE
  BY <1>3, <1>4 DEF NoEntries
<1>6. Upward(entry)
  <2>1. entry[ROOT_INODE][dot2] = ROOT_INODE
    BY <1>1, <1>5, TreeAssumption
  <2>2. \A q \in Inodes \ {ROOT_INODE} : entry[q][dot2] = NO_INODE
    BY <1>1, <1>5
  <2> QED  BY <2>1, <2>2, TreeAssumption DEF Upward
<1>7. OneName(entry, type)
  BY <1>5, TreeAssumption DEF OneName, AllNames
<1> QED  BY <1>6, <1>7, InitIsTree DEF DirInv

LEMMA EveryKeeps == ASSUME DirInv, Next PROVE DirKept
<1>1. ASSUME NEW i \in Inodes, fs_lookup(i) \/ fs_putnode(i) \/ fs_mountpoint(i) \/ unmount(i)
      PROVE  DirKept
  <2>1. CASE fs_putnode(i)
    BY <2>1, PutKeeps
  <2>2. CASE ~fs_putnode(i)
    <3>1. UNCHANGED <<type, entry, dirlinks>>
      BY <1>1, <2>2 DEF fs_lookup, fs_mountpoint, unmount
    <3> QED  BY <3>1, DirStays
  <2> QED  BY <2>1, <2>2
<1>2. ASSUME NEW d \in Inodes, NEW n \in AllNames, NEW i \in Inodes,
             fs_create(d, n, i) \/ fs_mkdir(d, n, i)
      PROVE  DirKept
  BY <1>2, CreateKeeps, MkdirKeeps
<1>3. ASSUME NEW d \in Inodes, NEW n \in AllNames, NEW rip \in Inodes,
             NEW su \in BOOLEAN, NEW full \in BOOLEAN, fs_link(rip, d, n, su, full)
      PROVE  DirKept
  BY <1>3, LinkKeeps
<1>4. ASSUME NEW d \in Inodes, NEW n \in AllNames,
             NEW request \in {"REQ_UNLINK", "REQ_RMDIR"}, fs_unlink(d, n, request)
      PROVE  DirKept
  BY <1>4, UnlinkKeeps
<1>5. ASSUME NEW d \in Inodes, NEW n \in AllNames, NEW e \in Inodes, NEW m \in AllNames,
             fs_rename(d, n, e, m)
      PROVE  DirKept
  BY <1>5, RenameKeeps
<1> QED  BY <1>1, <1>2, <1>3, <1>4, <1>5 DEF Next

-----------------------------------------------------------------------------
\* With one name each, a directory that has a name, or is the root, has a
\* parent that has one.
InTree(q) == q \in Inodes /\ type[q] = "dir" /\ (q = ROOT_INODE \/ Named(entry, q))

LEMMA ParentInTree ==
  ASSUME DirInv, OneName(entry, type), NEW q, InTree(q)
  PROVE  InTree(entry[q][dot2])
<1>1. entry \in EntryMaps /\ entry[ROOT_INODE][dot2] = ROOT_INODE
  BY VolumeIs DEF DirInv, Shaped, Upward
<1>2. CASE q = ROOT_INODE
  BY <1>1, <1>2 DEF InTree
<1>3. CASE q # ROOT_INODE
  <2>1. PICK p \in Inodes, n \in Names : entry[p][n] = q
    BY <1>3 DEF InTree, Named
  <2>2. entry[q][dot2] = p
    BY <2>1 DEF OneName, InTree
  <2>3. entry[p] # NoEntries
    BY <2>1, TreeAssumption DEF NoEntries, AllNames, InTree
  <2>4. type[p] = "dir" /\ (p = ROOT_INODE \/ Named(entry, p))
    BY <2>3 DEF DirInv, TreeInv, Dotted, Reached
  <2> QED  BY <2>2, <2>4 DEF InTree
<1> QED  BY <1>2, <1>3

LEMMA ClimbInTree ==
  ASSUME DirInv, OneName(entry, type), NEW d, InTree(d), NEW u, Climbs(entry, u, d, Steps)
  PROVE  u[Steps] # NO_INODE
<1>1. Steps \in Nat
  BY FS_CardinalityType, TreeAssumption DEF Steps
<1>2. PICK D : D = {k \in 0 .. Steps : ~InTree(u[k])}
  OBVIOUS
<1>3. ASSUME D # {} PROVE FALSE
  <2>1. PICK k \in D : \A j \in D : k <= j
    BY <1>1, <1>2, <1>3, LeastOf
  <2>2. k \in 0 .. Steps /\ k # 0
    BY <1>2, <2>1 DEF Climbs
  <2>3. PICK i \in 0 .. Steps - 1 : k = i + 1 /\ i \in 0 .. Steps
    <3>1. k - 1 \in 0 .. Steps - 1 /\ k = (k - 1) + 1 /\ k - 1 \in 0 .. Steps
      BY <1>1, <2>2
    <3> QED  BY <3>1
  <2>4. InTree(u[i])
    BY <1>2, <2>1, <2>3
  <2>5. u[i] # NO_INODE
    BY <2>4, TreeAssumption DEF InTree
  <2>6. u[k] = entry[u[i]][dot2]
    BY <2>3, <2>5 DEF Climbs
  <2>7. InTree(entry[u[i]][dot2])
    BY <2>4, ParentInTree
  <2> QED  BY <1>2, <2>1, <2>6, <2>7
<1>4. InTree(u[Steps])
  BY <1>1, <1>2, <1>3
<1> QED  BY <1>4, TreeAssumption DEF InTree

LEMMA OnlyName ==
  ASSUME OneName(entry, type), NEW d \in Inodes, type[d] = "dir", Named(entry, d)
  PROVE  entry[d][dot1] = d /\ \E n \in Names : NamesOf(d) = {<<entry[d][dot2], n>>}
<1>1. PICK p \in Inodes, n \in Names : entry[p][n] = d
  BY DEF Named
<1>2. entry[d][dot1] = d /\ entry[d][dot2] = p
  BY <1>1 DEF OneName
<1>3. ASSUME NEW a \in Inodes, NEW m \in Names, entry[a][m] = d PROVE a = p /\ m = n
  BY <1>1, <1>3 DEF OneName
<1>4. NamesOf(d) = {<<p, n>>}
  BY <1>1, <1>3 DEF NamesOf
<1> QED  BY <1>2, <1>4

LEMMA DirInvIsTree == DirInv => TreeShape
<1> SUFFICES ASSUME DirInv, NEW d \in Inodes, type[d] = "dir", i_nlinks[d] > 0
             PROVE  /\ Above(d)[Cardinality(Inodes)] \in {ROOT_INODE, NO_INODE}
                    /\ dirlinks \/ /\ Above(d)[Cardinality(Inodes)] = ROOT_INODE
                                   /\ entry[d][dot1] = d
                                   /\ d = ROOT_INODE \/ \E n \in Names :
                                            NamesOf(d) = {<<entry[d][dot2], n>>}
  BY DEF TreeShape
<1>1. entry \in EntryMaps /\ Upward(entry) /\ TreeInv
  BY VolumeIs DEF DirInv, Shaped
<1>2. PICK u : u = Above(d)
  OBVIOUS
<1>3. Climbs(entry, u, d, Steps)
  BY <1>1, <1>2, AboveClimbs
<1>4. u[Steps] \in {ROOT_INODE, NO_INODE}
  BY <1>1, <1>3, ClimbEnds
<1>5. ASSUME ~dirlinks
      PROVE  /\ u[Steps] = ROOT_INODE /\ entry[d][dot1] = d
             /\ d = ROOT_INODE \/ \E n \in Names : NamesOf(d) = {<<entry[d][dot2], n>>}
  <2>1. OneName(entry, type)
    BY <1>5 DEF DirInv
  <2>2. d = ROOT_INODE \/ Named(entry, d)
    <3>1. Exists(d)
      BY DEF Exists
    <3> QED  BY <1>1, <3>1, LinkedIsNamed
  <2>3. u[Steps] # NO_INODE
    BY <1>3, <2>1, <2>2, ClimbInTree DEF InTree
  <2>4. CASE d = ROOT_INODE
    <3>1. entry[d][dot1] = d
      BY <1>1, <2>4 DEF TreeInv, Dotted
    <3> QED  BY <1>4, <2>3, <2>4, <3>1
  <2>5. CASE Named(entry, d)
    BY <1>4, <2>1, <2>3, <2>5, OnlyName
  <2> QED  BY <2>2, <2>4, <2>5
<1> QED  BY <1>2, <1>4, <1>5 DEF Steps

\* The directories are a tree: but for the root each has one name, in the
\* directory that its ".." names, and the root is above all.  However the
\* superuser links directories, the loop of rename that climbs from the new
\* directory ends.
THEOREM DirectoriesAreATree == Spec => []TreeShape
<1>1. DirInv /\ [Next]_vars => DirInv'
  <2> SUFFICES ASSUME DirInv, [Next]_vars PROVE DirInv'
    OBVIOUS
  <2>1. CASE Next
    <3>1. TreeInv'
      BY <2>1, EveryStep DEF DirInv, GoodStep
    <3>2. Upward(entry)' /\ (dirlinks \/ OneName(entry, type))'
      BY <2>1, EveryKeeps DEF DirKept, Upward, OneName
    <3> QED  BY <3>1, <3>2 DEF DirInv
  <2>2. CASE UNCHANGED vars
    <3>1. TreeInv'
      BY <2>2 DEF vars, DirInv, TreeInv, TypeOK, LinkCounts, Links, Dotted, Reached, Named, FreeOnes
    <3> QED  BY <2>2, <3>1 DEF vars, DirInv, Upward, OneName
  <2> QED  BY <2>1, <2>2
<1> QED  BY InitIsDir, DirInvIsTree, <1>1, PTL DEF Spec
=============================================================================

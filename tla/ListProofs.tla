------------------------------ MODULE ListProofs ------------------------------
(***************************************************************************)
(* Proofs about List, for any nodes and values: both directions agree,     *)
(* lookups are those of the sequence, an iteration is whole, and the list  *)
(* implements the deque.                                                   *)
(***************************************************************************)
EXTENDS List, TLAPS, FiniteSetTheorems, WellFoundedInduction, SequenceTheorems

\* A set of numbers has a least one.
LEMMA LeastOf ==
  ASSUME NEW S \in SUBSET Nat, S # {}
  PROVE  \E i \in S : \A j \in S : i <= j
<1>1. PICK Below : Below = {0 .. i : i \in S}
  OBVIOUS
<1>2. Below \subseteq FiniteSubsetsOf(Nat) /\ Below # {}
  <2>1. ASSUME NEW i \in S PROVE 0 .. i \in SUBSET Nat /\ IsFiniteSet(0 .. i)
    <3>1. IsFiniteSet(0 .. i)
      BY FS_Interval
    <3> QED  BY <3>1
  <2>2. Below \subseteq FiniteSubsetsOf(Nat)
    BY <1>1, <2>1, Zenon DEF FiniteSubsetsOf
  <2>3. Below # {}
    BY <1>1
  <2> QED  BY <2>2, <2>3
<1>3. PICK x \in Below : \A y \in Below : <<y, x>> \notin StrictSubsetOrdering(Nat)
  BY <1>2, FS_StrictSubsetOrderingWellFounded, WFMin
<1>4. PICK i \in S : x = 0 .. i
  BY <1>1
<1>5. ASSUME NEW j \in S, j < i PROVE FALSE
  <2>1. 0 .. j \subseteq 0 .. i /\ 0 .. j # 0 .. i
    BY <1>5
  <2>2. 0 .. j \in Below /\ 0 .. j \in SUBSET Nat /\ 0 .. i \in SUBSET Nat
    BY <1>1
  <2>3. <<0 .. j, 0 .. i>> \in StrictSubsetOrdering(Nat)
    BY <2>1, <2>2 DEF StrictSubsetOrdering
  <2> QED  BY <1>3, <1>4, <2>2, <2>3
<1> QED  BY <1>5

-----------------------------------------------------------------------------
\* A walk of l nodes that begins with first, where n is followed by links[n][way].
Following(links, n, way) == IF n = NULL THEN NULL
                            ELSE IF way = "LIST_HEAD" THEN links[n].next
                            ELSE links[n].prev

WalkStep(links, first, l, way, w) ==
    [k \in 1 .. l |-> IF k = 1 THEN first ELSE Following(links, w[k - 1], way)]

WalkOf(links, first, l, way) ==
    LET w == CHOOSE w : w = WalkStep(links, first, l, way, w)
    IN  [k \in 1 .. l |-> w[k]]

LEMMA WalkIs ==
  ASSUME NEW way
  PROVE  Walk(way) = WalkOf(node, Start(way), len, way)
BY DEF Walk, WalkOf, WalkStep, Following, Step

\* The walk is the sequence whose links it follows.
Follows(s, links, first, l, way) ==
    /\ s \in [1 .. l -> Nodes]
    /\ l > 0 => first = s[1]
    /\ \A k \in 1 .. l : k < l => Following(links, s[k], way) = s[k + 1]

LEMMA WalkFollows ==
  ASSUME NEW links, NEW first, NEW l \in Nat, NEW way, NEW s,
         Follows(s, links, first, l, way)
  PROVE  WalkOf(links, first, l, way) = s
<1>1. s = WalkStep(links, first, l, way, s)
  <2>1. \A k \in 1 .. l :
          s[k] = IF k = 1 THEN first ELSE Following(links, s[k - 1], way)
    <3> SUFFICES ASSUME NEW k \in 1 .. l
                 PROVE  s[k] = IF k = 1 THEN first ELSE Following(links, s[k - 1], way)
      OBVIOUS
    <3>1. CASE k = 1
      BY <3>1 DEF Follows
    <3>2. CASE k # 1
      <4>1. k - 1 \in 1 .. l /\ k - 1 < l /\ (k - 1) + 1 = k
        BY <3>2
      <4>2. Following(links, s[k - 1], way) = s[(k - 1) + 1]
        BY <4>1 DEF Follows
      <4> QED  BY <3>2, <4>1, <4>2
    <3> QED  BY <3>1, <3>2
  <2> QED  BY <2>1 DEF WalkStep, Follows
<1>2. PICK w : w = CHOOSE v : v = WalkStep(links, first, l, way, v)
  OBVIOUS
<1>3. w = WalkStep(links, first, l, way, w)
  BY <1>1, <1>2
<1>4. \A k \in 1 .. l : w[k] = IF k = 1 THEN first ELSE Following(links, w[k - 1], way)
  BY <1>3 DEF WalkStep
<1>5. ASSUME NEW k \in 1 .. l, w[k] # s[k] PROVE FALSE
  <2>1. PICK D : D = {j \in 1 .. l : w[j] # s[j]}
    OBVIOUS
  <2>2. PICK i \in D : \A j \in D : i <= j
    <3>1. D \in SUBSET Nat /\ D # {}
      BY <1>5, <2>1
    <3> QED  BY <3>1, LeastOf
  <2>3. i # 1
    BY <1>4, <2>1, <2>2 DEF Follows
  <2>4. i - 1 \in 1 .. l /\ i - 1 < l /\ i - 1 \notin D
    BY <2>1, <2>2, <2>3
  <2>5. w[i - 1] = s[i - 1]
    BY <2>1, <2>4
  <2>6. w[i] = Following(links, s[i - 1], way)
    BY <1>4, <2>1, <2>3, <2>5
  <2>7. s[i] = Following(links, s[i - 1], way)
    <3>1. (i - 1) + 1 = i
      BY <2>1
    <3> QED  BY <2>4, <3>1 DEF Follows
  <2> QED  BY <2>1, <2>6, <2>7
<1> QED  BY <1>2, <1>5 DEF WalkOf, Follows

-----------------------------------------------------------------------------
LEMMA ChainedSeq ==
  ASSUME NEW s, NEW links, NEW first, NEW last, NEW heap, Chained(s, links, first, last, heap)
  PROVE  s \in Seq(heap) /\ Len(s) \in Nat /\ s \in [1 .. Len(s) -> heap]
         /\ \A k \in 1 .. Len(s) : s[k] \in heap
BY LenProperties DEF Chained

\* Both walks of linked nodes.
LEMMA ChainWalks ==
  ASSUME NEW s, NEW links, NEW first, NEW last, NEW heap, heap \subseteq Nodes,
         Chained(s, links, first, last, heap)
  PROVE  /\ WalkOf(links, first, Len(s), "LIST_HEAD") = s
         /\ WalkOf(links, last, Len(s), "LIST_TAIL") = Mirror(s)
<1>1. PICK l : l = Len(s)
  OBVIOUS
<1>2. /\ l \in Nat /\ s \in [1 .. l -> heap]
      /\ \A k \in 1 .. l : s[k] \in heap /\ s[k] # NULL
  BY <1>1, ChainedSeq, NullAssumption
<1>3. WalkOf(links, first, l, "LIST_HEAD") = s
  <2>1. ASSUME NEW k \in 1 .. l, k < l PROVE Following(links, s[k], "LIST_HEAD") = s[k + 1]
    <3>1. links[s[k]].next = s[k + 1]
      BY <1>1, <2>1 DEF Chained
    <3> QED  BY <1>2, <3>1 DEF Following
  <2>2. ASSUME l > 0 PROVE first = s[1]
    BY <1>1, <2>2 DEF Chained
  <2>3. Follows(s, links, first, l, "LIST_HEAD")
    BY <1>2, <2>1, <2>2 DEF Follows
  <2> QED  BY <1>2, <2>3, WalkFollows
<1>4. WalkOf(links, last, l, "LIST_TAIL") = Mirror(s)
  <2>1. PICK z : z = Mirror(s)
    OBVIOUS
  <2>2. z \in [1 .. l -> heap] /\ \A k \in 1 .. l : z[k] = s[(l + 1) - k]
    BY <1>1, <1>2, <2>1 DEF Mirror
  <2>3. ASSUME NEW k \in 1 .. l, k < l
        PROVE  Following(links, z[k], "LIST_TAIL") = z[k + 1]
    <3>1. PICK j : j = (l + 1) - k
      OBVIOUS
    <3>2. j \in 1 .. l /\ j # 1 /\ j - 1 = (l + 1) - (k + 1) /\ k + 1 \in 1 .. l
      BY <1>2, <2>3, <3>1
    <3>3. z[k] = s[j] /\ z[k + 1] = s[j - 1]
      BY <2>2, <3>1, <3>2
    <3>4. links[s[j]].prev = s[j - 1]
      BY <1>1, <3>2 DEF Chained
    <3> QED  BY <1>2, <3>2, <3>3, <3>4 DEF Following
  <2>4. ASSUME l > 0 PROVE last = z[1]
    <3>1. last = s[l]
      BY <1>1, <2>4 DEF Chained
    <3>2. 1 \in 1 .. l /\ (l + 1) - 1 = l
      BY <1>2, <2>4
    <3> QED  BY <2>2, <3>1, <3>2
  <2>5. WalkOf(links, last, l, "LIST_TAIL") = z
    <3>1. Follows(z, links, last, l, "LIST_TAIL")
      BY <2>2, <2>3, <2>4 DEF Follows
    <3> QED  BY <1>2, <3>1, WalkFollows
  <2> QED  BY <2>1, <2>5
<1> QED  BY <1>1, <1>3, <1>4

\* A node that is not on the list may change, appear and be freed.
LEMMA ChainStays ==
  ASSUME NEW s, NEW links, NEW first, NEW last, NEW heap, Chained(s, links, first, last, heap),
         NEW links2, NEW heap2,
         \A k \in 1 .. Len(s) : links2[s[k]] = links[s[k]] /\ s[k] \in heap2
  PROVE  Chained(s, links2, first, last, heap2)
<1>1. s \in Seq(heap2)
  BY ChainedSeq
<1> QED  BY <1>1 DEF Chained

LEMMA EmptyChain ==
  ASSUME NEW links, NEW heap
  PROVE  Chained(<<>>, links, NULL, NULL, heap)
BY DEF Chained

\* What list_rpush does to the links, and list_lpush.
RPushed(links, links2, n, last, heap) == \A m \in heap :
    /\ links2[m].prev = IF m = n THEN last ELSE links[m].prev
    /\ links2[m].next = IF m = n THEN NULL ELSE IF m = last THEN n ELSE links[m].next

LPushed(links, links2, n, first, heap) == \A m \in heap :
    /\ links2[m].next = IF m = n THEN first ELSE links[m].next
    /\ links2[m].prev = IF m = n THEN NULL ELSE IF m = first THEN n ELSE links[m].prev

LEMMA RPushChain ==
  ASSUME NEW s, NEW links, NEW first, NEW last, NEW heap, heap \subseteq Nodes,
         Chained(s, links, first, last, heap),
         NEW n \in heap, \A k \in 1 .. Len(s) : s[k] # n,
         NEW links2, RPushed(links, links2, n, last, heap),
         NEW first2, first2 = IF Len(s) = 0 THEN n ELSE first
  PROVE  Chained(Append(s, n), links2, first2, n, heap)
<1>1. /\ s \in Seq(heap) /\ Len(s) \in Nat
      /\ \A k \in 1 .. Len(s) : s[k] \in heap /\ s[k] # NULL
  BY ChainedSeq, NullAssumption
<1>2. PICK z : z = Append(s, n)
  OBVIOUS
<1>3. /\ z \in Seq(heap) /\ Len(z) = Len(s) + 1 /\ z[Len(s) + 1] = n
      /\ \A k \in 1 .. Len(s) : z[k] = s[k]
  BY <1>1, <1>2, AppendProperties
<1>4. \A k \in 1 .. Len(z) : k \in 1 .. Len(s) \/ k = Len(s) + 1
  BY <1>1, <1>3
<1>5. \A k, l \in 1 .. Len(z) : z[k] = z[l] => k = l
  BY <1>3, <1>4 DEF Chained
<1>6. ASSUME NEW k \in 1 .. Len(z)
      PROVE  /\ links2[z[k]].prev = IF k = 1 THEN NULL ELSE z[k - 1]
             /\ links2[z[k]].next = IF k = Len(z) THEN NULL ELSE z[k + 1]
  <2>1. CASE k = Len(s) + 1
    <3>1. links2[n].prev = last /\ links2[n].next = NULL
      BY DEF RPushed
    <3>2. last = IF k = 1 THEN NULL ELSE z[k - 1]
      BY <1>1, <1>3, <2>1 DEF Chained
    <3> QED  BY <1>3, <2>1, <3>1, <3>2
  <2>2. CASE k \in 1 .. Len(s)
    <3>1. z[k] = s[k] /\ s[k] \in heap /\ s[k] # n
      BY <1>1, <1>3, <2>2
    <3>2. links2[s[k]].prev = links[s[k]].prev
      BY <3>1 DEF RPushed
    <3>3. links2[s[k]].next = IF s[k] = last THEN n ELSE links[s[k]].next
      BY <3>1 DEF RPushed
    <3>4. s[k] = last <=> k = Len(s)
      BY <1>1, <2>2 DEF Chained
    <3>5. links2[z[k]].prev = IF k = 1 THEN NULL ELSE z[k - 1]
      <4>1. k # 1 => k - 1 \in 1 .. Len(s)
        BY <1>1, <2>2
      <4> QED  BY <1>3, <2>2, <3>1, <3>2, <4>1 DEF Chained
    <3>6. links2[z[k]].next = IF k = Len(z) THEN NULL ELSE z[k + 1]
      <4>1. k # Len(z) /\ (k # Len(s) => k + 1 \in 1 .. Len(s))
        BY <1>1, <1>3, <2>2
      <4>2. CASE k = Len(s)
        BY <1>3, <3>1, <3>3, <3>4, <4>1, <4>2
      <4>3. CASE k # Len(s)
        BY <1>3, <2>2, <3>1, <3>3, <3>4, <4>1, <4>3 DEF Chained
      <4> QED  BY <4>2, <4>3
    <3> QED  BY <3>5, <3>6
  <2> QED  BY <1>4, <2>1, <2>2
<1>7. first2 = z[1]
  BY <1>1, <1>3 DEF Chained
<1> QED  BY <1>1, <1>2, <1>3, <1>5, <1>6, <1>7 DEF Chained

LEMMA LPushChain ==
  ASSUME NEW s, NEW links, NEW first, NEW last, NEW heap, heap \subseteq Nodes,
         Chained(s, links, first, last, heap),
         NEW n \in heap, \A k \in 1 .. Len(s) : s[k] # n,
         NEW links2, LPushed(links, links2, n, first, heap),
         NEW last2, last2 = IF Len(s) = 0 THEN n ELSE last
  PROVE  Chained(<<n>> \o s, links2, n, last2, heap)
<1>1. /\ s \in Seq(heap) /\ Len(s) \in Nat
      /\ \A k \in 1 .. Len(s) : s[k] \in heap /\ s[k] # NULL
  BY ChainedSeq, NullAssumption
<1>2. PICK z : z = <<n>> \o s
  OBVIOUS
<1>3. /\ z \in Seq(heap) /\ Len(z) = Len(s) + 1 /\ z[1] = n
      /\ \A k \in 1 .. Len(s) : z[k + 1] = s[k]
  <2>1. <<n>> \in Seq(heap) /\ Len(<<n>>) = 1 /\ <<n>>[1] = n
    OBVIOUS
  <2>2. /\ z \in Seq(heap) /\ Len(z) = 1 + Len(s)
        /\ \A i \in 1 .. 1 + Len(s) : z[i] = IF i <= 1 THEN <<n>>[i] ELSE s[i - 1]
    BY <1>1, <1>2, <2>1, ConcatProperties
  <2>3. \A k \in 1 .. Len(s) : z[k + 1] = s[k]
    <3> SUFFICES ASSUME NEW k \in 1 .. Len(s) PROVE z[k + 1] = s[k]
      OBVIOUS
    <3>1. k + 1 \in 1 .. 1 + Len(s) /\ ~(k + 1 <= 1) /\ (k + 1) - 1 = k
      BY <1>1
    <3> QED  BY <2>2, <3>1
  <2> QED  BY <1>1, <2>1, <2>2, <2>3
<1>4. \A k \in 1 .. Len(z) : k = 1 \/ (k - 1 \in 1 .. Len(s) /\ z[k] = s[k - 1])
  <2> SUFFICES ASSUME NEW k \in 1 .. Len(z), k # 1
               PROVE  k - 1 \in 1 .. Len(s) /\ z[k] = s[k - 1]
    OBVIOUS
  <2>1. k - 1 \in 1 .. Len(s) /\ (k - 1) + 1 = k
    BY <1>1, <1>3
  <2>2. z[(k - 1) + 1] = s[k - 1]
    BY <1>3, <2>1
  <2> QED  BY <2>1, <2>2
<1>5. \A k, l \in 1 .. Len(z) : z[k] = z[l] => k = l
  <2> SUFFICES ASSUME NEW k \in 1 .. Len(z), NEW l \in 1 .. Len(z), z[k] = z[l] PROVE k = l
    OBVIOUS
  <2>1. CASE k = 1 \/ l = 1
    BY <1>3, <1>4, <2>1
  <2>2. CASE k # 1 /\ l # 1
    <3>1. k - 1 = l - 1
      BY <1>4, <2>2 DEF Chained
    <3> QED  BY <3>1
  <2> QED  BY <2>1, <2>2
<1>6. ASSUME NEW k \in 1 .. Len(z)
      PROVE  /\ links2[z[k]].prev = IF k = 1 THEN NULL ELSE z[k - 1]
             /\ links2[z[k]].next = IF k = Len(z) THEN NULL ELSE z[k + 1]
  <2>1. CASE k = 1
    <3>1. links2[n].prev = NULL /\ links2[n].next = first
      BY DEF LPushed
    <3>2. CASE Len(s) = 0
      BY <1>3, <2>1, <3>1, <3>2 DEF Chained
    <3>3. CASE Len(s) # 0
      <4>1. 1 \in 1 .. Len(s)
        BY <1>1, <3>3
      <4>2. first = s[1] /\ z[1 + 1] = s[1]
        BY <1>3, <3>3, <4>1 DEF Chained
      <4> QED  BY <1>1, <1>3, <2>1, <3>1, <3>3, <4>2
    <3> QED  BY <3>2, <3>3
  <2>2. CASE k # 1
    <3>1. PICK j : j = k - 1
      OBVIOUS
    <3>2. j \in 1 .. Len(s) /\ k = j + 1 /\ z[k] = s[j] /\ s[j] \in heap /\ s[j] # n
      BY <1>1, <1>4, <2>2, <3>1
    <3>3. links2[s[j]].next = links[s[j]].next
      BY <3>2 DEF LPushed
    <3>4. links2[s[j]].prev = IF s[j] = first THEN n ELSE links[s[j]].prev
      BY <3>2 DEF LPushed
    <3>5. s[j] = first <=> j = 1
      BY <1>1, <3>2 DEF Chained
    <3>6. links2[z[k]].prev = z[k - 1]
      <4>1. CASE j = 1
        BY <1>3, <3>2, <3>4, <3>5, <4>1
      <4>2. CASE j # 1
        <5>1. k - 1 \in 1 .. Len(z) /\ k - 1 # 1 /\ (k - 1) - 1 = j - 1
          BY <1>1, <1>3, <3>2, <4>2
        <5>2. z[k - 1] = s[j - 1]
          BY <1>4, <5>1
        <5> QED  BY <3>2, <3>4, <3>5, <4>2, <5>2 DEF Chained
      <4> QED  BY <4>1, <4>2
    <3>7. links2[z[k]].next = IF k = Len(z) THEN NULL ELSE z[k + 1]
      <4>1. k = Len(z) <=> j = Len(s)
        BY <1>1, <1>3, <3>2
      <4>2. j # Len(s) => j + 1 \in 1 .. Len(s)
        BY <1>1, <3>2
      <4>3. j # Len(s) => z[k + 1] = s[j + 1]
        BY <1>3, <3>2, <4>2
      <4> QED  BY <3>2, <3>3, <4>1, <4>3 DEF Chained
    <3> QED  BY <2>2, <3>6, <3>7
  <2> QED  BY <2>1, <2>2
<1>7. last2 = z[Len(z)]
  <2>1. CASE Len(s) = 0
    BY <1>3, <2>1
  <2>2. CASE Len(s) # 0
    <3>1. Len(s) \in 1 .. Len(s) /\ last = s[Len(s)]
      BY <1>1, <2>2 DEF Chained
    <3> QED  BY <1>3, <2>2, <3>1
  <2> QED  BY <2>1, <2>2
<1>8. Len(z) # 0
  BY <1>1, <1>3
<1>9. Chained(z, links2, n, last2, heap)
  BY <1>3, <1>5, <1>6, <1>7, <1>8 DEF Chained
<1> QED  BY <1>2, <1>9

-----------------------------------------------------------------------------
\* s without its k-th node.
Without(s, k) == SubSeq(s, 1, k - 1) \o SubSeq(s, k + 1, Len(s))

LEMMA WithoutIs ==
  ASSUME NEW S, NEW s \in Seq(S), NEW k \in 1 .. Len(s)
  PROVE  /\ Without(s, k) \in Seq(S) /\ Len(Without(s, k)) = Len(s) - 1
         /\ \A j \in 1 .. Len(s) - 1 : Without(s, k)[j] = s[IF j < k THEN j ELSE j + 1]
<1>1. PICK n : n = Len(s)
  OBVIOUS
<1>2. n \in Nat /\ \A j \in 1 .. n : s[j] \in S
  BY <1>1, LenProperties
<1>3. PICK a : a = SubSeq(s, 1, k - 1)
  OBVIOUS
<1>4. a \in Seq(S) /\ Len(a) = k - 1 /\ \A j \in 1 .. k - 1 : a[j] = s[j]
  <2>1. \A j \in 1 .. k - 1 : s[j] \in S
    BY <1>1, <1>2
  <2>2. 1 \in Int /\ k - 1 \in Int
    BY <1>1, <1>2
  <2>3. /\ SubSeq(s, 1, k - 1) \in Seq(S)
        /\ Len(SubSeq(s, 1, k - 1)) = IF 1 <= k - 1 THEN (k - 1) - 1 + 1 ELSE 0
        /\ \A j \in 1 .. (k - 1) - 1 + 1 : SubSeq(s, 1, k - 1)[j] = s[1 + j - 1]
    BY <2>1, <2>2, SubSeqProperties
  <2> QED  BY <1>1, <1>2, <1>3, <2>3
<1>5. PICK b : b = SubSeq(s, k + 1, n)
  OBVIOUS
<1>6. b \in Seq(S) /\ Len(b) = n - k /\ \A j \in 1 .. n - k : b[j] = s[k + j]
  <2>1. \A j \in k + 1 .. n : s[j] \in S
    BY <1>1, <1>2
  <2>2. k + 1 \in Int /\ n \in Int
    BY <1>1, <1>2
  <2>3. /\ SubSeq(s, k + 1, n) \in Seq(S)
        /\ Len(SubSeq(s, k + 1, n)) = IF k + 1 <= n THEN n - (k + 1) + 1 ELSE 0
        /\ \A j \in 1 .. n - (k + 1) + 1 : SubSeq(s, k + 1, n)[j] = s[k + 1 + j - 1]
    BY <2>1, <2>2, SubSeqProperties
  <2> QED  BY <1>1, <1>2, <1>5, <2>3
<1>7. /\ a \o b \in Seq(S) /\ Len(a \o b) = Len(a) + Len(b)
      /\ \A j \in 1 .. Len(a) + Len(b) :
           (a \o b)[j] = IF j <= Len(a) THEN a[j] ELSE b[j - Len(a)]
  BY <1>4, <1>6, ConcatProperties
<1>8. Without(s, k) = a \o b
  BY <1>1, <1>3, <1>5 DEF Without
<1>9. Len(a) + Len(b) = n - 1
  BY <1>1, <1>2, <1>4, <1>6
<1>10. ASSUME NEW j \in 1 .. n - 1
       PROVE  (a \o b)[j] = s[IF j < k THEN j ELSE j + 1]
  <2>1. CASE j < k
    <3>1. j <= Len(a) /\ j \in 1 .. k - 1
      BY <1>1, <1>2, <1>4, <2>1
    <3> QED  BY <1>4, <1>7, <1>9, <1>10, <2>1, <3>1
  <2>2. CASE ~(j < k)
    <3>1. ~(j <= Len(a)) /\ j - Len(a) \in 1 .. n - k /\ k + (j - Len(a)) = j + 1
      BY <1>1, <1>2, <1>4, <2>2
    <3>2. b[j - Len(a)] = s[k + (j - Len(a))]
      BY <1>6, <3>1
    <3> QED  BY <1>7, <1>9, <1>10, <2>2, <3>1, <3>2
  <2> QED  BY <2>1, <2>2
<1> QED  BY <1>1, <1>7, <1>8, <1>9, <1>10

\* Without the first or the last node.
LEMMA WithoutEnds ==
  ASSUME NEW S, NEW s \in Seq(S), s # <<>>
  PROVE  /\ Without(s, Len(s)) = SubSeq(s, 1, Len(s) - 1)
         /\ Without(s, 1) = Tail(s)
<1>1. PICK n : n = Len(s)
  OBVIOUS
<1>2. n \in Nat /\ n # 0 /\ \A j \in 1 .. n : s[j] \in S
  BY <1>1, EmptySeq, LenProperties
<1>3. SubSeq(s, n + 1, n) = <<>> /\ SubSeq(s, 1, 0) = <<>>
  BY <1>2, SubSeqEmpty
<1>4. SubSeq(s, 1, n - 1) \in Seq(S) /\ SubSeq(s, 2, n) \in Seq(S)
  <2>1. \A j \in 1 .. n - 1 : s[j] \in S
    BY <1>2
  <2>2. \A j \in 2 .. n : s[j] \in S
    BY <1>2
  <2>3. 1 \in Int /\ 2 \in Int /\ n \in Int /\ n - 1 \in Int
    BY <1>2
  <2> QED  BY <2>1, <2>2, <2>3, SubSeqProperties
<1>5. /\ SubSeq(s, 1, n - 1) \o <<>> = SubSeq(s, 1, n - 1)
      /\ <<>> \o SubSeq(s, 2, n) = SubSeq(s, 2, n)
  BY <1>4, ConcatEmptySeq
<1>6. Without(s, n) = SubSeq(s, 1, n - 1)
  BY <1>1, <1>3, <1>5 DEF Without
<1>7. Without(s, 1) = SubSeq(s, 2, n)
  <2>1. 1 - 1 = 0 /\ 1 + 1 = 2
    OBVIOUS
  <2> QED  BY <1>1, <1>3, <1>5, <2>1 DEF Without
<1> QED  BY <1>1, <1>6, <1>7, TailIsSubSeq

\* What list_remove, list_rpop and list_lpop do to the links of the others.
Unlinked(links, links2, n, heap) == \A m \in heap \ {n} :
    /\ links2[m].next = IF m = links[n].prev THEN links[n].next ELSE links[m].next
    /\ links2[m].prev = IF m = links[n].next THEN links[n].prev ELSE links[m].prev

UnlinkedEnds(links, n, first, last, first2, last2) ==
    /\ first2 = IF links[n].prev = NULL THEN links[n].next ELSE first
    /\ last2 = IF links[n].next = NULL THEN links[n].prev ELSE last

AtMostFreed(heap, n, heap2) == \A m \in heap : m # n => m \in heap2

LEMMA RemoveChain ==
  ASSUME NEW s, NEW links, NEW first, NEW last, NEW heap, heap \subseteq Nodes,
         Chained(s, links, first, last, heap),
         NEW k \in 1 .. Len(s), NEW n, n = s[k],
         NEW links2, Unlinked(links, links2, n, heap),
         NEW heap2, AtMostFreed(heap, n, heap2),
         NEW first2, NEW last2, UnlinkedEnds(links, n, first, last, first2, last2)
  PROVE  Chained(Without(s, k), links2, first2, last2, heap2)
<1>0. /\ heap \ {n} \subseteq heap2
      /\ first2 = IF links[n].prev = NULL THEN links[n].next ELSE first
      /\ last2 = IF links[n].next = NULL THEN links[n].prev ELSE last
  BY DEF AtMostFreed, UnlinkedEnds
<1>1. PICK l : l = Len(s)
  OBVIOUS
<1>2. /\ s \in Seq(heap) /\ l \in Nat /\ k \in 1 .. l
      /\ \A j \in 1 .. l : s[j] \in heap /\ s[j] # NULL
  BY <1>1, ChainedSeq, NullAssumption
<1>3. \A i, j \in 1 .. l : s[i] = s[j] => i = j
  BY <1>1 DEF Chained
<1>4. \A j \in 1 .. l : /\ links[s[j]].prev = IF j = 1 THEN NULL ELSE s[j - 1]
                        /\ links[s[j]].next = IF j = l THEN NULL ELSE s[j + 1]
  BY <1>1 DEF Chained
<1>5. PICK z : z = Without(s, k)
  OBVIOUS
<1>6. /\ z \in Seq(heap) /\ Len(z) = l - 1
      /\ \A j \in 1 .. l - 1 : z[j] = s[IF j < k THEN j ELSE j + 1]
  BY <1>1, <1>2, <1>5, WithoutIs
<1>7. \A j \in 1 .. l - 1 : z[j] \in heap \ {n}
  <2> SUFFICES ASSUME NEW j \in 1 .. l - 1 PROVE z[j] \in heap \ {n}
    OBVIOUS
  <2>1. PICK i : i = IF j < k THEN j ELSE j + 1
    OBVIOUS
  <2>2. i \in 1 .. l /\ i # k
    BY <1>2, <2>1
  <2> QED  BY <1>2, <1>3, <1>6, <2>1, <2>2
<1>8. z \in Seq(heap2)
  <2>1. z \in [1 .. l - 1 -> heap2]
    BY <1>0, <1>6, <1>7, LenProperties
  <2>2. l - 1 \in Nat
    BY <1>2
  <2> QED  BY <2>1, <2>2
<1>9. \A i, j \in 1 .. l - 1 : z[i] = z[j] => i = j
  <2> SUFFICES ASSUME NEW i \in 1 .. l - 1, NEW j \in 1 .. l - 1, z[i] = z[j] PROVE i = j
    OBVIOUS
  <2>1. PICK a : a = IF i < k THEN i ELSE i + 1
    OBVIOUS
  <2>2. PICK b : b = IF j < k THEN j ELSE j + 1
    OBVIOUS
  <2>3. a \in 1 .. l /\ b \in 1 .. l /\ s[a] = s[b]
    BY <1>2, <1>6, <2>1, <2>2
  <2>4. a = b
    BY <1>3, <2>3
  <2> QED  BY <1>2, <2>1, <2>2, <2>4
<1>10. /\ links[n].prev = IF k = 1 THEN NULL ELSE s[k - 1]
       /\ links[n].next = IF k = l THEN NULL ELSE s[k + 1]
  BY <1>2, <1>4
<1>11. ASSUME NEW j \in 1 .. l - 1
       PROVE  /\ links2[z[j]].prev = IF j = 1 THEN NULL ELSE z[j - 1]
              /\ links2[z[j]].next = IF j = l - 1 THEN NULL ELSE z[j + 1]
  <2>1. PICK i : i = IF j < k THEN j ELSE j + 1
    OBVIOUS
  <2>2. i \in 1 .. l /\ i # k /\ z[j] = s[i] /\ s[i] \in heap \ {n}
    <3>1. i \in 1 .. l /\ i # k
      BY <1>2, <2>1
    <3>2. z[j] = s[i]
      BY <1>6, <2>1
    <3> QED  BY <1>7, <3>1, <3>2
  <2>3. /\ links2[s[i]].next = IF s[i] = links[n].prev THEN links[n].next ELSE links[s[i]].next
        /\ links2[s[i]].prev = IF s[i] = links[n].next THEN links[n].prev ELSE links[s[i]].prev
    BY <2>2 DEF Unlinked
  <2>4. s[i] = links[n].prev <=> i = k - 1
    <3>1. k # 1 => k - 1 \in 1 .. l
      BY <1>2
    <3> QED  BY <1>2, <1>3, <1>10, <2>2, <3>1
  <2>5. s[i] = links[n].next <=> i = k + 1
    <3>1. k # l => k + 1 \in 1 .. l
      BY <1>2
    <3> QED  BY <1>2, <1>3, <1>10, <2>2, <3>1
  <2>6. j # 1 => z[j - 1] = s[IF j - 1 < k THEN j - 1 ELSE j]
    <3>1. ASSUME j # 1 PROVE j - 1 \in 1 .. l - 1 /\ (j - 1) + 1 = j
      BY <1>2, <3>1
    <3> QED  BY <1>6, <3>1
  <2>7. j # l - 1 => z[j + 1] = s[IF j + 1 < k THEN j + 1 ELSE j + 2]
    <3>1. ASSUME j # l - 1 PROVE j + 1 \in 1 .. l - 1 /\ (j + 1) + 1 = j + 2
      BY <1>2, <3>1
    <3> QED  BY <1>6, <3>1
  <2>8. links2[z[j]].prev = IF j = 1 THEN NULL ELSE z[j - 1]
    <3>1. CASE j < k
      <4>1. i = j /\ i # k + 1 /\ j - 1 < k
        BY <1>2, <2>1, <3>1
      <4>2. links2[s[j]].prev = links[s[j]].prev
        BY <2>3, <2>5, <4>1
      <4>3. links[s[j]].prev = IF j = 1 THEN NULL ELSE s[j - 1]
        BY <1>4, <2>2, <4>1
      <4> QED  BY <2>2, <2>6, <4>1, <4>2, <4>3
    <3>2. CASE j = k
      <4>1. i = k + 1 /\ j - 1 < k
        BY <1>2, <2>1, <3>2
      <4>2. links2[s[i]].prev = links[n].prev
        BY <2>3, <2>5, <4>1
      <4> QED  BY <1>10, <2>2, <2>6, <3>2, <4>1, <4>2
    <3>3. CASE j > k
      <4>1. i = j + 1 /\ i # k + 1 /\ ~(j - 1 < k) /\ j # 1 /\ i # 1 /\ i - 1 = j
        BY <1>2, <2>1, <3>3
      <4>2. links2[s[i]].prev = links[s[i]].prev
        BY <2>3, <2>5, <4>1
      <4>3. links[s[i]].prev = s[j]
        BY <1>4, <2>2, <4>1
      <4> QED  BY <2>2, <2>6, <4>1, <4>2, <4>3
    <3> QED  BY <1>2, <3>1, <3>2, <3>3
  <2>9. links2[z[j]].next = IF j = l - 1 THEN NULL ELSE z[j + 1]
    <3>1. CASE j = k - 1
      <4>1. i = k - 1 /\ ~(j + 1 < k) /\ j + 2 = k + 1 /\ (j = l - 1 <=> k = l)
        BY <1>2, <2>1, <3>1
      <4>2. links2[s[i]].next = links[n].next
        BY <2>3, <2>4, <4>1
      <4> QED  BY <1>10, <2>2, <2>7, <4>1, <4>2
    <3>2. CASE j < k /\ j # k - 1
      <4>1. i = j /\ i # k - 1 /\ j + 1 < k /\ j # l - 1 /\ i # l
        BY <1>2, <2>1, <3>2
      <4>2. links2[s[i]].next = links[s[i]].next
        BY <2>3, <2>4, <4>1
      <4>3. links[s[i]].next = s[j + 1]
        BY <1>4, <2>2, <4>1
      <4> QED  BY <2>2, <2>7, <4>1, <4>2, <4>3
    <3>3. CASE ~(j < k)
      <4>1. i = j + 1 /\ i # k - 1 /\ ~(j + 1 < k) /\ (j = l - 1 <=> i = l) /\ i + 1 = j + 2
        BY <1>2, <2>1, <3>3
      <4>2. links2[s[i]].next = links[s[i]].next
        BY <2>3, <2>4, <4>1
      <4>3. links[s[i]].next = IF i = l THEN NULL ELSE s[j + 2]
        BY <1>4, <2>2, <4>1
      <4> QED  BY <2>2, <2>7, <4>1, <4>2, <4>3
    <3> QED  BY <1>2, <3>1, <3>2, <3>3
  <2> QED  BY <2>8, <2>9
<1>12. first2 = IF l - 1 = 0 THEN NULL ELSE z[1]
  <2>1. l # 0 /\ first = s[1]
    BY <1>1, <1>2 DEF Chained
  <2>2. CASE k = 1
    <3>1. first2 = links[n].next
      BY <1>0, <1>10, <2>2
    <3>2. l - 1 # 0 => z[1] = s[1 + 1]
      BY <1>2, <1>6, <2>2
    <3> QED  BY <1>2, <1>10, <2>2, <3>1, <3>2
  <2>3. CASE k # 1
    <3>1. k - 1 \in 1 .. l /\ 1 \in 1 .. l - 1 /\ 1 < k /\ l - 1 # 0
      BY <1>2, <2>3
    <3>2. first2 = s[1]
      BY <1>0, <1>2, <1>10, <2>1, <2>3, <3>1
    <3> QED  BY <1>6, <3>1, <3>2
  <2> QED  BY <2>2, <2>3
<1>13. last2 = IF l - 1 = 0 THEN NULL ELSE z[l - 1]
  <2>1. l # 0 /\ last = s[l]
    BY <1>1, <1>2 DEF Chained
  <2>2. CASE k = l
    <3>1. last2 = links[n].prev
      BY <1>0, <1>10, <2>2
    <3>2. l - 1 # 0 => z[l - 1] = s[l - 1]
      BY <1>2, <1>6, <2>2
    <3> QED  BY <1>2, <1>10, <2>2, <3>1, <3>2
  <2>3. CASE k # l
    <3>1. k + 1 \in 1 .. l /\ l - 1 \in 1 .. l - 1 /\ ~(l - 1 < k) /\ (l - 1) + 1 = l /\ l - 1 # 0
      BY <1>2, <2>3
    <3>2. last2 = s[l]
      BY <1>0, <1>2, <1>10, <2>1, <2>3, <3>1
    <3> QED  BY <1>6, <3>1, <3>2
  <2> QED  BY <2>2, <2>3
<1> QED  BY <1>5, <1>6, <1>8, <1>9, <1>11, <1>12, <1>13 DEF Chained

-----------------------------------------------------------------------------
\* The list of a state, and that of the next.
View(s, way) == IF way = "LIST_HEAD" THEN s ELSE Mirror(s)

LEMMA WalkIsNext ==
  ASSUME NEW way
  PROVE  Walk(way)' = WalkOf(node', Start(way)', len', way)
BY DEF Walk, WalkOf, WalkStep, Following, Step

LEMMA ListIs ==
  ASSUME ListInv, NEW s, s = Walk("LIST_HEAD")
  PROVE  /\ Chained(s, node, head, tail, allocated) /\ Len(s) = len
         /\ \A way \in Directions : Walk(way) = View(s, way)
         /\ it # NULL /\ it.next # NULL /\ ~disturbed =>
              Reached(View(s, it.direction), it.next, passed)
<1>1. TypeOK /\ Chained(s, node, head, tail, allocated)
  BY DEF ListInv
<1>2. Len(s) = len
  <2>1. s = [k \in 1 .. len |-> WalkOf(node, Start("LIST_HEAD"), len, "LIST_HEAD")[k]]
    BY WalkIs DEF WalkOf
  <2>2. DOMAIN s = 1 .. len /\ len \in Nat
    BY <1>1, <2>1 DEF TypeOK
  <2>3. Len(s) \in Nat /\ DOMAIN s = 1 .. Len(s)
    BY <1>1, ChainedSeq, LenProperties
  <2> QED  BY <2>2, <2>3
<1>3. /\ WalkOf(node, head, Len(s), "LIST_HEAD") = s
      /\ WalkOf(node, tail, Len(s), "LIST_TAIL") = Mirror(s)
  BY <1>1, ChainWalks DEF TypeOK
<1>4. \A way \in Directions : Walk(way) = View(s, way)
  BY <1>2, <1>3, WalkIs DEF Directions, Start, View
<1>5. it # NULL => it.direction \in Directions
  BY <1>1 DEF TypeOK
<1> QED  BY <1>1, <1>2, <1>4, <1>5 DEF ListInv

\* The list of the next state is z.
NextIs(z) == Chained(z, node', head', tail', allocated') /\ Len(z) = len'

LEMMA NextList ==
  ASSUME TypeOK', NEW z, NextIs(z),
         it' # NULL /\ it'.next # NULL /\ ~disturbed' =>
           Reached(View(z, it'.direction), it'.next, passed')
  PROVE  ListInv' /\ Walk("LIST_HEAD")' = z
<1>1. allocated' \subseteq Nodes
  BY DEF TypeOK
<1>2. /\ WalkOf(node', head', Len(z), "LIST_HEAD") = z
      /\ WalkOf(node', tail', Len(z), "LIST_TAIL") = Mirror(z)
  BY <1>1, ChainWalks DEF NextIs
<1>3. \A way \in Directions : Walk(way)' = View(z, way)
  <2> SUFFICES ASSUME NEW way \in Directions PROVE Walk(way)' = View(z, way)
    OBVIOUS
  <2>1. Walk(way)' = WalkOf(node', Start(way)', len', way)
    BY WalkIsNext
  <2> QED  BY <1>2, <2>1 DEF Directions, Start, View, NextIs
<1>4. Walk("LIST_HEAD")' = z
  BY <1>3 DEF Directions, View
<1>5. it' # NULL => it'.direction \in Directions
  BY DEF TypeOK
<1>6. it' # NULL => Walk(it.direction)' = View(z, it'.direction)
  <2> SUFFICES ASSUME it' # NULL PROVE Walk(it.direction)' = View(z, it'.direction)
    OBVIOUS
  <2>1. PICK way : way = it'.direction
    OBVIOUS
  <2>2. Walk(it.direction)' = Walk(way)'
    BY <2>1 DEF Walk, Start, Step
  <2> QED  BY <1>3, <1>5, <2>1, <2>2
<1> QED  BY <1>4, <1>6 DEF ListInv, NextIs

-----------------------------------------------------------------------------
\* Iterations.
LEMMA MirrorIs ==
  ASSUME NEW S, NEW s \in Seq(S)
  PROVE  /\ Mirror(s) \in Seq(S) /\ Len(Mirror(s)) = Len(s)
         /\ \A k \in 1 .. Len(s) : Mirror(s)[k] = s[(Len(s) + 1) - k]
<1>1. PICK l : l = Len(s)
  OBVIOUS
<1>2. l \in Nat /\ s \in [1 .. l -> S]
  BY <1>1, LenProperties
<1>3. PICK z : z = [k \in 1 .. l |-> s[(l + 1) - k]]
  OBVIOUS
<1>4. z = Mirror(s)
  BY <1>1, <1>3 DEF Mirror
<1>5. z \in [1 .. l -> S]
  BY <1>2, <1>3
<1>6. z \in Seq(S) /\ Len(z) = l
  BY <1>2, <1>5
<1> QED  BY <1>1, <1>3, <1>4, <1>6

\* An iteration in either direction follows the view of the list.
LEMMA ViewAlong ==
  ASSUME TypeOK, NEW s, Chained(s, node, head, tail, allocated), NEW way \in Directions,
         NEW v, v = View(s, way)
  PROVE  /\ v \in Seq(Nodes) /\ Len(v) = Len(s) /\ Len(v) \in Nat
         /\ \A k \in 1 .. Len(v) : v[k] \in Nodes /\ v[k] # NULL
         /\ Start(way) = IF Len(v) = 0 THEN NULL ELSE v[1]
         /\ \A k \in 1 .. Len(v) : Step(v[k], way) = IF k = Len(v) THEN NULL ELSE v[k + 1]
<1>1. PICK l : l = Len(s)
  OBVIOUS
<1>2. /\ s \in Seq(Nodes) /\ l \in Nat
      /\ \A k \in 1 .. l : s[k] \in Nodes /\ s[k] # NULL
  BY <1>1, ChainedSeq, NullAssumption DEF TypeOK
<1>3. CASE way = "LIST_HEAD"
  <2>1. v = s
    BY <1>3 DEF View
  <2> QED  BY <1>1, <1>2, <1>3, <2>1 DEF Start, Step, Chained
<1>4. CASE way = "LIST_TAIL"
  <2>1. v = Mirror(s)
    BY <1>4 DEF View
  <2>2. v \in Seq(Nodes) /\ Len(v) = l /\ \A k \in 1 .. l : v[k] = s[(l + 1) - k]
    BY <1>1, <1>2, <2>1, MirrorIs
  <2>3. ASSUME NEW k \in 1 .. l
        PROVE  /\ v[k] \in Nodes /\ v[k] # NULL
               /\ Step(v[k], way) = IF k = l THEN NULL ELSE v[k + 1]
    <3>1. PICK j : j = (l + 1) - k
      OBVIOUS
    <3>2. j \in 1 .. l /\ (j = 1 <=> k = l) /\ (l + 1) - (k + 1) = j - 1
      BY <1>2, <3>1
    <3>3. k # l => k + 1 \in 1 .. l
      BY <1>2
    <3>4. v[k] = s[j] /\ (k # l => v[k + 1] = s[j - 1])
      BY <2>2, <3>1, <3>2, <3>3
    <3>5. node[s[j]].prev = IF j = 1 THEN NULL ELSE s[j - 1]
      BY <1>1, <3>2 DEF Chained
    <3> QED  BY <1>2, <1>4, <3>2, <3>4, <3>5 DEF Step
  <2>4. Start(way) = IF l = 0 THEN NULL ELSE v[1]
    <3>1. Start(way) = tail
      BY <1>4 DEF Start
    <3>2. tail = IF l = 0 THEN NULL ELSE s[l]
      BY <1>1 DEF Chained
    <3>3. l # 0 => 1 \in 1 .. l /\ (l + 1) - 1 = l
      BY <1>2
    <3> QED  BY <2>2, <3>1, <3>2, <3>3
  <2> QED  BY <1>1, <1>2, <2>2, <2>3, <2>4
<1> QED  BY <1>3, <1>4 DEF Directions

\* The list grew at its end, or at its beginning.
Longer(s, z) == s \in Seq(Nodes) /\ z \in Seq(Nodes) /\ Len(z) = Len(s) + 1
                /\ \A k \in 1 .. Len(s) : z[k] = s[k]

Shifted(s, z) == s \in Seq(Nodes) /\ z \in Seq(Nodes) /\ Len(z) = Len(s) + 1
                 /\ \A k \in 1 .. Len(s) : z[k + 1] = s[k]

LEMMA GrownView ==
  ASSUME NEW s, NEW z, Longer(s, z) \/ Shifted(s, z), NEW way \in Directions
  PROVE  \/ Longer(View(s, way), View(z, way))
         \/ Shifted(View(s, way), View(z, way))
<1>1. CASE way = "LIST_HEAD"
  BY <1>1 DEF View
<1>2. CASE way = "LIST_TAIL"
  <2>1. PICK l : l = Len(s)
    OBVIOUS
  <2>2. s \in Seq(Nodes) /\ z \in Seq(Nodes) /\ l \in Nat /\ Len(z) = l + 1
    BY <2>1, LenProperties DEF Longer, Shifted
  <2>3. PICK a : a = Mirror(s)
    OBVIOUS
  <2>4. a \in Seq(Nodes) /\ Len(a) = l /\ \A k \in 1 .. l : a[k] = s[(l + 1) - k]
    BY <2>1, <2>2, <2>3, MirrorIs
  <2>5. PICK b : b = Mirror(z)
    OBVIOUS
  <2>6. /\ b \in Seq(Nodes) /\ Len(b) = l + 1
        /\ \A k \in 1 .. l + 1 : b[k] = z[((l + 1) + 1) - k]
    BY <2>2, <2>5, MirrorIs
  <2>7. a = View(s, way) /\ b = View(z, way)
    BY <1>2, <2>3, <2>5 DEF View
  <2>8. CASE Longer(s, z)
    <3>1. ASSUME NEW k \in 1 .. l PROVE b[k + 1] = a[k]
      <4>1. /\ k + 1 \in 1 .. l + 1 /\ ((l + 1) + 1) - (k + 1) = (l + 1) - k
            /\ (l + 1) - k \in 1 .. l
        BY <2>2
      <4>2. z[(l + 1) - k] = s[(l + 1) - k]
        BY <2>1, <2>8, <4>1 DEF Longer
      <4> QED  BY <2>4, <2>6, <4>1, <4>2
    <3> QED  BY <2>4, <2>6, <2>7, <3>1 DEF Shifted
  <2>9. CASE Shifted(s, z)
    <3>1. ASSUME NEW k \in 1 .. l PROVE b[k] = a[k]
      <4>1. /\ k \in 1 .. l + 1 /\ ((l + 1) + 1) - k = ((l + 1) - k) + 1
            /\ (l + 1) - k \in 1 .. l
        BY <2>2
      <4>2. z[((l + 1) - k) + 1] = s[(l + 1) - k]
        BY <2>1, <2>9, <4>1 DEF Shifted
      <4> QED  BY <2>4, <2>6, <4>1, <4>2
    <3> QED  BY <2>4, <2>6, <2>7, <3>1 DEF Longer
  <2> QED  BY <2>8, <2>9
<1> QED  BY <1>1, <1>2 DEF Directions

LEMMA ReachedGrows ==
  ASSUME NEW s, NEW z, Longer(s, z) \/ Shifted(s, z), NEW n, NEW back \in Seq(Nodes),
         Reached(s, n, back)
  PROVE  Reached(z, n, back)
<1>1. Len(s) \in Nat /\ Len(z) = Len(s) + 1 /\ Len(back) \in Nat
  BY LenProperties DEF Longer, Shifted
<1>2. PICK a, b \in 1 .. Len(s) :
        /\ a <= b /\ s[b] = n /\ Len(back) = b - a
        /\ \A k \in 1 .. Len(back) : back[k] = s[a + k - 1]
  BY DEF Reached
<1>3. CASE Longer(s, z)
  <2>1. a \in 1 .. Len(z) /\ b \in 1 .. Len(z) /\ z[b] = n
    BY <1>1, <1>2, <1>3 DEF Longer
  <2>2. ASSUME NEW k \in 1 .. Len(back) PROVE back[k] = z[a + k - 1]
    <3>1. a + k - 1 \in 1 .. Len(s)
      BY <1>1, <1>2
    <3> QED  BY <1>2, <1>3, <3>1 DEF Longer
  <2> QED  BY <1>2, <2>1, <2>2 DEF Reached
<1>4. CASE Shifted(s, z)
  <2>1. PICK c, d \in 1 .. Len(z) : c = a + 1 /\ d = b + 1
    BY <1>1, <1>2
  <2>2. c <= d /\ z[d] = n /\ Len(back) = d - c
    BY <1>1, <1>2, <1>4, <2>1 DEF Shifted
  <2>3. ASSUME NEW k \in 1 .. Len(back) PROVE back[k] = z[c + k - 1]
    <3>1. a + k - 1 \in 1 .. Len(s) /\ c + k - 1 = (a + k - 1) + 1
      BY <1>1, <1>2, <2>1
    <3>2. z[(a + k - 1) + 1] = s[a + k - 1]
      BY <1>4, <3>1 DEF Shifted
    <3> QED  BY <1>2, <3>1, <3>2
  <2> QED  BY <2>1, <2>2, <2>3 DEF Reached
<1> QED  BY <1>3, <1>4

\* The iterator steps from n to the next node.
LEMMA ReachedNext ==
  ASSUME NEW s \in Seq(Nodes), NEW n \in Nodes, NEW back \in Seq(Nodes), Reached(s, n, back),
         NEW next, next # NULL,
         \A k \in 1 .. Len(s) : s[k] = n => next = IF k = Len(s) THEN NULL ELSE s[k + 1]
  PROVE  Reached(s, next, Append(back, n))
<1>1. Len(s) \in Nat /\ Len(back) \in Nat
  BY LenProperties
<1>2. PICK a, b \in 1 .. Len(s) :
        /\ a <= b /\ s[b] = n /\ Len(back) = b - a
        /\ \A k \in 1 .. Len(back) : back[k] = s[a + k - 1]
  BY DEF Reached
<1>3. b # Len(s) /\ next = s[b + 1]
  BY <1>2
<1>4. PICK d \in 1 .. Len(s) : d = b + 1
  BY <1>1, <1>3
<1>5. PICK c : c = Append(back, n)
  OBVIOUS
<1>6. /\ Len(c) = Len(back) + 1 /\ c[Len(back) + 1] = n
      /\ \A k \in 1 .. Len(back) : c[k] = back[k]
  BY <1>5, AppendProperties
<1>7. a <= d /\ s[d] = next /\ Len(c) = d - a
  BY <1>1, <1>2, <1>3, <1>4, <1>6
<1>8. ASSUME NEW k \in 1 .. Len(c) PROVE c[k] = s[a + k - 1]
  <2>1. CASE k \in 1 .. Len(back)
    BY <1>2, <1>6, <2>1
  <2>2. CASE k = Len(back) + 1
    <3>1. a + k - 1 = b
      BY <1>1, <1>2, <2>2
    <3> QED  BY <1>2, <1>6, <2>2, <3>1
  <2> QED  BY <1>1, <1>6, <2>1, <2>2
<1> QED  BY <1>5, <1>7, <1>8 DEF Reached

-----------------------------------------------------------------------------
\* A step of the list, seen as one of the deque: from s to z.
DequeStep(s, z) ==
    \/ \E n \in Nodes : /\ \A k \in 1 .. Len(s) : s[k] # n
                        /\ z = Append(s, n) \/ z = <<n>> \o s
                        /\ result' = n
    \/ s # <<>> /\ z = SubSeq(s, 1, Len(s) - 1) /\ result' = s[Len(s)]
    \/ s # <<>> /\ z = Tail(s) /\ result' = Head(s)
    \/ (\E k \in 1 .. Len(s) : z = Without(s, k)) /\ result' = result
    \/ z = <<>> /\ result' = result
    \/ z = s /\ result' \in Nodes \cup {NULL}

LEMMA DequeStepIs ==
  ASSUME DequeStep(Walk("LIST_HEAD"), Walk("LIST_HEAD")')
  PROVE  [AsDeque!DNext]_(AsDeque!dvars)
<1>1. PICK s : s = Walk("LIST_HEAD")
  OBVIOUS
<1>2. PICK z : z = Walk("LIST_HEAD")'
  OBVIOUS
<1>3. DequeStep(s, z)
  BY <1>1, <1>2
<1>4. CASE \E n \in Nodes : /\ \A k \in 1 .. Len(s) : s[k] # n
                            /\ z = Append(s, n) \/ z = <<n>> \o s
                            /\ result' = n
  <2>1. \E n \in Nodes : AsDeque!RPush(n) \/ AsDeque!LPush(n)
    BY <1>1, <1>2, <1>4 DEF AsDeque!RPush, AsDeque!LPush, AsDeque!Listed
  <2> QED  BY <2>1 DEF AsDeque!DNext
<1>5. CASE s # <<>> /\ z = SubSeq(s, 1, Len(s) - 1) /\ result' = s[Len(s)]
  BY <1>1, <1>2, <1>5 DEF AsDeque!DNext, AsDeque!RPop
<1>6. CASE s # <<>> /\ z = Tail(s) /\ result' = Head(s)
  BY <1>1, <1>2, <1>6 DEF AsDeque!DNext, AsDeque!LPop
<1>7. CASE (\E k \in 1 .. Len(s) : z = Without(s, k)) /\ result' = result
  <2>1. \E k \in 1 .. Len(s) : AsDeque!Remove(k)
    BY <1>1, <1>2, <1>7 DEF AsDeque!Remove, Without
  <2> QED  BY <1>1, <2>1 DEF AsDeque!DNext
<1>8. CASE z = <<>> /\ result' = result
  BY <1>2, <1>8 DEF AsDeque!DNext, AsDeque!Clear
<1>9. CASE z = s /\ result' \in Nodes \cup {NULL}
  BY <1>1, <1>2, <1>9 DEF AsDeque!DNext, AsDeque!Read
<1> QED  BY <1>3, <1>4, <1>5, <1>6, <1>7, <1>8, <1>9 DEF DequeStep

LEMMA StepsTo ==
  ASSUME TypeOK', NEW z, NextIs(z), DequeStep(Walk("LIST_HEAD"), z),
         it' # NULL /\ it'.next # NULL /\ ~disturbed' =>
           Reached(View(z, it'.direction), it'.next, passed')
  PROVE  ListInv' /\ [AsDeque!DNext]_(AsDeque!dvars)
<1>1. ListInv' /\ Walk("LIST_HEAD")' = z
  BY NextList
<1>2. DequeStep(Walk("LIST_HEAD"), Walk("LIST_HEAD")')
  BY <1>1
<1> QED  BY <1>1, <1>2, DequeStepIs

\* The list grows under a running iterator.
LEMMA IteratorKept ==
  ASSUME ListInv, NEW s, s = Walk("LIST_HEAD"),
         NEW z, z = s \/ Longer(s, z) \/ Shifted(s, z),
         UNCHANGED <<it, passed, disturbed>>
  PROVE  it' # NULL /\ it'.next # NULL /\ ~disturbed' =>
           Reached(View(z, it'.direction), it'.next, passed')
<1> SUFFICES ASSUME it # NULL, it.next # NULL, ~disturbed
             PROVE  Reached(View(z, it.direction), it.next, passed)
  OBVIOUS
<1>1. Reached(View(s, it.direction), it.next, passed)
  BY ListIs
<1>2. it.direction \in Directions /\ passed \in Seq(Nodes)
  BY DEF ListInv, TypeOK
<1>3. CASE z = s
  BY <1>1, <1>3
<1>4. CASE Longer(s, z) \/ Shifted(s, z)
  <2>1. PICK way \in Directions : way = it.direction
    BY <1>2
  <2>2. \/ Longer(View(s, way), View(z, way))
        \/ Shifted(View(s, way), View(z, way))
    BY <1>4, GrownView
  <2>3. PICK n : n = it.next
    OBVIOUS
  <2>4. Reached(View(s, way), n, passed)
    BY <1>1, <2>1, <2>3
  <2>5. Reached(View(z, way), n, passed)
    BY <1>2, <2>2, <2>4, ReachedGrows
  <2> QED  BY <2>1, <2>3, <2>5
<1> QED  BY <1>3, <1>4

\* A node is on the list where the walk meets it.
LEMMA OnListIs ==
  ASSUME ListInv, NEW s, s = Walk("LIST_HEAD")
  PROVE  OnList = {s[k] : k \in 1 .. Len(s)} /\ OnList \subseteq allocated
<1>1. Len(s) = len /\ Chained(s, node, head, tail, allocated)
  BY ListIs
<1>2. \A k \in 1 .. Len(s) : s[k] \in allocated
  BY <1>1, ChainedSeq
<1> QED  BY <1>1, <1>2 DEF OnList

-----------------------------------------------------------------------------
\* What each call does to the list.
NodeSet == [prev : Nodes \cup {NULL}, next : Nodes \cup {NULL}, val : Vals \cup {NULL}]

\* The records that a call leaves have the fields of nodes.
LEMMA TypeParts ==
  ASSUME ListInv
  PROVE  /\ node \in [Nodes -> NodeSet] /\ allocated \subseteq Nodes /\ len \in Nat
         /\ it \in [next : Nodes \cup {NULL}, direction : Directions] \cup {NULL}
         /\ result \in Nodes \cup {NULL} /\ passed \in Seq(Nodes) /\ disturbed \in BOOLEAN
         /\ head \in Nodes \cup {NULL} /\ tail \in Nodes \cup {NULL}
<1>1. TypeOK
  BY DEF ListInv
<1>2. PICK s : s = Walk("LIST_HEAD")
  OBVIOUS
<1>3. Chained(s, node, head, tail, allocated) /\ Len(s) = len
  BY <1>2, ListIs
<1>4. Len(s) \in Nat /\ \A k \in 1 .. Len(s) : s[k] \in Nodes
  BY <1>1, <1>3, ChainedSeq DEF TypeOK
<1>5. head \in Nodes \cup {NULL} /\ tail \in Nodes \cup {NULL}
  <2>1. Len(s) # 0 => 1 \in 1 .. Len(s) /\ Len(s) \in 1 .. Len(s)
    BY <1>4
  <2> QED  BY <1>3, <1>4, <2>1 DEF Chained
<1> QED  BY <1>1, <1>5 DEF TypeOK, NodeSet

LEMMA RPushStep ==
  ASSUME ListInv, NEW n \in Nodes, list_rpush(n)
  PROVE  ListInv' /\ [AsDeque!DNext]_(AsDeque!dvars)
<1>1. PICK s : s = Walk("LIST_HEAD")
  OBVIOUS
<1>2. Chained(s, node, head, tail, allocated) /\ Len(s) = len
  BY <1>1, ListIs
<1>3. n \in allocated /\ \A k \in 1 .. Len(s) : s[k] # n
  BY <1>1, OnListIs DEF list_rpush
<1>4. s \in Seq(allocated) /\ s \in Seq(Nodes) /\ Len(s) \in Nat
  BY <1>2, ChainedSeq, TypeParts
<1>5. Len(s) # 0 => tail = s[Len(s)] /\ tail \in Nodes /\ tail # n
  <2>1. Len(s) # 0 => Len(s) \in 1 .. Len(s)
    BY <1>4
  <2> QED  BY <1>2, <1>3, <1>4, <2>1 DEF Chained
<1>6. node' \in [Nodes -> NodeSet] /\ RPushed(node, node', n, tail, allocated)
  <2>1. CASE len # 0
    <3>1. node' = [node EXCEPT ![n].prev = tail, ![n].next = NULL, ![tail].next = n]
      BY <2>1 DEF list_rpush, RPushLinks
    <3>2. tail \in Nodes /\ tail # n
      BY <1>2, <1>5, <2>1
    <3>3. node' \in [Nodes -> NodeSet]
      BY <3>1, <3>2, TypeParts DEF NodeSet
    <3>4. RPushed(node, node', n, tail, allocated)
      BY <3>1, <3>2, TypeParts DEF RPushed, NodeSet
    <3> QED  BY <3>3, <3>4
  <2>2. CASE len = 0
    <3>1. node' = [node EXCEPT ![n].prev = NULL, ![n].next = NULL]
      BY <2>2 DEF list_rpush, RPushLinks
    <3>2. tail = NULL
      BY <1>2, <2>2 DEF Chained
    <3>3. \A m \in allocated : m # NULL
      BY TypeParts, NullAssumption
    <3> QED  BY <3>1, <3>2, <3>3, TypeParts DEF RPushed, NodeSet
  <2> QED  BY <2>1, <2>2
<1>7. /\ head' = IF Len(s) = 0 THEN n ELSE head
      /\ tail' = n /\ len' = len + 1 /\ allocated' = allocated /\ result' = n
      /\ UNCHANGED <<it, passed, disturbed>>
  BY <1>2 DEF list_rpush, RPushLinks
<1>8. PICK z : z = Append(s, n)
  OBVIOUS
<1>9. /\ z \in Seq(Nodes) /\ Len(z) = Len(s) + 1
      /\ \A k \in 1 .. Len(s) : z[k] = s[k]
  BY <1>4, <1>8, AppendProperties
<1>10. Chained(z, node', head', tail', allocated)
  <2>1. allocated \subseteq Nodes
    BY TypeParts
  <2> QED  BY <1>2, <1>3, <1>6, <1>7, <1>8, <2>1, RPushChain
<1>11. NextIs(z)
  BY <1>2, <1>7, <1>9, <1>10 DEF NextIs
<1>12. TypeOK'
  BY <1>6, <1>7, TypeParts DEF TypeOK, NodeSet
<1>13. DequeStep(s, z)
  BY <1>3, <1>7, <1>8 DEF DequeStep
<1>14. Longer(s, z)
  BY <1>4, <1>9 DEF Longer
<1> QED  BY <1>1, <1>7, <1>11, <1>12, <1>13, <1>14, IteratorKept, StepsTo

LEMMA LPushStep ==
  ASSUME ListInv, NEW n \in Nodes, list_lpush(n)
  PROVE  ListInv' /\ [AsDeque!DNext]_(AsDeque!dvars)
<1>1. PICK s : s = Walk("LIST_HEAD")
  OBVIOUS
<1>2. Chained(s, node, head, tail, allocated) /\ Len(s) = len
  BY <1>1, ListIs
<1>3. n \in allocated /\ \A k \in 1 .. Len(s) : s[k] # n
  BY <1>1, OnListIs DEF list_lpush
<1>4. s \in Seq(allocated) /\ s \in Seq(Nodes) /\ Len(s) \in Nat
  BY <1>2, ChainedSeq, TypeParts
<1>5. Len(s) # 0 => head = s[1] /\ head \in Nodes /\ head # n
  <2>1. Len(s) # 0 => 1 \in 1 .. Len(s)
    BY <1>4
  <2> QED  BY <1>2, <1>3, <1>4, <2>1 DEF Chained
<1>6. node' \in [Nodes -> NodeSet] /\ LPushed(node, node', n, head, allocated)
  <2>1. CASE len # 0
    <3>1. node' = [node EXCEPT ![n].next = head, ![n].prev = NULL, ![head].prev = n]
      BY <2>1 DEF list_lpush, LPushLinks
    <3> QED  BY <1>2, <1>5, <2>1, <3>1, TypeParts DEF LPushed, NodeSet
  <2>2. CASE len = 0
    <3>1. node' = [node EXCEPT ![n].prev = NULL, ![n].next = NULL]
      BY <2>2 DEF list_lpush, LPushLinks
    <3>2. head = NULL
      BY <1>2, <2>2 DEF Chained
    <3>3. \A m \in allocated : m # NULL
      BY TypeParts, NullAssumption
    <3> QED  BY <3>1, <3>2, <3>3, TypeParts DEF LPushed, NodeSet
  <2> QED  BY <2>1, <2>2
<1>7. /\ tail' = IF Len(s) = 0 THEN n ELSE tail
      /\ head' = n /\ len' = len + 1 /\ allocated' = allocated /\ result' = n
      /\ UNCHANGED <<it, passed, disturbed>>
  BY <1>2 DEF list_lpush, LPushLinks
<1>8. PICK z : z = <<n>> \o s
  OBVIOUS
<1>9. /\ z \in Seq(Nodes) /\ Len(z) = Len(s) + 1
      /\ \A k \in 1 .. Len(s) : z[k + 1] = s[k]
  <2>1. <<n>> \in Seq(Nodes) /\ Len(<<n>>) = 1
    OBVIOUS
  <2>2. /\ z \in Seq(Nodes) /\ Len(z) = 1 + Len(s)
        /\ \A i \in 1 .. 1 + Len(s) : z[i] = IF i <= 1 THEN <<n>>[i] ELSE s[i - 1]
    BY <1>4, <1>8, <2>1, ConcatProperties
  <2>3. ASSUME NEW k \in 1 .. Len(s) PROVE z[k + 1] = s[k]
    <3>1. k + 1 \in 1 .. 1 + Len(s) /\ ~(k + 1 <= 1) /\ (k + 1) - 1 = k
      BY <1>4
    <3> QED  BY <2>2, <3>1
  <2> QED  BY <1>4, <2>2, <2>3
<1>10. Chained(z, node', head', tail', allocated)
  <2>1. allocated \subseteq Nodes
    BY TypeParts
  <2> QED  BY <1>2, <1>3, <1>6, <1>7, <1>8, <2>1, LPushChain
<1>11. NextIs(z)
  BY <1>2, <1>7, <1>9, <1>10 DEF NextIs
<1>12. TypeOK'
  BY <1>6, <1>7, TypeParts DEF TypeOK, NodeSet
<1>13. DequeStep(s, z)
  BY <1>3, <1>7, <1>8 DEF DequeStep
<1>14. Shifted(s, z)
  BY <1>4, <1>9 DEF Shifted
<1> QED  BY <1>1, <1>7, <1>11, <1>12, <1>13, <1>14, IteratorKept, StepsTo

\* A node is taken out of the list.
LEMMA UnlinkStep ==
  ASSUME ListInv, NEW s, s = Walk("LIST_HEAD"), NEW k \in 1 .. Len(s), NEW n, n = s[k],
         TypeOK', Unlinked(node, node', n, allocated), allocated \ {n} \subseteq allocated',
         head' = IF node[n].prev = NULL THEN node[n].next ELSE head,
         tail' = IF node[n].next = NULL THEN node[n].prev ELSE tail,
         len' = len - 1, disturbed' = TRUE,
         NEW z, z = Without(s, k), DequeStep(s, z)
  PROVE  ListInv' /\ [AsDeque!DNext]_(AsDeque!dvars)
<1>1. Chained(s, node, head, tail, allocated) /\ Len(s) = len
  BY ListIs
<1>2. allocated \subseteq Nodes
  BY TypeParts
<1>3. Chained(z, node', head', tail', allocated')
  <2>1. AtMostFreed(allocated, n, allocated')
    BY DEF AtMostFreed
  <2>2. UnlinkedEnds(node, n, head, tail, head', tail')
    BY DEF UnlinkedEnds
  <2> QED  BY <1>1, <1>2, <2>1, <2>2, RemoveChain
<1>4. Len(z) = len'
  <2>1. s \in Seq(Nodes)
    BY <1>1, <1>2, ChainedSeq
  <2> QED  BY <1>1, <2>1, WithoutIs
<1>5. NextIs(z)
  BY <1>3, <1>4 DEF NextIs
<1> QED  BY <1>5, StepsTo

\* The neighbours of a node on the list.
LEMMA NeighboursAre ==
  ASSUME ListInv, NEW s, s = Walk("LIST_HEAD"), NEW k \in 1 .. Len(s)
  PROVE  /\ s \in Seq(Nodes) /\ Len(s) = len /\ s[k] \in allocated /\ s[k] \in Nodes
         /\ node[s[k]].prev = IF k = 1 THEN NULL ELSE s[k - 1]
         /\ node[s[k]].next = IF k = Len(s) THEN NULL ELSE s[k + 1]
         /\ k # 1 => node[s[k]].prev \in Nodes /\ node[s[k]].prev # s[k]
         /\ k # Len(s) => node[s[k]].next \in Nodes /\ node[s[k]].next # s[k]
<1>1. Chained(s, node, head, tail, allocated) /\ Len(s) = len
  BY ListIs
<1>2. allocated \subseteq Nodes
  BY TypeParts
<1>3. s \in Seq(Nodes) /\ Len(s) \in Nat /\ \A j \in 1 .. Len(s) : s[j] \in allocated
  BY <1>1, <1>2, ChainedSeq
<1>4. /\ node[s[k]].prev = IF k = 1 THEN NULL ELSE s[k - 1]
      /\ node[s[k]].next = IF k = Len(s) THEN NULL ELSE s[k + 1]
      /\ \A i, j \in 1 .. Len(s) : s[i] = s[j] => i = j
  BY <1>1 DEF Chained
<1>5. k # 1 => k - 1 \in 1 .. Len(s) /\ k - 1 # k
  BY <1>3
<1>6. k # Len(s) => k + 1 \in 1 .. Len(s) /\ k + 1 # k
  BY <1>3
<1> QED  BY <1>1, <1>2, <1>3, <1>4, <1>5, <1>6

LEMMA RPopStep ==
  ASSUME ListInv, list_rpop
  PROVE  ListInv' /\ [AsDeque!DNext]_(AsDeque!dvars)
<1>1. PICK s : s = Walk("LIST_HEAD")
  OBVIOUS
<1>2. Chained(s, node, head, tail, allocated) /\ Len(s) = len /\ len \in Nat /\ len # 0
  BY <1>1, ListIs, TypeParts DEF list_rpop
<1>3. PICK k \in 1 .. Len(s) : k = len
  BY <1>2
<1>4. PICK n \in Nodes : n = s[k]
  BY <1>1, NeighboursAre
<1>5. tail = n /\ head = s[1]
  BY <1>2, <1>3, <1>4 DEF Chained
<1>6. /\ node[n].next = NULL
      /\ node[n].prev = IF k = 1 THEN NULL ELSE s[k - 1]
      /\ k # 1 => node[n].prev \in Nodes /\ node[n].prev # n
  BY <1>1, <1>2, <1>3, <1>4, NeighboursAre
<1>7. \A m \in allocated : m \in Nodes /\ m # NULL
  BY TypeParts, NullAssumption
<1>8. /\ node' \in [Nodes -> NodeSet] /\ Unlinked(node, node', n, allocated)
      /\ head' = IF node[n].prev = NULL THEN node[n].next ELSE head
      /\ tail' = IF node[n].next = NULL THEN node[n].prev ELSE tail
  <2>1. CASE k # 1
    <3>1. PICK p \in Nodes : p = node[n].prev /\ p # n
      BY <1>6, <2>1
    <3>2. /\ node' = [node EXCEPT ![p].next = NULL, ![n].next = NULL, ![n].prev = NULL]
          /\ tail' = p /\ head' = head
      BY <1>2, <1>3, <1>5, <2>1, <3>1 DEF list_rpop
    <3>3. node' \in [Nodes -> NodeSet]
      <4>1. PICK mid : mid = [node EXCEPT ![p].next = NULL]
        OBVIOUS
      <4>2. mid \in [Nodes -> NodeSet]
        BY <3>1, <4>1, TypeParts DEF NodeSet
      <4>3. node' = [mid EXCEPT ![n].next = NULL, ![n].prev = NULL]
        BY <3>2, <4>1
      <4> QED  BY <4>2, <4>3 DEF NodeSet
    <3>4. Unlinked(node, node', n, allocated)
      BY <1>6, <1>7, <3>1, <3>2, TypeParts DEF Unlinked, NodeSet
    <3> QED  BY <1>6, <3>1, <3>2, <3>3, <3>4, NullAssumption
  <2>2. CASE k = 1
    <3>1. /\ node' = [node EXCEPT ![n].next = NULL, ![n].prev = NULL]
          /\ tail' = NULL /\ head' = NULL
      BY <1>2, <1>3, <1>5, <2>2 DEF list_rpop
    <3>2. node' \in [Nodes -> NodeSet]
      BY <3>1, TypeParts DEF NodeSet
    <3>3. Unlinked(node, node', n, allocated)
      BY <1>6, <1>7, <2>2, <3>1, TypeParts DEF Unlinked, NodeSet
    <3> QED  BY <1>6, <2>2, <3>1, <3>2, <3>3
  <2> QED  BY <2>1, <2>2
<1>9. /\ len' = len - 1 /\ disturbed' = TRUE /\ allocated' = allocated /\ result' = n
      /\ UNCHANGED <<it, passed>>
  BY <1>5 DEF list_rpop, Detach
<1>10. TypeOK'
  <2>1. /\ head' \in Nodes \cup {NULL} /\ tail' \in Nodes \cup {NULL}
        /\ len - 1 \in Nat
    BY <1>2, <1>6, <1>8, TypeParts
  <2> QED  BY <1>8, <1>9, <2>1, TypeParts DEF TypeOK, NodeSet
<1>11. PICK z : z = Without(s, k)
  OBVIOUS
<1>12. DequeStep(s, z)
  <2>1. s \in Seq(Nodes) /\ s # <<>>
    BY <1>1, <1>3, NeighboursAre, EmptySeq
  <2>2. z = SubSeq(s, 1, Len(s) - 1)
    BY <1>2, <1>3, <1>11, <2>1, WithoutEnds
  <2>3. result' = s[Len(s)]
    BY <1>2, <1>3, <1>4, <1>9
  <2> QED  BY <2>1, <2>2, <2>3 DEF DequeStep
<1> QED  BY <1>1, <1>4, <1>8, <1>9, <1>10, <1>11, <1>12, UnlinkStep

LEMMA LPopStep ==
  ASSUME ListInv, list_lpop
  PROVE  ListInv' /\ [AsDeque!DNext]_(AsDeque!dvars)
<1>1. PICK s : s = Walk("LIST_HEAD")
  OBVIOUS
<1>2. Chained(s, node, head, tail, allocated) /\ Len(s) = len /\ len \in Nat /\ len # 0
  BY <1>1, ListIs, TypeParts DEF list_lpop
<1>3. PICK k \in 1 .. Len(s) : k = 1
  BY <1>2
<1>4. PICK n \in Nodes : n = s[k]
  BY <1>1, NeighboursAre
<1>5. head = n /\ tail = s[len]
  BY <1>2, <1>3, <1>4 DEF Chained
<1>6. /\ node[n].prev = NULL
      /\ node[n].next = IF len = 1 THEN NULL ELSE s[k + 1]
      /\ len # 1 => node[n].next \in Nodes /\ node[n].next # n
  BY <1>1, <1>2, <1>3, <1>4, NeighboursAre
<1>7. \A m \in allocated : m \in Nodes /\ m # NULL
  BY TypeParts, NullAssumption
<1>8. /\ node' \in [Nodes -> NodeSet] /\ Unlinked(node, node', n, allocated)
      /\ head' = IF node[n].prev = NULL THEN node[n].next ELSE head
      /\ tail' = IF node[n].next = NULL THEN node[n].prev ELSE tail
  <2>1. CASE len # 1
    <3>1. PICK p \in Nodes : p = node[n].next /\ p # n
      BY <1>6, <2>1
    <3>2. /\ node' = [node EXCEPT ![p].prev = NULL, ![n].next = NULL, ![n].prev = NULL]
          /\ head' = p /\ tail' = tail
      BY <1>2, <1>5, <2>1, <3>1 DEF list_lpop
    <3>3. node' \in [Nodes -> NodeSet]
      <4>1. PICK mid : mid = [node EXCEPT ![p].prev = NULL]
        OBVIOUS
      <4>2. mid \in [Nodes -> NodeSet]
        BY <3>1, <4>1, TypeParts DEF NodeSet
      <4>3. node' = [mid EXCEPT ![n].next = NULL, ![n].prev = NULL]
        BY <3>2, <4>1
      <4> QED  BY <4>2, <4>3 DEF NodeSet
    <3>4. Unlinked(node, node', n, allocated)
      BY <1>6, <1>7, <3>1, <3>2, TypeParts DEF Unlinked, NodeSet
    <3> QED  BY <1>6, <3>1, <3>2, <3>3, <3>4, NullAssumption
  <2>2. CASE len = 1
    <3>1. /\ node' = [node EXCEPT ![n].next = NULL, ![n].prev = NULL]
          /\ tail' = NULL /\ head' = NULL
      BY <1>5, <2>2 DEF list_lpop
    <3>2. node' \in [Nodes -> NodeSet]
      BY <3>1, TypeParts DEF NodeSet
    <3>3. Unlinked(node, node', n, allocated)
      BY <1>6, <1>7, <2>2, <3>1, TypeParts DEF Unlinked, NodeSet
    <3> QED  BY <1>6, <2>2, <3>1, <3>2, <3>3
  <2> QED  BY <2>1, <2>2
<1>9. /\ len' = len - 1 /\ disturbed' = TRUE /\ allocated' = allocated /\ result' = n
      /\ UNCHANGED <<it, passed>>
  BY <1>5 DEF list_lpop, Detach
<1>10. TypeOK'
  <2>1. /\ head' \in Nodes \cup {NULL} /\ tail' \in Nodes \cup {NULL}
        /\ len - 1 \in Nat
    BY <1>2, <1>6, <1>8, TypeParts
  <2> QED  BY <1>8, <1>9, <2>1, TypeParts DEF TypeOK, NodeSet
<1>11. PICK z : z = Without(s, k)
  OBVIOUS
<1>12. DequeStep(s, z)
  <2>1. s \in Seq(Nodes) /\ s # <<>>
    BY <1>1, <1>3, NeighboursAre, EmptySeq
  <2>2. z = Tail(s)
    BY <1>3, <1>11, <2>1, WithoutEnds
  <2>3. Head(s) = s[1]
    BY <2>1
  <2>4. result' = Head(s)
    BY <1>3, <1>4, <1>9, <2>3
  <2> QED  BY <2>1, <2>2, <2>4 DEF DequeStep
<1> QED  BY <1>1, <1>4, <1>8, <1>9, <1>10, <1>11, <1>12, UnlinkStep

LEMMA RemoveStep ==
  ASSUME ListInv, NEW n \in Nodes, list_remove(n)
  PROVE  ListInv' /\ [AsDeque!DNext]_(AsDeque!dvars)
<1>1. PICK s : s = Walk("LIST_HEAD")
  OBVIOUS
<1>2. PICK k \in 1 .. Len(s) : n = s[k]
  BY <1>1, OnListIs DEF list_remove
<1>3. /\ Len(s) = len /\ s \in Seq(Nodes) /\ len \in Nat /\ n \in allocated
      /\ node[n].prev \in Nodes \cup {NULL} /\ node[n].next \in Nodes \cup {NULL}
  BY <1>1, <1>2, NeighboursAre, TypeParts DEF NodeSet
<1>4. /\ node' = [m \in Nodes |->
                    IF m = n THEN Blank
                    ELSE [node[m] EXCEPT !.next = IF m = node[n].prev THEN node[n].next ELSE @,
                                         !.prev = IF m = node[n].next THEN node[n].prev ELSE @]]
      /\ head' = IF node[n].prev = NULL THEN node[n].next ELSE head
      /\ tail' = IF node[n].next = NULL THEN node[n].prev ELSE tail
      /\ allocated' = allocated \ {n} /\ len' = len - 1 /\ disturbed' = TRUE
      /\ UNCHANGED <<it, result, passed>>
  BY DEF list_remove
<1>5. node' \in [Nodes -> NodeSet]
  <2> SUFFICES ASSUME NEW m \in Nodes PROVE node'[m] \in NodeSet
    BY <1>4
  <2>1. CASE m = n
    BY <1>4, <2>1 DEF NodeSet, Blank
  <2>2. CASE m # n
    <3>1. node'[m] = [node[m] EXCEPT !.next = IF m = node[n].prev THEN node[n].next ELSE @,
                                     !.prev = IF m = node[n].next THEN node[n].prev ELSE @]
      BY <1>4, <2>2
    <3>2. node[m] \in NodeSet
      BY TypeParts
    <3> QED  BY <1>3, <3>1, <3>2 DEF NodeSet
  <2> QED  BY <2>1, <2>2
<1>6. Unlinked(node, node', n, allocated)
  <2> SUFFICES ASSUME NEW m \in allocated, m # n
               PROVE  /\ node'[m].next = IF m = node[n].prev THEN node[n].next ELSE node[m].next
                      /\ node'[m].prev = IF m = node[n].next THEN node[n].prev ELSE node[m].prev
    BY DEF Unlinked
  <2>1. m \in Nodes /\ node[m] \in NodeSet
    BY TypeParts
  <2>2. node'[m] = [node[m] EXCEPT !.next = IF m = node[n].prev THEN node[n].next ELSE @,
                                   !.prev = IF m = node[n].next THEN node[n].prev ELSE @]
    BY <1>4, <2>1
  <2> QED  BY <2>1, <2>2 DEF NodeSet
<1>7. TypeOK'
  <2>1. len - 1 \in Nat
    BY <1>2, <1>3
  <2> QED  BY <1>4, <1>5, <2>1, TypeParts DEF TypeOK, NodeSet
<1>8. PICK z : z = Without(s, k)
  OBVIOUS
<1>9. DequeStep(s, z)
  BY <1>2, <1>4, <1>8 DEF DequeStep
<1>10. allocated \ {n} \subseteq allocated'
  BY <1>4
<1> QED  BY <1>1, <1>2, <1>4, <1>6, <1>7, <1>8, <1>9, <1>10, UnlinkStep

LEMMA DestroyStep ==
  ASSUME ListInv, list_destroy
  PROVE  ListInv' /\ [AsDeque!DNext]_(AsDeque!dvars)
<1>1. PICK z : z = <<>>
  OBVIOUS
<1>2. /\ head' = NULL /\ tail' = NULL /\ len' = 0 /\ disturbed' = TRUE
      /\ node' = [n \in Nodes |-> IF n \in OnList THEN Blank ELSE node[n]]
      /\ allocated' = allocated \ OnList
      /\ UNCHANGED <<it, result, passed>>
  BY DEF list_destroy
<1>3. NextIs(z)
  BY <1>1, <1>2, EmptyChain DEF NextIs
<1>4. node' \in [Nodes -> NodeSet]
  <2>1. Blank \in NodeSet
    BY DEF Blank, NodeSet
  <2> QED  BY <1>2, <2>1, TypeParts
<1>5. TypeOK'
  BY <1>2, <1>4, TypeParts DEF TypeOK, NodeSet
<1>6. DequeStep(Walk("LIST_HEAD"), z)
  BY <1>1, <1>2 DEF DequeStep
<1> QED  BY <1>2, <1>3, <1>5, <1>6, StepsTo

\* The list stays as it is, whatever is done with other nodes.
LEMMA SameStep ==
  ASSUME ListInv, NEW s, s = Walk("LIST_HEAD"), TypeOK', UNCHANGED <<head, tail, len>>,
         \A k \in 1 .. Len(s) : node'[s[k]] = node[s[k]] /\ s[k] \in allocated',
         it' # NULL /\ it'.next # NULL /\ ~disturbed' =>
           Reached(View(s, it'.direction), it'.next, passed')
  PROVE  ListInv' /\ [AsDeque!DNext]_(AsDeque!dvars)
<1>1. Chained(s, node, head, tail, allocated) /\ Len(s) = len
  BY ListIs
<1>2. Chained(s, node', head, tail, allocated')
  BY <1>1, ChainStays
<1>3. NextIs(s)
  BY <1>1, <1>2 DEF NextIs
<1>4. DequeStep(s, s)
  BY DEF DequeStep, TypeOK
<1> QED  BY <1>3, <1>4, StepsTo

LEMMA NodeNewStep ==
  ASSUME ListInv, NEW n \in Nodes, NEW v \in Vals, list_node_new(n, v)
  PROVE  ListInv' /\ [AsDeque!DNext]_(AsDeque!dvars)
<1>1. PICK s : s = Walk("LIST_HEAD")
  OBVIOUS
<1>2. /\ node' = [node EXCEPT ![n] = [prev |-> NULL, next |-> NULL, val |-> v]]
      /\ n \notin allocated /\ allocated' = allocated \cup {n} /\ result' = n
      /\ UNCHANGED <<head, tail, len, it, passed, disturbed>>
  BY DEF list_node_new
<1>3. \A k \in 1 .. Len(s) : s[k] \in allocated
  BY <1>1, OnListIs
<1>4. \A k \in 1 .. Len(s) : node'[s[k]] = node[s[k]] /\ s[k] \in allocated'
  BY <1>2, <1>3, TypeParts
<1>5. node' \in [Nodes -> NodeSet]
  BY <1>2, TypeParts DEF NodeSet
<1>6. TypeOK'
  BY <1>2, <1>5, TypeParts DEF TypeOK, NodeSet
<1>7. it' # NULL /\ it'.next # NULL /\ ~disturbed' =>
        Reached(View(s, it'.direction), it'.next, passed')
  BY <1>1, <1>2, IteratorKept
<1> QED  BY <1>1, <1>2, <1>4, <1>6, <1>7, SameStep

LEMMA FreeNodeStep ==
  ASSUME ListInv, NEW n \in Nodes, FreeNode(n)
  PROVE  ListInv' /\ [AsDeque!DNext]_(AsDeque!dvars)
<1>1. PICK s : s = Walk("LIST_HEAD")
  OBVIOUS
<1>2. /\ node' = [node EXCEPT ![n] = Blank]
      /\ n \notin OnList /\ allocated' = allocated \ {n}
      /\ UNCHANGED <<head, tail, len, it, result, passed, disturbed>>
  BY DEF FreeNode
<1>3. \A k \in 1 .. Len(s) : s[k] \in allocated /\ s[k] # n
  BY <1>1, <1>2, OnListIs
<1>4. \A k \in 1 .. Len(s) : node'[s[k]] = node[s[k]] /\ s[k] \in allocated'
  BY <1>2, <1>3, TypeParts
<1>5. node' \in [Nodes -> NodeSet]
  BY <1>2, TypeParts DEF NodeSet, Blank
<1>6. TypeOK'
  BY <1>2, <1>5, TypeParts DEF TypeOK, NodeSet
<1>7. it' # NULL /\ it'.next # NULL /\ ~disturbed' =>
        Reached(View(s, it'.direction), it'.next, passed')
  BY <1>1, <1>2, IteratorKept
<1> QED  BY <1>1, <1>2, <1>4, <1>6, <1>7, SameStep

\* A call that only answers.
LEMMA AnswerStep ==
  ASSUME ListInv, result' \in Nodes \cup {NULL},
         UNCHANGED <<node, allocated, head, tail, len, it, passed, disturbed>>
  PROVE  ListInv' /\ [AsDeque!DNext]_(AsDeque!dvars)
<1>1. PICK s : s = Walk("LIST_HEAD")
  OBVIOUS
<1>2. \A k \in 1 .. Len(s) : s[k] \in allocated
  BY <1>1, OnListIs
<1>3. TypeOK'
  BY TypeParts DEF TypeOK, NodeSet
<1>4. it' # NULL /\ it'.next # NULL /\ ~disturbed' =>
        Reached(View(s, it'.direction), it'.next, passed')
  BY <1>1, IteratorKept
<1> QED  BY <1>1, <1>2, <1>3, <1>4, SameStep

\* What list_at and list_find return is on the list, or NULL.
LEMMA ListAtIs ==
  ASSUME ListInv, NEW s, s = Walk("LIST_HEAD"), NEW index \in Int
  PROVE  /\ s \in Seq(Nodes) /\ Len(s) = len /\ len \in Nat
         /\ ListAt(index) = IF index \in 0 .. len - 1 THEN s[index + 1]
                            ELSE IF index \in -len .. -1 THEN s[len + index + 1]
                            ELSE NULL
<1>1. PICK l : l = len
  OBVIOUS
<1>2. s \in Seq(Nodes) /\ Len(s) = l /\ l \in Nat
  BY <1>1, ListIs, ChainedSeq, TypeParts
<1>3. Walk("LIST_HEAD") = s /\ Walk("LIST_TAIL") = Mirror(s)
  BY ListIs DEF View, Directions
<1>4. CASE index < 0
  <2>1. ListAt(index) = IF -index - 1 < l THEN Mirror(s)[(-index - 1) + 1] ELSE NULL
    BY <1>1, <1>3, <1>4 DEF ListAt, Steps
  <2>2. -index - 1 < l <=> index \in -l .. -1
    BY <1>2, <1>4
  <2>3. ASSUME index \in -l .. -1 PROVE Mirror(s)[(-index - 1) + 1] = s[l + index + 1]
    <3>1. PICK k \in 1 .. l : k = (-index - 1) + 1
      BY <1>2, <2>3
    <3>2. Mirror(s)[k] = s[(Len(s) + 1) - k]
      BY <1>2, MirrorIs
    <3>3. (l + 1) - k = l + index + 1
      BY <1>2, <3>1
    <3> QED  BY <1>2, <3>1, <3>2, <3>3
  <2>4. index \notin 0 .. l - 1
    BY <1>4
  <2> QED  BY <1>1, <1>2, <2>1, <2>2, <2>3, <2>4
<1>5. CASE index >= 0
  <2>1. ListAt(index) = IF index < l THEN s[index + 1] ELSE NULL
    BY <1>1, <1>3, <1>5 DEF ListAt, Steps
  <2>2. (index < l <=> index \in 0 .. l - 1) /\ index \notin -l .. -1
    BY <1>2, <1>5
  <2> QED  BY <1>1, <1>2, <2>1, <2>2
<1> QED  BY <1>4, <1>5

Hits(s, v) == {k \in 1 .. Len(s) : node[s[k]].val = v}

LEMMA ListFindIs ==
  ASSUME ListInv, NEW s, s = Walk("LIST_HEAD"), NEW v
  PROVE  /\ s \in Seq(Nodes) /\ Len(s) = len
         /\ IF Hits(s, v) = {} THEN ListFind(v) = NULL
            ELSE \E k \in Hits(s, v) : s[k] = ListFind(v) /\ \A l \in Hits(s, v) : k <= l
<1>1. s \in Seq(Nodes) /\ Len(s) = len /\ len \in Nat
  BY ListIs, ChainedSeq, TypeParts
<1>2. PICK hits : hits = Hits(s, v)
  OBVIOUS
<1>3. ListFind(v) = IF hits = {} THEN NULL ELSE s[CHOOSE k \in hits : \A l \in hits : k <= l]
  BY <1>1, <1>2 DEF ListFind, Hits
<1>4. CASE hits = {}
  BY <1>1, <1>2, <1>3, <1>4
<1>5. CASE hits # {}
  <2>1. hits \in SUBSET Nat
    BY <1>1, <1>2 DEF Hits
  <2>2. \E k \in hits : \A l \in hits : k <= l
    BY <1>5, <2>1, LeastOf
  <2>3. PICK k : k = CHOOSE j \in hits : \A l \in hits : j <= l
    OBVIOUS
  <2>4. k \in hits /\ \A l \in hits : k <= l
    BY <2>2, <2>3
  <2>5. ListFind(v) = s[k]
    BY <1>3, <1>5, <2>3
  <2> QED  BY <1>1, <1>2, <1>5, <2>4, <2>5
<1> QED  BY <1>4, <1>5

LEMMA AtStep ==
  ASSUME ListInv, NEW index \in Indices, list_at(index)
  PROVE  ListInv' /\ [AsDeque!DNext]_(AsDeque!dvars)
<1>1. PICK s : s = Walk("LIST_HEAD")
  OBVIOUS
<1>2. index \in Int
  BY TypeParts DEF Indices
<1>3. /\ s \in Seq(Nodes) /\ Len(s) = len /\ len \in Nat
      /\ ListAt(index) = IF index \in 0 .. len - 1 THEN s[index + 1]
                         ELSE IF index \in -len .. -1 THEN s[len + index + 1]
                         ELSE NULL
  BY <1>1, <1>2, ListAtIs
<1>4. \A k \in 1 .. len : s[k] \in Nodes
  BY <1>3, LenProperties
<1>5. ListAt(index) \in Nodes \cup {NULL}
  <2>1. index \in 0 .. len - 1 => index + 1 \in 1 .. len
    BY <1>2, <1>3
  <2>2. index \in -len .. -1 => len + index + 1 \in 1 .. len
    BY <1>2, <1>3
  <2> QED  BY <1>3, <1>4, <2>1, <2>2
<1> QED  BY <1>5, AnswerStep DEF list_at

LEMMA FindStep ==
  ASSUME ListInv, NEW v \in Vals, list_find(v)
  PROVE  ListInv' /\ [AsDeque!DNext]_(AsDeque!dvars)
<1>1. PICK s : s = Walk("LIST_HEAD")
  OBVIOUS
<1>2. /\ s \in Seq(Nodes)
      /\ IF Hits(s, v) = {} THEN ListFind(v) = NULL
         ELSE \E k \in Hits(s, v) : s[k] = ListFind(v)
  BY <1>1, ListFindIs
<1>3. \A k \in Hits(s, v) : s[k] \in Nodes
  BY <1>2, LenProperties DEF Hits
<1>4. ListFind(v) \in Nodes \cup {NULL}
  BY <1>2, <1>3
<1> QED  BY <1>4, AnswerStep DEF list_find

LEMMA IteratorNewStep ==
  ASSUME ListInv, NEW direction \in Directions, list_iterator_new(direction)
  PROVE  ListInv' /\ [AsDeque!DNext]_(AsDeque!dvars)
<1>1. PICK s : s = Walk("LIST_HEAD")
  OBVIOUS
<1>2. PICK v : v = View(s, direction)
  OBVIOUS
<1>3. PICK n : n = Start(direction)
  OBVIOUS
<1>4. /\ it' = [next |-> n, direction |-> direction]
      /\ passed' = <<>> /\ disturbed' = FALSE
      /\ UNCHANGED <<node, allocated, head, tail, len, result>>
  BY <1>3 DEF list_iterator_new
<1>5. Len(v) \in Nat /\ n = IF Len(v) = 0 THEN NULL ELSE v[1]
  <2>1. TypeOK /\ Chained(s, node, head, tail, allocated)
    BY <1>1, ListIs DEF ListInv
  <2> QED  BY <1>2, <1>3, <2>1, ViewAlong
<1>6. n # NULL => Reached(v, n, <<>>)
  <2> SUFFICES ASSUME n # NULL PROVE Reached(v, n, <<>>)
    OBVIOUS
  <2>1. PICK a \in 1 .. Len(v) : a = 1 /\ v[a] = n
    BY <1>5
  <2>2. a <= a /\ Len(<<>>) = a - a /\ 1 .. Len(<<>>) = {}
    BY <2>1
  <2> QED  BY <2>1, <2>2 DEF Reached
<1>7. TypeOK'
  <2>1. n \in Nodes \cup {NULL}
    BY <1>3, TypeParts DEF Start
  <2>2. it' \in [next : Nodes \cup {NULL}, direction : Directions]
    BY <1>4, <2>1
  <2>3. <<>> \in Seq(Nodes)
    OBVIOUS
  <2>4. passed' \in Seq(Nodes) /\ disturbed' \in BOOLEAN
    BY <1>4, <2>3
  <2>5. UNCHANGED <<node, allocated, len, result>>
    BY <1>4
  <2> QED  BY <2>2, <2>4, <2>5, TypeParts DEF TypeOK, NodeSet
<1>8. it' # NULL /\ it'.next # NULL /\ ~disturbed' =>
        Reached(View(s, it'.direction), it'.next, passed')
  BY <1>2, <1>4, <1>6
<1>9. \A k \in 1 .. Len(s) : node'[s[k]] = node[s[k]] /\ s[k] \in allocated'
  BY <1>1, <1>4, OnListIs
<1> QED  BY <1>1, <1>4, <1>7, <1>8, <1>9, SameStep

LEMMA IteratorNextStep ==
  ASSUME ListInv, list_iterator_next
  PROVE  ListInv' /\ [AsDeque!DNext]_(AsDeque!dvars)
<1>1. PICK s : s = Walk("LIST_HEAD")
  OBVIOUS
<1>2. it \in [next : Nodes \cup {NULL}, direction : Directions] /\ it # NULL
  BY TypeParts DEF list_iterator_next
<1>3. PICK way \in Directions : way = it.direction
  BY <1>2
<1>4. PICK n \in Nodes \cup {NULL} : n = it.next
  BY <1>2
<1>5. PICK next : next = Step(n, way)
  OBVIOUS
<1>6. /\ it' = [it EXCEPT !.next = next] /\ result' = n
      /\ passed' = IF n = NULL \/ disturbed THEN passed ELSE Append(passed, n)
      /\ UNCHANGED <<node, allocated, head, tail, len, disturbed>>
  BY <1>3, <1>4, <1>5 DEF list_iterator_next
<1>7. it'.next = next /\ it'.direction = way
  BY <1>2, <1>3, <1>6
<1>8. next \in Nodes \cup {NULL}
  BY <1>4, <1>5, TypeParts DEF Step, NodeSet
<1>9. TypeOK'
  <2>1. it' \in [next : Nodes \cup {NULL}, direction : Directions]
    BY <1>2, <1>6, <1>8
  <2>2. passed' \in Seq(Nodes)
    BY <1>4, <1>6, TypeParts, AppendProperties
  <2>3. result' \in Nodes \cup {NULL} /\ UNCHANGED <<node, allocated, len, disturbed>>
    BY <1>4, <1>6
  <2> QED  BY <2>1, <2>2, <2>3, TypeParts DEF TypeOK, NodeSet
<1>10. ASSUME next # NULL, ~disturbed PROVE Reached(View(s, way), next, passed')
  <2>1. PICK v : v = View(s, way)
    OBVIOUS
  <2>2. n # NULL /\ n \in Nodes
    BY <1>4, <1>5, <1>10 DEF Step
  <2>3. Reached(v, n, passed)
    BY <1>1, <1>2, <1>3, <1>4, <1>10, <2>1, <2>2, ListIs
  <2>4. /\ v \in Seq(Nodes)
        /\ \A k \in 1 .. Len(v) : Step(v[k], way) = IF k = Len(v) THEN NULL ELSE v[k + 1]
    <3>1. TypeOK /\ Chained(s, node, head, tail, allocated)
      BY <1>1, ListIs DEF ListInv
    <3> QED  BY <2>1, <3>1, ViewAlong
  <2>5. \A k \in 1 .. Len(v) : v[k] = n => next = IF k = Len(v) THEN NULL ELSE v[k + 1]
    BY <1>5, <2>4
  <2>6. passed \in Seq(Nodes)
    BY TypeParts
  <2>7. Reached(v, next, Append(passed, n))
    BY <1>10, <2>2, <2>3, <2>4, <2>5, <2>6, ReachedNext
  <2> QED  BY <1>6, <1>10, <2>1, <2>2, <2>7
<1>11. it' # NULL /\ it'.next # NULL /\ ~disturbed' =>
         Reached(View(s, it'.direction), it'.next, passed')
  BY <1>6, <1>7, <1>10
<1>12. \A k \in 1 .. Len(s) : node'[s[k]] = node[s[k]] /\ s[k] \in allocated'
  BY <1>1, <1>6, OnListIs
<1> QED  BY <1>1, <1>6, <1>9, <1>11, <1>12, SameStep

LEMMA IteratorDestroyStep ==
  ASSUME ListInv, list_iterator_destroy
  PROVE  ListInv' /\ [AsDeque!DNext]_(AsDeque!dvars)
<1>1. PICK s : s = Walk("LIST_HEAD")
  OBVIOUS
<1>2. /\ it' = NULL /\ passed' = <<>>
      /\ UNCHANGED <<node, allocated, head, tail, len, result, disturbed>>
  BY DEF list_iterator_destroy
<1>3. TypeOK'
  BY <1>2, TypeParts DEF TypeOK, NodeSet
<1>4. \A k \in 1 .. Len(s) : node'[s[k]] = node[s[k]] /\ s[k] \in allocated'
  BY <1>1, <1>2, OnListIs
<1> QED  BY <1>1, <1>2, <1>3, <1>4, SameStep

-----------------------------------------------------------------------------
LEMMA ListBegins ==
  ASSUME Init
  PROVE  ListInv /\ Walk("LIST_HEAD") = <<>>
<1>1. PICK s : s = <<>>
  OBVIOUS
<1>2. head = NULL /\ tail = NULL /\ len = 0 /\ it = NULL /\ allocated = {}
  BY DEF Init
<1>3. Chained(s, node, head, tail, allocated) /\ Len(s) = len
  BY <1>1, <1>2, EmptyChain
<1>4. Walk("LIST_HEAD") = s
  <2>1. WalkOf(node, head, len, "LIST_HEAD") = s
    BY <1>2, <1>3, ChainWalks
  <2> QED  BY <2>1, WalkIs DEF Start
<1>5. TypeOK
  <2>1. Blank \in NodeSet
    BY DEF Blank, NodeSet
  <2>2. node \in [Nodes -> NodeSet]
    BY <2>1 DEF Init
  <2>3. <<>> \in Seq(Nodes)
    OBVIOUS
  <2>4. allocated \subseteq Nodes /\ len \in Nat /\ it = NULL /\ result = NULL
        /\ passed \in Seq(Nodes) /\ disturbed \in BOOLEAN
    BY <2>3 DEF Init
  <2> QED  BY <2>2, <2>4 DEF TypeOK, NodeSet
<1> QED  BY <1>1, <1>2, <1>3, <1>4, <1>5 DEF ListInv

LEMMA ListSteps ==
  ASSUME ListInv, [Next]_vars
  PROVE  ListInv' /\ [AsDeque!DNext]_(AsDeque!dvars)
<1>1. ASSUME NEW n \in Nodes, NEW v \in Vals, list_node_new(n, v)
      PROVE  ListInv' /\ [AsDeque!DNext]_(AsDeque!dvars)
  BY <1>1, NodeNewStep
<1>2. ASSUME NEW n \in Nodes, list_rpush(n)
      PROVE  ListInv' /\ [AsDeque!DNext]_(AsDeque!dvars)
  BY <1>2, RPushStep
<1>3. ASSUME NEW n \in Nodes, list_lpush(n)
      PROVE  ListInv' /\ [AsDeque!DNext]_(AsDeque!dvars)
  BY <1>3, LPushStep
<1>4. ASSUME NEW n \in Nodes, list_remove(n)
      PROVE  ListInv' /\ [AsDeque!DNext]_(AsDeque!dvars)
  BY <1>4, RemoveStep
<1>5. ASSUME NEW n \in Nodes, FreeNode(n)
      PROVE  ListInv' /\ [AsDeque!DNext]_(AsDeque!dvars)
  BY <1>5, FreeNodeStep
<1>6. ASSUME PopNone PROVE ListInv' /\ [AsDeque!DNext]_(AsDeque!dvars)
  BY <1>6, AnswerStep DEF PopNone
<1>7. ASSUME list_rpop PROVE ListInv' /\ [AsDeque!DNext]_(AsDeque!dvars)
  BY <1>7, RPopStep
<1>8. ASSUME list_lpop PROVE ListInv' /\ [AsDeque!DNext]_(AsDeque!dvars)
  BY <1>8, LPopStep
<1>9. ASSUME list_destroy PROVE ListInv' /\ [AsDeque!DNext]_(AsDeque!dvars)
  BY <1>9, DestroyStep
<1>10. ASSUME NEW index \in Indices, list_at(index)
       PROVE  ListInv' /\ [AsDeque!DNext]_(AsDeque!dvars)
  BY <1>10, AtStep
<1>11. ASSUME NEW v \in Vals, list_find(v)
       PROVE  ListInv' /\ [AsDeque!DNext]_(AsDeque!dvars)
  BY <1>11, FindStep
<1>12. ASSUME NEW direction \in Directions, list_iterator_new(direction)
       PROVE  ListInv' /\ [AsDeque!DNext]_(AsDeque!dvars)
  BY <1>12, IteratorNewStep
<1>13. ASSUME list_iterator_next PROVE ListInv' /\ [AsDeque!DNext]_(AsDeque!dvars)
  BY <1>13, IteratorNextStep
<1>14. ASSUME list_iterator_destroy PROVE ListInv' /\ [AsDeque!DNext]_(AsDeque!dvars)
  BY <1>14, IteratorDestroyStep
<1>15. ASSUME UNCHANGED vars PROVE ListInv' /\ [AsDeque!DNext]_(AsDeque!dvars)
  <2>1. result' \in Nodes \cup {NULL}
        /\ UNCHANGED <<node, allocated, head, tail, len, it, passed, disturbed>>
    BY <1>15, TypeParts DEF vars
  <2> QED  BY <2>1, AnswerStep
<1> QED
  BY <1>1, <1>2, <1>3, <1>4, <1>5, <1>6, <1>7, <1>8, <1>9, <1>10, <1>11, <1>12,
     <1>13, <1>14, <1>15 DEF Next, ListCall

\* The links of the nodes are those of one sequence, in every state of
\* list.c: each node's prev and next are its neighbours, head and tail its
\* ends, and an iterator stands where what it returned leads.
THEOREM ListHolds == Spec => []ListInv
<1>1. Init => ListInv
  BY ListBegins
<1>2. ListInv /\ [Next]_vars => ListInv'
  BY ListSteps
<1> QED  BY <1>1, <1>2, PTL DEF Spec

-----------------------------------------------------------------------------
\* After any pushes, pops and removals of list.c both directions see the
\* same nodes, each of them once and on the heap, and both end in NULL.
THEOREM BothDirectionsAgree == Spec => []WellLinked
<1>1. ASSUME ListInv PROVE WellLinked
  <2>1. PICK s : s = Walk("LIST_HEAD")
    OBVIOUS
  <2>2. Chained(s, node, head, tail, allocated) /\ Len(s) = len /\ Walk("LIST_TAIL") = Mirror(s)
    BY <1>1, <2>1, ListIs DEF Directions, View
  <2>3. len \in Nat /\ \A k \in 1 .. len : s[k] \in allocated
    BY <1>1, <2>2, ChainedSeq, TypeParts
  <2>4. \A k, l \in 1 .. len : s[k] = s[l] => k = l
    BY <2>2 DEF Chained
  <2>5. len = 0 => head = NULL /\ tail = NULL
    BY <2>2 DEF Chained
  <2>6. ASSUME len > 0 PROVE node[tail].next = NULL /\ node[head].prev = NULL
    <3>1. 1 \in 1 .. len /\ len \in 1 .. len
      BY <2>3, <2>6
    <3>2. head = s[1] /\ tail = s[len]
      BY <2>2, <2>6 DEF Chained
    <3> QED  BY <2>2, <3>1, <3>2 DEF Chained
  <2> QED  BY <2>1, <2>2, <2>3, <2>4, <2>5, <2>6 DEF WellLinked
<1> QED  BY <1>1, ListHolds, PTL

\* list_at, from either end, and list_find look up what the sequence of the
\* nodes holds, and nothing beyond its ends.
THEOREM LookupsAreOfTheSequence == Spec => []LookupsMatch
<1>1. ASSUME ListInv PROVE LookupsMatch
  <2>1. PICK s : s = Walk("LIST_HEAD")
    OBVIOUS
  <2>2. Len(s) = len /\ len \in Nat
    BY <1>1, <2>1, ListIs, TypeParts
  <2>3. ASSUME NEW index \in Indices
        PROVE  ListAt(index) = IF index \in 0 .. len - 1 THEN s[index + 1]
                               ELSE IF index \in -len .. -1 THEN s[len + index + 1]
                               ELSE NULL
    <3>1. index \in Int
      BY <2>2 DEF Indices
    <3> QED  BY <1>1, <2>1, <3>1, ListAtIs
  <2>4. ASSUME NEW v \in Vals
        PROVE  IF {k \in 1 .. len : node[s[k]].val = v} = {} THEN ListFind(v) = NULL
               ELSE \E k \in {k \in 1 .. len : node[s[k]].val = v} :
                      /\ s[k] = ListFind(v)
                      /\ \A l \in {j \in 1 .. len : node[s[j]].val = v} : k <= l
    <3>1. Hits(s, v) = {k \in 1 .. len : node[s[k]].val = v}
      BY <2>2 DEF Hits
    <3>2. IF Hits(s, v) = {} THEN ListFind(v) = NULL
          ELSE \E k \in Hits(s, v) : s[k] = ListFind(v) /\ \A l \in Hits(s, v) : k <= l
      BY <1>1, <2>1, ListFindIs
    <3> QED  BY <3>1, <3>2, Zenon
  <2> QED  BY <2>1, <2>3, <2>4, Zenon DEF LookupsMatch
<1> QED  BY <1>1, ListHolds, PTL

\* The nodes of a view are distinct, as those of the list are.
LEMMA ViewDistinct ==
  ASSUME ListInv, NEW s, s = Walk("LIST_HEAD"), NEW way \in Directions, NEW v, v = View(s, way)
  PROVE  \A k, l \in 1 .. Len(v) : v[k] = v[l] => k = l
<1>1. PICK n : n = Len(s)
  OBVIOUS
<1>2. s \in Seq(Nodes) /\ n \in Nat /\ \A k, l \in 1 .. n : s[k] = s[l] => k = l
  <2>1. Chained(s, node, head, tail, allocated) /\ allocated \subseteq Nodes
    BY ListIs, TypeParts
  <2>2. \A k, l \in 1 .. n : s[k] = s[l] => k = l
    BY <1>1, <2>1 DEF Chained
  <2> QED  BY <1>1, <2>1, <2>2, ChainedSeq
<1>3. CASE way = "LIST_HEAD"
  BY <1>1, <1>2, <1>3 DEF View
<1>4. CASE way = "LIST_TAIL"
  <2>1. v = Mirror(s)
    BY <1>4 DEF View
  <2>2. Len(v) = n /\ \A k \in 1 .. n : v[k] = s[(n + 1) - k]
    BY <1>1, <1>2, <2>1, MirrorIs
  <2>3. ASSUME NEW k \in 1 .. n, NEW l \in 1 .. n, v[k] = v[l] PROVE k = l
    <3>1. PICK i \in 1 .. n : i = (n + 1) - k
      BY <1>2
    <3>2. PICK j \in 1 .. n : j = (n + 1) - l
      BY <1>2
    <3>3. s[i] = s[j]
      BY <2>2, <2>3, <3>1, <3>2
    <3>4. i = j
      BY <1>2, <3>3
    <3> QED  BY <1>2, <3>1, <3>2, <3>4
  <2> QED  BY <2>2, <2>3
<1> QED  BY <1>3, <1>4 DEF Directions

\* Two adjacent pieces of a sequence.
LEMMA TwoPieces ==
  ASSUME NEW S, NEW v \in Seq(S), NEW a \in 1 .. Len(v), NEW b \in 1 .. Len(v), a <= b,
         NEW back \in Seq(S), Len(back) = b - a,
         \A k \in 1 .. Len(back) : back[k] = v[a + k - 1]
  PROVE  /\ Len(back \o SubSeq(v, b, Len(v))) = (Len(v) - a) + 1
         /\ back \o SubSeq(v, b, Len(v)) = SubSeq(v, a, Len(v))
<1>1. PICK n : n = Len(v)
  OBVIOUS
<1>2. n \in Nat /\ \A j \in 1 .. n : v[j] \in S
  BY <1>1, LenProperties
<1>3. PICK c : c = SubSeq(v, b, n)
  OBVIOUS
<1>4. c \in Seq(S) /\ Len(c) = (n - b) + 1 /\ \A i \in 1 .. (n - b) + 1 : c[i] = v[b + i - 1]
  <2>1. \A j \in b .. n : v[j] \in S
    BY <1>1, <1>2
  <2>2. b \in Int /\ n \in Int /\ b <= n /\ n - b + 1 = (n - b) + 1
    BY <1>1, <1>2
  <2> QED  BY <1>3, <2>1, <2>2, SubSeqProperties
<1>5. PICK d : d = SubSeq(v, a, n)
  OBVIOUS
<1>6. d \in Seq(S) /\ Len(d) = (n - a) + 1 /\ \A i \in 1 .. (n - a) + 1 : d[i] = v[a + i - 1]
  <2>1. \A j \in a .. n : v[j] \in S
    BY <1>1, <1>2
  <2>2. a \in Int /\ n \in Int /\ a <= n /\ n - a + 1 = (n - a) + 1
    BY <1>1, <1>2
  <2> QED  BY <1>5, <2>1, <2>2, SubSeqProperties
<1>7. PICK r : r = back \o c
  OBVIOUS
<1>8. /\ r \in Seq(S) /\ Len(r) = Len(back) + Len(c)
      /\ \A i \in 1 .. Len(back) + Len(c) :
           r[i] = IF i <= Len(back) THEN back[i] ELSE c[i - Len(back)]
  BY <1>4, <1>7, ConcatProperties
<1>9. Len(r) = (n - a) + 1
  BY <1>1, <1>2, <1>4, <1>8
<1>10. ASSUME NEW i \in 1 .. Len(r) PROVE r[i] = d[i]
  <2>1. d[i] = v[a + i - 1]
    BY <1>6, <1>9
  <2>2. CASE i <= Len(back)
    <3>1. i \in 1 .. Len(back)
      BY <1>1, <1>2, <1>9, <2>2
    <3> QED  BY <1>8, <2>1, <2>2, <3>1
  <2>3. CASE ~(i <= Len(back))
    <3>1. PICK j \in 1 .. (n - b) + 1 : j = i - Len(back)
      BY <1>1, <1>2, <1>9, <2>3
    <3>2. b + j - 1 = a + i - 1
      BY <1>1, <1>2, <3>1
    <3>3. c[j] = v[b + j - 1]
      BY <1>4
    <3> QED  BY <1>8, <2>1, <2>3, <3>1, <3>2, <3>3
  <2> QED  BY <2>2, <2>3
<1>11. r = d
  BY <1>6, <1>8, <1>9, <1>10, SeqEqual
<1> QED  BY <1>1, <1>3, <1>5, <1>7, <1>9, <1>11

\* An iterator of list.c under which others push returns no node twice and
\* passes over none: what it returned and what is ahead of it are the end of
\* the list in its direction, until a node leaves the list.
THEOREM IterationsAreWhole == Spec => []IterationIsWhole
<1>1. ASSUME ListInv, it # NULL, it.next # NULL, ~disturbed
      PROVE  LET s == Walk(it.direction)
                 r == passed \o Ahead
             IN  Len(r) <= len /\ r = SubSeq(s, len - Len(r) + 1, len)
  <2>1. PICK s : s = Walk("LIST_HEAD")
    OBVIOUS
  <2>2. PICK way \in Directions : way = it.direction
    BY <1>1, TypeParts
  <2>3. PICK v : v = View(s, way)
    OBVIOUS
  <2>4. Walk(it.direction) = v
    BY <1>1, <2>1, <2>2, <2>3, ListIs
  <2>5. v \in Seq(Nodes) /\ Len(v) = len /\ len \in Nat
    <3>1. TypeOK /\ Chained(s, node, head, tail, allocated) /\ Len(s) = len
      BY <1>1, <2>1, ListIs DEF ListInv
    <3> QED  BY <2>3, <3>1, ViewAlong
  <2>6. PICK n : n = it.next
    OBVIOUS
  <2>7. Reached(v, n, passed)
    BY <1>1, <2>1, <2>2, <2>3, <2>6, ListIs
  <2>8. PICK a, b \in 1 .. Len(v) :
          /\ a <= b /\ v[b] = n /\ Len(passed) = b - a
          /\ \A k \in 1 .. Len(passed) : passed[k] = v[a + k - 1]
    BY <2>7 DEF Reached
  <2>9. PICK from : from = {k \in 1 .. len : v[k] = n}
    OBVIOUS
  <2>10. from = {b}
    <3>1. \A k \in 1 .. len : v[k] = v[b] => k = b
      BY <1>1, <2>1, <2>3, <2>5, ViewDistinct
    <3> QED  BY <2>5, <2>8, <2>9, <3>1
  <2>11. (CHOOSE k \in from : TRUE) = b
    BY <2>10
  <2>12. Ahead = SubSeq(v, b, Len(v))
    <3>1. Ahead = IF from = {} THEN <<>> ELSE SubSeq(v, CHOOSE k \in from : TRUE, len)
      BY <2>4, <2>6, <2>9 DEF Ahead
    <3> QED  BY <2>5, <2>10, <2>11, <3>1
  <2>13. PICK r : r = passed \o Ahead
    OBVIOUS
  <2>14. passed \in Seq(Nodes)
    BY <1>1, TypeParts
  <2>15. Len(r) = (len - a) + 1 /\ r = SubSeq(v, a, len)
    BY <2>5, <2>8, <2>12, <2>13, <2>14, TwoPieces
  <2>16. Len(r) <= len /\ len - Len(r) + 1 = a
    BY <2>5, <2>15
  <2> QED  BY <2>4, <2>13, <2>15, <2>16
<1>2. ListInv => IterationIsWhole
  BY <1>1, Zenon DEF IterationIsWhole
<1> QED  BY <1>2, ListHolds, PTL

-----------------------------------------------------------------------------
\* list.c implements the deque that list.h promises: pushes and pops act at
\* the ends, list_remove takes out one node and leaves the others in order,
\* and the calls that only look change nothing.
THEOREM ListIsADeque == Spec => ImplementsDeque
<1>1. Init => AsDeque!DInit
  BY ListBegins DEF AsDeque!DInit, Init
<1>2. ListInv /\ [Next]_vars => [AsDeque!DNext]_(AsDeque!dvars)
  BY ListSteps
<1> QED  BY <1>1, <1>2, ListHolds, PTL DEF Spec, ImplementsDeque, AsDeque!DSpec
=============================================================================

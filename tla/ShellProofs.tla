------------------------------ MODULE ShellProofs ------------------------------
(***************************************************************************)
(* Proofs about Shell, for any lines and any number of processes, pipes    *)
(* and inputs: the shell prompts only when the line before has ended, and  *)
(* only it reads lines; a list runs in its order, and a pipe joins         *)
(* neighbours of one part of a line. And the parser accepts the            *)
(* well-formed lines and no others.                                        *)
(***************************************************************************)
EXTENDS Shell, TLAPS, FiniteSetTheorems, SequenceTheorems, WellFoundedInduction

\* The least and the greatest of a set of positions or pids.
LEMMA LeastOf ==
  ASSUME NEW S \in SUBSET Nat, S # {}
  PROVE  \E i \in S : \A j \in S : i <= j
<1>1. PICK Below : Below = {0 .. i : i \in S}
  OBVIOUS
<1>2. Below \subseteq FiniteSubsetsOf(Nat) /\ Below # {}
  <2>1. ASSUME NEW i \in S PROVE 0 .. i \in SUBSET Nat /\ IsFiniteSet(0 .. i)
    <3>1. IsFiniteSet(0 .. i)
      BY FS_Interval
    <3> QED  BY <3>1
  <2>2. Below \subseteq FiniteSubsetsOf(Nat)
    BY <1>1, <2>1, Zenon DEF FiniteSubsetsOf
  <2>3. Below # {}
    BY <1>1
  <2> QED  BY <2>2, <2>3
<1>3. PICK x \in Below : \A y \in Below : <<y, x>> \notin StrictSubsetOrdering(Nat)
  BY <1>2, FS_StrictSubsetOrderingWellFounded, WFMin
<1>4. PICK i \in S : x = 0 .. i
  BY <1>1
<1>5. ASSUME NEW j \in S, j < i PROVE FALSE
  <2>1. 0 .. j \subseteq 0 .. i /\ 0 .. j # 0 .. i
    BY <1>5
  <2>2. 0 .. j \in Below /\ 0 .. j \in SUBSET Nat /\ 0 .. i \in SUBSET Nat
    BY <1>1
  <2>3. <<0 .. j, 0 .. i>> \in StrictSubsetOrdering(Nat)
    BY <2>1, <2>2 DEF StrictSubsetOrdering
  <2> QED  BY <1>3, <1>4, <2>2, <2>3
<1> QED  BY <1>5

LEMMA MinIn ==
  ASSUME NEW S \in SUBSET Nat, S # {}
  PROVE  Min(S) \in S /\ \A k \in S : Min(S) <= k
BY LeastOf DEF Min

LEMMA MaxIn ==
  ASSUME NEW n \in Nat, NEW S \in SUBSET (1 .. n), S # {}
  PROVE  Max(S) \in S /\ \A k \in S : Max(S) >= k
<1>1. PICK D : D = {n - k : k \in S}
  OBVIOUS
<1>2. D \in SUBSET Nat /\ D # {}
  <2>1. \A k \in S : n - k \in Nat
    OBVIOUS
  <2>2. PICK k \in S : TRUE
    OBVIOUS
  <2>3. n - k \in D
    BY <1>1, <2>2
  <2> QED  BY <1>1, <2>1, <2>3
<1>3. PICK d \in D : \A e \in D : d <= e
  BY <1>2, LeastOf, Zenon
<1>4. PICK k \in S : d = n - k
  BY <1>1
<1>5. ASSUME NEW l \in S PROVE k >= l
  <2>1. n - l \in D
    BY <1>1
  <2> QED  BY <1>3, <1>4, <2>1
<1> QED  BY <1>5 DEF Max

-----------------------------------------------------------------------------
\* Induction along a line, upwards and downwards, over a set of positions.
LEMMA Climb ==
  ASSUME NEW n \in Nat, NEW K, 0 \in K, \A k \in 1 .. n : k - 1 \in K => k \in K
  PROVE  n \in K
<1>1. PICK D : D = (0 .. n) \ K
  OBVIOUS
<1>2. ASSUME D # {} PROVE FALSE
  <2>3. D \in SUBSET Nat
    BY <1>1
  <2>1. PICK d \in D : \A e \in D : d <= e
    BY <1>2, <2>3, LeastOf, Zenon
  <2>2. d \in 1 .. n /\ d - 1 \in 0 .. n /\ d - 1 \notin D
    BY <1>1, <2>1
  <2> QED  BY <1>1, <2>1, <2>2
<1>3. n \in 0 .. n
  OBVIOUS
<1> QED  BY <1>1, <1>2, <1>3

LEMMA Descend ==
  ASSUME NEW n \in Nat, NEW K,
         \A k \in 1 .. n : (\A j \in k + 1 .. n : j \in K) => k \in K
  PROVE  \A k \in 1 .. n : k \in K
<1>1. PICK D : D = (1 .. n) \ K
  OBVIOUS
<1>2. ASSUME D # {} PROVE FALSE
  <2>1. D \in SUBSET (1 .. n)
    BY <1>1
  <2>2. Max(D) \in D /\ \A e \in D : Max(D) >= e
    BY <1>2, <2>1, MaxIn
  <2>3. \A j \in Max(D) + 1 .. n : j \in K
    BY <1>1, <2>2
  <2> QED  BY <1>1, <2>2, <2>3
<1> QED  BY <1>1, <1>2

-----------------------------------------------------------------------------
\* The processes, by the parts of their records.
LEMMA PidsAre == /\ Root \in Pids /\ 0 \notin Pids /\ Pids \subseteq Nat /\ IsFiniteSet(Pids)
<1>1. IsFiniteSet(Pids)
  BY ShellAssumption, FS_Interval DEF Pids
<1> QED  BY <1>1, ShellAssumption DEF Pids, Root

LEMMA NoneIs == Process(None) /\ None.do = "none" /\ None.parent = 0
BY DEF None, Process, Kept, Doings, Nothing

LEMMA TypeParts ==
  ASSUME ShellTypeOK
  PROVE  /\ proc = [p \in Pids |-> proc[p]] /\ strays \in Nat
         /\ \A p \in Pids :
              /\ Process(proc[p]) /\ proc[p].do \in Doings
              /\ proc[p].then \in {"exit", "run", "prompt"} /\ proc[p].waits \in {0, 1, 2}
              /\ proc[p].parent \in Pids \cup {0} /\ proc[p].bg \in BOOLEAN
              /\ ~Live(p) => Kids(p) = {}
BY DEF ShellTypeOK, Process

-----------------------------------------------------------------------------
\* The four ways in which a step changes the processes.

\* p goes on.
Goes(p, r) == /\ proc' = [proc EXCEPT ![p] = r]
              /\ Process(r) /\ r.do \notin {"none", "zombie"}
              /\ r.parent = proc[p].parent

LEMMA GoesIs ==
  ASSUME ShellTypeOK, NEW p \in Pids, Live(p), NEW r, Goes(p, r), strays' \in Nat
  PROVE  /\ ShellTypeOK' /\ proc'[p] = r /\ \A q \in Pids : q # p => proc'[q] = proc[q]
         /\ \A q \in Pids : Kids(q)' = Kids(q) /\ Live(q)' = Live(q)
<1>1. proc'[p] = r /\ \A q \in Pids : q # p => proc'[q] = proc[q]
  BY TypeParts DEF Goes
<1>2. \A q \in Pids : Kids(q)' = Kids(q) /\ Live(q)' = Live(q)
  BY <1>1 DEF Goes, Kids, Live
<1>3. proc' = [q \in Pids |-> proc'[q]]
  BY TypeParts DEF Goes
<1>4. \A q \in Pids : Process(proc'[q])
  BY <1>1, TypeParts DEF Goes
<1>5. \A q \in Pids : ~Live(q)' => Kids(q)' = {}
  BY <1>2, TypeParts
<1> QED  BY <1>1, <1>2, <1>3, <1>4, <1>5 DEF ShellTypeOK

\* p goes on, and has a new child c.
Forks(p, r, c, x) == /\ proc' = [proc EXCEPT ![p] = r, ![c] = x]
                     /\ Process(r) /\ r.do \notin {"none", "zombie"}
                     /\ r.parent = proc[p].parent
                     /\ proc[c].do = "none" /\ Process(x) /\ x.do \notin {"none", "zombie"}
                     /\ x.parent = p

LEMMA ForksIs ==
  ASSUME ShellTypeOK, NEW p \in Pids, Live(p), NEW r, NEW c \in Pids, NEW x,
         Forks(p, r, c, x), strays' \in Nat
  PROVE  /\ ShellTypeOK' /\ p # c /\ proc'[p] = r /\ proc'[c] = x
         /\ \A q \in Pids : q # p /\ q # c => proc'[q] = proc[q]
         /\ Kids(p)' = Kids(p) \cup {c} /\ c \notin Kids(p) /\ Kids(c)' = {}
         /\ \A q \in Pids : q # p => Kids(q)' = Kids(q)
         /\ Live(c)' /\ ~Live(c) /\ \A q \in Pids : q # c => Live(q)' = Live(q)
<1>1. p # c /\ ~Live(c)
  BY DEF Forks, Live
<1>2. proc'[p] = r /\ proc'[c] = x /\ \A q \in Pids : q # p /\ q # c => proc'[q] = proc[q]
  BY <1>1, TypeParts DEF Forks
<1>3. Live(c)' /\ \A q \in Pids : q # c => Live(q)' = Live(q)
  BY <1>1, <1>2 DEF Forks, Live
<1>4. /\ Kids(p)' = Kids(p) \cup {c} /\ c \notin Kids(p)
      /\ \A q \in Pids : q # p => Kids(q)' = Kids(q)
  <2>1. \A q \in Pids : c \notin Kids(q)
    BY DEF Forks, Kids
  <2>2. \A q, d \in Pids : d # c => (d \in Kids(q)' <=> d \in Kids(q))
    BY <1>1, <1>2 DEF Forks, Kids, Live
  <2>3. \A q \in Pids : c \in Kids(q)' <=> q = p
    BY <1>2 DEF Forks, Kids
  <2>4. \A q \in Pids : Kids(q) \subseteq Pids /\ Kids(q)' \subseteq Pids
    BY DEF Kids
  <2> QED  BY <2>1, <2>2, <2>3, <2>4
<1>5. Kids(c)' = {}
  BY <1>1, <1>4, TypeParts
<1>6. proc' = [q \in Pids |-> proc'[q]]
  BY TypeParts DEF Forks
<1>7. \A q \in Pids : Process(proc'[q])
  BY <1>2, TypeParts DEF Forks
<1>8. \A q \in Pids : ~Live(q)' => Kids(q)' = {}
  BY <1>3, <1>4, TypeParts
<1> QED  BY <1>1, <1>2, <1>3, <1>4, <1>5, <1>6, <1>7, <1>8 DEF ShellTypeOK

\* What is left when the processes of S have ended.
LeftOf(S, left) ==
    /\ left = [q \in Pids |-> left[q]] /\ \A q \in Pids : Process(left[q])
    /\ \A q \in S : /\ left[q].do \in {"none", "zombie"}
                    /\ left[q].do # "none" =>
                         left[q].parent = proc[q].parent /\ proc[q].parent \notin S
                    /\ left[q].do = "none" => proc[q].parent \in S \cup {0}
    /\ \A q \in Pids \ S :
         /\ Live(q) => left[q].do = proc[q].do
         /\ ~Live(q) => left[q].do \in {"none", "zombie"}
         /\ left[q].do # "none" /\ left[q].parent # 0 =>
              /\ proc[q].do # "none" /\ left[q].parent = proc[q].parent
              /\ proc[q].parent \notin S
         /\ proc[q].parent \notin S => left[q] = proc[q]
         /\ Live(q) /\ proc[q].parent \in S => left[q] = [proc[q] EXCEPT !.parent = 0]

LEMMA EndedAre ==
  ASSUME ShellTypeOK, NEW S \in SUBSET Pids, \A p \in S : Live(p), NEW left, left = Ended(S)
  PROVE  LeftOf(S, left)
<1>1. left = [q \in Pids |-> left[q]]
  BY DEF Ended
<1>2. ASSUME NEW q \in S
      PROVE  /\ Process(left[q]) /\ left[q].do \in {"none", "zombie"}
             /\ left[q].do # "none" => left[q].parent = proc[q].parent /\ proc[q].parent \notin S
             /\ left[q].do = "none" => proc[q].parent \in S \cup {0}
  <2>1. left[q] = IF proc[q].parent \in S \cup {0} THEN None
                  ELSE [None EXCEPT !.do = "zombie", !.parent = proc[q].parent]
    BY <1>2 DEF Ended
  <2>2. CASE proc[q].parent \in S \cup {0}
    BY <1>2, <2>1, <2>2, NoneIs
  <2>3. CASE proc[q].parent \notin S \cup {0}
    <3>1. PICK x : x = [None EXCEPT !.do = "zombie", !.parent = proc[q].parent]
      OBVIOUS
    <3>2. Process(x) /\ x.do = "zombie" /\ x.parent = proc[q].parent
      <4>1. proc[q].parent \in Pids \cup {0}
        BY TypeParts
      <4> QED  BY <3>1, <4>1, NoneIs DEF Process, Kept, Doings
    <3> QED  BY <2>1, <2>3, <3>1, <3>2
  <2> QED  BY <2>2, <2>3
<1>3. ASSUME NEW q \in Pids \ S
      PROVE  /\ Process(left[q])
             /\ Live(q) => left[q].do = proc[q].do
             /\ ~Live(q) => left[q].do \in {"none", "zombie"}
             /\ left[q].do # "none" /\ left[q].parent # 0 =>
                  /\ proc[q].do # "none" /\ left[q].parent = proc[q].parent
                  /\ proc[q].parent \notin S
             /\ proc[q].parent \notin S => left[q] = proc[q]
             /\ Live(q) /\ proc[q].parent \in S => left[q] = [proc[q] EXCEPT !.parent = 0]
  <2>1. left[q] = IF proc[q].parent \notin S THEN proc[q]
                  ELSE IF Live(q) THEN [proc[q] EXCEPT !.parent = 0] ELSE None
    BY <1>3 DEF Ended
  <2>2. CASE proc[q].parent \notin S
    BY <2>1, <2>2, TypeParts DEF Live
  <2>3. CASE proc[q].parent \in S /\ ~Live(q)
    BY <2>1, <2>3, NoneIs DEF Live
  <2>4. CASE proc[q].parent \in S /\ Live(q)
    <3>1. PICK x : x = [proc[q] EXCEPT !.parent = 0]
      OBVIOUS
    <3>2. Process(x) /\ x.do = proc[q].do /\ x.parent = 0
      BY <3>1, TypeParts DEF Process, Kept
    <3> QED  BY <2>1, <2>4, <3>1, <3>2
  <2> QED  BY <2>2, <2>3, <2>4
<1>4. \A q \in Pids : Process(left[q])
  BY <1>2, <1>3
<1> QED  BY <1>1, <1>2, <1>3, <1>4 DEF LeftOf

\* The processes of S end.
LEMMA EndedIs ==
  ASSUME ShellTypeOK, NEW S \in SUBSET Pids, \A p \in S : Live(p), proc' = Ended(S),
         strays' \in Nat
  PROVE  /\ ShellTypeOK'
         /\ \A q \in Pids : Live(q)' <=> Live(q) /\ q \notin S
         /\ \A q \in Pids \ S : Live(q) =>
              \/ proc[q].parent \notin S /\ proc'[q] = proc[q]
              \/ proc[q].parent \in S /\ proc'[q] = [proc[q] EXCEPT !.parent = 0]
         /\ \A q \in Pids \ S : Kids(q)' = Kids(q)
         /\ \A q \in S : Kids(q)' = {}
<1>0. LeftOf(S, proc')
  BY EndedAre
<1>1. proc' = [q \in Pids |-> proc'[q]]
  BY <1>0 DEF LeftOf
<1>2. ASSUME NEW q \in S
      PROVE  /\ Process(proc'[q]) /\ ~Live(q)'
             /\ proc'[q].do # "none" => proc'[q].parent = proc[q].parent /\ proc[q].parent \notin S
             /\ proc'[q].do = "none" => proc[q].parent \in S \cup {0}
  BY <1>0 DEF LeftOf, Live
<1>3. ASSUME NEW q \in Pids \ S
      PROVE  /\ Process(proc'[q]) /\ Live(q)' = Live(q)
             /\ proc'[q].do # "none" /\ proc'[q].parent # 0 =>
                  proc[q].do # "none" /\ proc'[q].parent = proc[q].parent /\ proc[q].parent \notin S
             /\ proc[q].parent \notin S => proc'[q] = proc[q]
             /\ Live(q) /\ proc[q].parent \in S => proc'[q] = [proc[q] EXCEPT !.parent = 0]
  BY <1>0 DEF LeftOf, Live
<1>4. \A q \in Pids : Live(q)' <=> Live(q) /\ q \notin S
  BY <1>2, <1>3
<1>5. \A q \in Pids \ S : Kids(q)' = Kids(q)
  <2> SUFFICES ASSUME NEW q \in Pids \ S, NEW d \in Pids
               PROVE  d \in Kids(q)' <=> d \in Kids(q)
    BY DEF Kids
  <2>1. q # 0
    BY PidsAre
  <2>2. CASE d \in S
    <3>1. proc[d].do # "none"
      BY <2>2 DEF Live
    <3> QED  BY <1>2, <2>1, <2>2, <3>1 DEF Kids
  <2>3. CASE d \notin S
    BY <1>3, <2>1, <2>3 DEF Kids
  <2> QED  BY <2>2, <2>3
<1>6. \A q \in S : Kids(q)' = {}
  <2> SUFFICES ASSUME NEW q \in S, NEW d \in Pids PROVE d \notin Kids(q)'
    BY DEF Kids
  <2>1. q # 0
    BY PidsAre
  <2>2. CASE d \in S
    BY <1>2, <2>1, <2>2 DEF Kids
  <2>3. CASE d \notin S
    BY <1>3, <2>1, <2>3 DEF Kids
  <2> QED  BY <2>2, <2>3
<1>7. \A q \in Pids : Process(proc'[q])
  BY <1>2, <1>3
<1>8. \A q \in Pids : ~Live(q)' => Kids(q)' = {}
  BY <1>4, <1>5, <1>6, TypeParts
<1>9. \A q \in Pids \ S : Live(q) =>
        \/ proc[q].parent \notin S /\ proc'[q] = proc[q]
        \/ proc[q].parent \in S /\ proc'[q] = [proc[q] EXCEPT !.parent = 0]
  BY <1>3
<1> QED  BY <1>1, <1>4, <1>5, <1>6, <1>7, <1>8, <1>9 DEF ShellTypeOK

\* p has waited for c.
Reaps(p, r, c) == /\ proc' = [proc EXCEPT ![c] = None, ![p] = r]
                  /\ Process(r) /\ r.do \notin {"none", "zombie"}
                  /\ r.parent = proc[p].parent
                  /\ proc[c].do = "zombie" /\ proc[c].parent = p

LEMMA ReapsIs ==
  ASSUME ShellTypeOK, NEW p \in Pids, Live(p), NEW r, NEW c \in Pids,
         Reaps(p, r, c), strays' \in Nat
  PROVE  /\ ShellTypeOK' /\ p # c /\ proc'[p] = r /\ proc'[c] = None
         /\ \A q \in Pids : q # p /\ q # c => proc'[q] = proc[q]
         /\ Kids(p)' = Kids(p) \ {c} /\ c \in Kids(p)
         /\ \A q \in Pids : q # p => Kids(q)' = Kids(q)
         /\ \A q \in Pids : Live(q)' = Live(q)
<1>1. p # c /\ ~Live(c)
  BY DEF Reaps, Live
<1>2. proc'[p] = r /\ proc'[c] = None /\ \A q \in Pids : q # p /\ q # c => proc'[q] = proc[q]
  BY <1>1, TypeParts DEF Reaps
<1>3. \A q \in Pids : Live(q)' = Live(q)
  BY <1>1, <1>2, NoneIs DEF Reaps, Live
<1>4. /\ Kids(p)' = Kids(p) \ {c} /\ c \in Kids(p)
      /\ \A q \in Pids : q # p => Kids(q)' = Kids(q)
  <2>1. \A q \in Pids : c \in Kids(q) <=> q = p
    BY DEF Reaps, Kids
  <2>2. \A q, d \in Pids : d # c => (d \in Kids(q)' <=> d \in Kids(q))
    BY <1>1, <1>2 DEF Reaps, Kids, Live
  <2>3. \A q \in Pids : c \notin Kids(q)'
    BY <1>2, NoneIs DEF Kids
  <2>4. \A q \in Pids : Kids(q) \subseteq Pids /\ Kids(q)' \subseteq Pids
    BY DEF Kids
  <2> QED  BY <2>1, <2>2, <2>3, <2>4
<1>5. proc' = [q \in Pids |-> proc'[q]]
  BY TypeParts DEF Reaps
<1>6. \A q \in Pids : Process(proc'[q])
  BY <1>2, TypeParts, NoneIs DEF Reaps
<1>7. \A q \in Pids : ~Live(q)' => Kids(q)' = {}
  BY <1>3, <1>4, TypeParts
<1> QED  BY <1>1, <1>2, <1>3, <1>4, <1>5, <1>6, <1>7 DEF ShellTypeOK

-----------------------------------------------------------------------------
\* What these ways keep.
Reads(r) == r.do = "prompt" \/ (r.do = "wait" /\ r.then = "prompt")

LEMMA ShellsFinite ==
  /\ Shells \subseteq Pids /\ IsFiniteSet(Shells) /\ Cardinality(Shells) \in Nat
  /\ \A p \in Pids : p \in Shells <=> Reads(proc[p])
<1>1. Shells \subseteq Pids /\ \A p \in Pids : p \in Shells <=> Reads(proc[p])
  BY DEF Shells, Reads
<1>2. IsFiniteSet(Shells)
  BY <1>1, PidsAre, FS_Subset
<1> QED  BY <1>1, <1>2, FS_CardinalityType

LEMMA KidsFinite ==
  ASSUME NEW p
  PROVE  Kids(p) \subseteq Pids /\ IsFiniteSet(Kids(p)) /\ Cardinality(Kids(p)) \in Nat
<1>1. Kids(p) \subseteq Pids
  BY DEF Kids
<1>2. IsFiniteSet(Kids(p))
  BY <1>1, PidsAre, FS_Subset
<1> QED  BY <1>1, <1>2, FS_CardinalityType

LEMMA FewerShells ==
  ASSUME OneReader, ShellTypeOK, Shells' \subseteq Shells, strays' = strays
  PROVE  OneReader'
<1>1. Cardinality(Shells') <= Cardinality(Shells) /\ Cardinality(Shells') \in Nat
  <2>1. IsFiniteSet(Shells)
    BY ShellsFinite
  <2> QED  BY <2>1, FS_Subset, FS_CardinalityType
<1> QED  BY <1>1, ShellsFinite, TypeParts DEF OneReader

LEMMA StrayShell ==
  ASSUME OneReader, ShellTypeOK, ShellTypeOK', NEW p, Shells' \subseteq Shells \cup {p},
         strays' = strays + 1
  PROVE  ShellInv'
<1>1. IsFiniteSet(Shells \cup {p}) /\ Cardinality(Shells \cup {p}) <= Cardinality(Shells) + 1
      /\ Cardinality(Shells \cup {p}) \in Nat
  BY ShellsFinite, FS_AddElement, FS_CardinalityType
<1>2. Cardinality(Shells') <= Cardinality(Shells \cup {p}) /\ Cardinality(Shells') \in Nat
  BY <1>1, FS_Subset, FS_CardinalityType
<1>3. OneReader'
  BY <1>1, <1>2, ShellsFinite, TypeParts DEF OneReader
<1>4. strays' # 0
  BY TypeParts
<1> QED  BY <1>3, <1>4 DEF ShellInv

LEMMA MindedStays ==
  ASSUME NEW q \in Pids, Minded(q), proc'[q].do = proc[q].do, proc'[q].then = proc[q].then,
         proc'[q].waits = proc[q].waits, Kids(q)' = Kids(q),
         \A c \in Kids(q) : Live(c)' => Live(c) /\ proc'[c].bg = proc[c].bg
  PROVE  Minded(q)'
BY DEF Minded

LEMMA GoesKeeps ==
  ASSUME ShellInv, NEW p \in Pids, Live(p), NEW r, Goes(p, r), strays' = strays,
         proc[p].do # "asked", r.do # "asked", Reads(r) <=> Reads(proc[p]),
         r.bg = proc[p].bg, Attended /\ ~r.bg => Minded(p)'
  PROVE  ShellInv'
<1>1. ShellTypeOK /\ OneReader /\ strays' \in Nat
  BY TypeParts DEF ShellInv
<1>2. /\ ShellTypeOK' /\ proc'[p] = r /\ \A q \in Pids : q # p => proc'[q] = proc[q]
      /\ \A q \in Pids : Kids(q)' = Kids(q) /\ Live(q)' = Live(q)
  BY <1>1, GoesIs
<1>3. Shells' = Shells
  BY <1>2, ShellsFinite DEF Shells, Reads
<1>4. OneReader'
  BY <1>1, <1>3, FewerShells
<1>5. \A q \in Pids : proc'[q].bg = proc[q].bg /\ proc'[q].parent = proc[q].parent
  BY <1>2 DEF Goes
<1>6. Foreground' = Foreground
  BY <1>2, <1>5 DEF Foreground
<1>7. ASSUME Attended PROVE Attended'
  <2>1. Shells' = {Root} /\ ~proc'[Root].bg
    BY <1>3, <1>5, <1>7, PidsAre DEF Attended
  <2>2. ASSUME NEW q \in Pids
        PROVE  proc'[q].do # "asked" /\ (Live(q)' /\ ~proc'[q].bg => Minded(q)')
    <3>1. CASE q = p
      BY <1>2, <1>7, <3>1
    <3>2. CASE q # p
      <4>1. proc'[q] = proc[q] /\ proc[q].do # "asked" /\ (Live(q) /\ ~proc[q].bg => Minded(q))
        BY <1>2, <1>7, <3>2 DEF Attended
      <4>2. \A c \in Kids(q) : Live(c)' => Live(c) /\ proc'[c].bg = proc[c].bg
        BY <1>2, <1>5, KidsFinite
      <4>3. Kids(q)' = Kids(q) /\ Live(q)' = Live(q)
        BY <1>2
      <4> QED  BY <4>1, <4>2, <4>3, MindedStays
    <3> QED  BY <3>1, <3>2
  <2>3. \A q \in Foreground' : /\ proc'[q].parent \in Pids
                               /\ proc'[q].parent \in Foreground' \cup {Root}
    BY <1>5, <1>6, <1>7 DEF Attended, Foreground
  <2>4. \A S \in SUBSET Foreground' : S # {} => \E q \in S : proc'[q].parent \notin S
    BY <1>5, <1>6, <1>7 DEF Attended, Foreground
  <2> QED  BY <2>1, <2>2, <2>3, <2>4 DEF Attended
<1>8. ASSUME LeftBehind PROVE LeftBehind'
  BY <1>2, <1>3, <1>5, <1>8 DEF LeftBehind
<1>9. ~AllAsked
  BY DEF AllAsked
<1> QED  BY <1>2, <1>4, <1>7, <1>8, <1>9 DEF ShellInv

LEMMA ForksKeeps ==
  ASSUME ShellInv, NEW p \in Pids, Live(p), NEW r, NEW c \in Pids, NEW x, Forks(p, r, c, x),
         strays' = strays, proc[p].do # "asked", r.do # "asked",
         x.do \in {"line", "run", "left", "right"}, Reads(r) <=> Reads(proc[p]),
         r.bg = proc[p].bg, r.bg => x.bg, Attended /\ ~r.bg => Minded(p)'
  PROVE  ShellInv'
<1>1. ShellTypeOK /\ OneReader /\ strays' \in Nat
  BY TypeParts DEF ShellInv
<1>2. /\ ShellTypeOK' /\ p # c /\ proc'[p] = r /\ proc'[c] = x
      /\ \A q \in Pids : q # p /\ q # c => proc'[q] = proc[q]
      /\ Kids(p)' = Kids(p) \cup {c} /\ c \notin Kids(p) /\ Kids(c)' = {}
      /\ \A q \in Pids : q # p => Kids(q)' = Kids(q)
      /\ Live(c)' /\ ~Live(c) /\ \A q \in Pids : q # c => Live(q)' = Live(q)
  BY <1>1, ForksIs
<1>3. Shells' = Shells
  <2>1. ~Reads(x) /\ ~Reads(proc[c])
    BY DEF Forks, Reads
  <2>2. \A q \in Pids : Reads(proc'[q]) <=> Reads(proc[q])
    BY <1>2, <2>1
  <2> QED  BY <2>2 DEF Shells, Reads
<1>4. OneReader'
  BY <1>1, <1>3, FewerShells
<1>5. \A q \in Pids : q # c => proc'[q].bg = proc[q].bg /\ proc'[q].parent = proc[q].parent
  BY <1>2 DEF Forks
<1>6. ASSUME Attended PROVE Attended'
  <2>1. Shells' = {Root} /\ ~proc'[Root].bg /\ c # Root
    <3>1. Root \in Shells
      BY <1>6 DEF Attended
    <3>2. Live(Root)
      BY <3>1 DEF Shells, Live
    <3> QED  BY <1>2, <1>3, <1>5, <1>6, <3>2, PidsAre DEF Attended
  <2>2. \A q \in Foreground' : q = c \/ q \in Foreground
    BY <1>2, <1>5 DEF Foreground
  <2>3. Foreground \subseteq Foreground' /\ c \notin Foreground
    BY <1>2, <1>5 DEF Foreground
  <2>4. ASSUME NEW q \in Pids
        PROVE  proc'[q].do # "asked" /\ (Live(q)' /\ ~proc'[q].bg => Minded(q)')
    <3>1. CASE q = p
      BY <1>2, <1>6, <3>1
    <3>2. CASE q = c
      BY <1>2, <3>2 DEF Minded
    <3>3. CASE q # p /\ q # c
      <4>1. proc'[q] = proc[q] /\ proc[q].do # "asked" /\ (Live(q) /\ ~proc[q].bg => Minded(q))
        BY <1>2, <1>6, <3>3 DEF Attended
      <4>2. Kids(q)' = Kids(q) /\ Live(q)' = Live(q)
        BY <1>2, <3>3
      <4>3. \A d \in Kids(q) : d \in Pids /\ d # c
        BY KidsFinite DEF Kids, Forks
      <4>4. \A d \in Kids(q) : Live(d)' => Live(d) /\ proc'[d].bg = proc[d].bg
        BY <1>2, <1>5, <4>3
      <4> QED  BY <4>1, <4>2, <4>4, MindedStays
    <3> QED  BY <3>1, <3>2, <3>3
  <2>5. \A q \in Foreground' : /\ proc'[q].parent \in Pids
                               /\ proc'[q].parent \in Foreground' \cup {Root}
    <3> SUFFICES ASSUME NEW q \in Foreground'
                 PROVE  proc'[q].parent \in Pids /\ proc'[q].parent \in Foreground' \cup {Root}
      OBVIOUS
    <3>1. CASE q = c
      <4>1. proc'[q].parent = p /\ ~r.bg
        BY <1>2, <3>1, TypeParts DEF Forks, Foreground
      <4>2. p = Root \/ p \in Foreground
        BY <4>1 DEF Foreground
      <4> QED  BY <2>3, <4>1, <4>2
    <3>2. CASE q \in Foreground /\ q # c
      <4>1. q \in Pids
        BY DEF Foreground
      <4> QED  BY <1>5, <1>6, <2>3, <3>2, <4>1 DEF Attended
    <3> QED  BY <2>2, <3>1, <3>2
  <2>6. ASSUME NEW S \in SUBSET Foreground', S # {} PROVE \E q \in S : proc'[q].parent \notin S
    <3>1. PICK T : T = S \ {c}
      OBVIOUS
    <3>2. T \in SUBSET Foreground
      BY <2>2, <3>1
    <3>3. CASE T = {}
      <4>1. S = {c}
        BY <2>6, <3>1, <3>3
      <4>2. proc'[c].parent = p
        BY <1>2 DEF Forks
      <4> QED  BY <1>2, <4>1, <4>2
    <3>4. CASE T # {}
      <4>1. PICK q \in T : proc[q].parent \notin T
        BY <1>6, <3>2, <3>4 DEF Attended
      <4>2. q \in Pids /\ q \in Foreground /\ q # c
        BY <3>1, <3>2 DEF Foreground
      <4>3. proc[q].parent # c
        BY <1>6, <2>1, <2>3, <4>2 DEF Attended
      <4> QED  BY <1>5, <3>1, <4>1, <4>2, <4>3
    <3> QED  BY <3>3, <3>4
  <2> QED  BY <2>1, <2>4, <2>5, <2>6 DEF Attended
<1>7. ASSUME LeftBehind PROVE LeftBehind'
  <2>1. proc[p].bg
    BY <1>7 DEF LeftBehind
  <2>2. x.bg /\ r.bg
    BY <2>1
  <2> QED  BY <1>2, <1>3, <1>5, <1>7, <2>2 DEF LeftBehind
<1>8. ~AllAsked
  BY DEF AllAsked
<1> QED  BY <1>2, <1>4, <1>6, <1>7, <1>8 DEF ShellInv

\* When nothing in the foreground is the shell's child, nothing is in it.
LEMMA ShellAlone ==
  ASSUME Attended, \A c \in Kids(Root) : Live(c) => proc[c].bg
  PROVE  Foreground = {}
<1> SUFFICES ASSUME Foreground # {} PROVE FALSE
  OBVIOUS
<1>1. PICK q \in Foreground : proc[q].parent \notin Foreground
  BY DEF Attended
<1>2. proc[q].parent = Root
  BY <1>1 DEF Attended
<1>3. q \in Kids(Root) /\ Live(q) /\ ~proc[q].bg
  BY <1>2 DEF Foreground, Kids, Live
<1> QED  BY <1>3

LEMMA EndKeeps ==
  ASSUME ShellInv, NEW p \in Pids, Live(p), proc' = Ended({p}), strays' = strays,
         Attended /\ ~proc[p].bg => \A d \in Kids(p) : Live(d) => proc[d].bg
  PROVE  ShellInv'
<1>1. ShellTypeOK /\ OneReader /\ strays' \in Nat
  BY TypeParts DEF ShellInv
<1>2. /\ ShellTypeOK'
      /\ \A q \in Pids : Live(q)' <=> Live(q) /\ q # p
      /\ \A q \in Pids : Live(q) /\ q # p =>
           \/ proc[q].parent # p /\ proc'[q] = proc[q]
           \/ proc[q].parent = p /\ proc'[q] = [proc[q] EXCEPT !.parent = 0]
      /\ \A q \in Pids : q # p => Kids(q)' = Kids(q)
  <2>1. {p} \in SUBSET Pids /\ \A q \in {p} : Live(q)
    OBVIOUS
  <2>2. /\ ShellTypeOK'
        /\ \A q \in Pids : Live(q)' <=> Live(q) /\ q \notin {p}
        /\ \A q \in Pids \ {p} : Live(q) =>
             \/ proc[q].parent \notin {p} /\ proc'[q] = proc[q]
             \/ proc[q].parent \in {p} /\ proc'[q] = [proc[q] EXCEPT !.parent = 0]
        /\ \A q \in Pids \ {p} : Kids(q)' = Kids(q)
    BY <1>1, <2>1, EndedIs
  <2> QED  BY <2>2
<1>3. ASSUME NEW q \in Pids, Live(q), q # p
      PROVE  /\ proc'[q].do = proc[q].do /\ proc'[q].then = proc[q].then
             /\ proc'[q].waits = proc[q].waits /\ proc'[q].bg = proc[q].bg
             /\ proc[q].parent # p => proc'[q].parent = proc[q].parent
  <2>1. Process(proc[q])
    BY <1>1, TypeParts
  <2> QED  BY <1>2, <1>3, <2>1 DEF Process, Kept
<1>4. \A q \in Pids : q \in Shells' <=> q \in Shells /\ q # p
  <2> SUFFICES ASSUME NEW q \in Pids PROVE q \in Shells' <=> q \in Shells /\ q # p
    OBVIOUS
  <2>1. q \in Shells => Live(q)
    BY DEF Shells, Live
  <2>2. q \in Shells' => Live(q)'
    BY DEF Shells, Live
  <2> QED  BY <1>2, <1>3, <2>1, <2>2 DEF Shells
<1>5. OneReader'
  <2>1. Shells' \subseteq Shells
    BY <1>4 DEF Shells
  <2> QED  BY <1>1, <2>1, FewerShells
<1>6. \A q \in Pids : proc[q].do # "asked" => proc'[q].do # "asked"
  BY <1>2, <1>3 DEF Live
<1>7. \A q : q \in Foreground' <=> q \in Foreground /\ q # p
  BY <1>2, <1>3 DEF Foreground
<1>8. ASSUME Attended, p = Root PROVE LeftBehind'
  <2>1. Foreground = {}
    BY <1>8, ShellAlone DEF Attended
  <2>2. Shells' = {}
    BY <1>4, <1>8 DEF Attended, Shells
  <2>3. \A q \in Pids : Live(q)' => proc'[q].bg
    BY <1>2, <1>3, <1>8, <2>1, TypeParts DEF Foreground
  <2>4. \A q \in Pids : proc'[q].do # "asked"
    BY <1>6, <1>8 DEF Attended
  <2> QED  BY <2>2, <2>3, <2>4 DEF LeftBehind
<1>9. ASSUME Attended, p # Root PROVE Attended'
  <2>1. Root \in Shells /\ Live(Root)
    BY <1>9 DEF Attended, Shells, Live
  <2>2. Shells' = {Root} /\ ~proc'[Root].bg
    <3>1. \A q \in Pids : q \in Shells <=> q = Root
      BY <1>9, PidsAre DEF Attended
    <3>2. Shells' \subseteq Pids
      BY DEF Shells
    <3>3. \A q \in Pids : q \in Shells' <=> q = Root
      BY <1>4, <1>9, <3>1
    <3>4. ~proc'[Root].bg
      BY <1>3, <1>9, <2>1, PidsAre DEF Attended
    <3> QED  BY <3>2, <3>3, <3>4, PidsAre
  <2>3. ASSUME NEW q \in Foreground' PROVE proc[q].parent # p /\ q \in Foreground /\ q # p
    <3>1. q \in Foreground /\ q # p /\ q \in Pids /\ Live(q) /\ ~proc[q].bg
      BY <1>7 DEF Foreground
    <3>2. ASSUME proc[q].parent = p PROVE FALSE
      <4>1. p \in Foreground
        BY <1>9, <3>1, <3>2 DEF Attended
      <4>2. q \in Kids(p)
        BY <3>1, <3>2 DEF Kids, Live
      <4> QED  BY <1>9, <3>1, <4>1, <4>2 DEF Foreground
    <3> QED  BY <3>1, <3>2
  <2>4. \A q \in Foreground' : proc'[q].parent = proc[q].parent
    BY <1>3, <2>3 DEF Foreground
  <2>5. ASSUME NEW q \in Pids
        PROVE  proc'[q].do # "asked" /\ (Live(q)' /\ ~proc'[q].bg => Minded(q)')
    <3>1. proc'[q].do # "asked"
      BY <1>6, <1>9 DEF Attended
    <3>2. ASSUME Live(q)', ~proc'[q].bg PROVE Minded(q)'
      <4>1. Live(q) /\ q # p /\ Minded(q) /\ Kids(q)' = Kids(q)
        BY <1>2, <1>3, <1>9, <3>2 DEF Attended
      <4>2. \A c \in Kids(q) : Live(c)' => Live(c) /\ proc'[c].bg = proc[c].bg
        BY <1>2, <1>3, KidsFinite
      <4>3. /\ proc'[q].do = proc[q].do /\ proc'[q].then = proc[q].then
            /\ proc'[q].waits = proc[q].waits
        BY <1>3, <4>1
      <4> QED  BY <4>1, <4>2, <4>3, MindedStays
    <3> QED  BY <3>1, <3>2
  <2>6. \A q \in Foreground' : /\ proc'[q].parent \in Pids
                               /\ proc'[q].parent \in Foreground' \cup {Root}
    BY <1>7, <1>9, <2>3, <2>4 DEF Attended
  <2>7. ASSUME NEW S \in SUBSET Foreground', S # {} PROVE \E q \in S : proc'[q].parent \notin S
    <3>1. S \in SUBSET Foreground
      BY <1>7
    <3>2. PICK q \in S : proc[q].parent \notin S
      BY <1>9, <2>7, <3>1 DEF Attended
    <3> QED  BY <2>4, <3>2
  <2> QED  BY <2>2, <2>5, <2>6, <2>7 DEF Attended
<1>10. ASSUME LeftBehind PROVE LeftBehind'
  <2>1. Shells' = {}
    BY <1>4, <1>10 DEF LeftBehind, Shells
  <2> QED  BY <1>2, <1>3, <1>6, <1>10, <2>1 DEF LeftBehind
<1>11. ASSUME AllAsked PROVE AllAsked'
  BY <1>2, <1>3, <1>11 DEF AllAsked
<1> QED  BY <1>2, <1>5, <1>8, <1>9, <1>10, <1>11 DEF ShellInv

LEMMA ReapsKeeps ==
  ASSUME ShellInv, NEW p \in Pids, proc[p].do = "wait", NEW r, NEW c \in Pids, Reaps(p, r, c),
         strays' = strays, r.do = "wait", r.then = proc[p].then, r.bg = proc[p].bg,
         proc[p].waits > 0, r.waits = proc[p].waits - 1
  PROVE  ShellInv'
<1>1. ShellTypeOK /\ OneReader /\ strays' \in Nat /\ Live(p)
  BY TypeParts DEF ShellInv, Live
<1>2. /\ ShellTypeOK' /\ p # c /\ proc'[p] = r /\ proc'[c] = None
      /\ \A q \in Pids : q # p /\ q # c => proc'[q] = proc[q]
      /\ Kids(p)' = Kids(p) \ {c} /\ c \in Kids(p)
      /\ \A q \in Pids : q # p => Kids(q)' = Kids(q)
      /\ \A q \in Pids : Live(q)' = Live(q)
  BY <1>1, ReapsIs
<1>3. \A q \in Pids : q # c => /\ proc'[q].do = proc[q].do /\ proc'[q].then = proc[q].then
                               /\ proc'[q].bg = proc[q].bg /\ proc'[q].parent = proc[q].parent
  BY <1>2 DEF Reaps
<1>4. ~Live(c) /\ ~Live(c)' /\ proc'[c].do = "none" /\ proc[c].do = "zombie"
  BY <1>2, NoneIs DEF Reaps, Live
<1>5. Shells' = Shells
  <2>1. c \notin Shells /\ c \notin Shells'
    BY <1>4 DEF Shells
  <2> QED  BY <1>3, <2>1 DEF Shells
<1>6. OneReader'
  BY <1>1, <1>5, FewerShells
<1>7. Foreground' = Foreground
  BY <1>2, <1>3, <1>4 DEF Foreground
<1>8. c \notin Foreground
  BY <1>4 DEF Foreground
<1>9. ASSUME Attended PROVE Attended'
  <2>1. Root # c
    <3>1. Root \in Shells
      BY <1>9 DEF Attended
    <3> QED  BY <1>4, <3>1 DEF Shells
  <2>2. Shells' = {Root} /\ ~proc'[Root].bg
    BY <1>3, <1>5, <1>9, <2>1, PidsAre DEF Attended
  <2>3. ASSUME NEW q \in Pids
        PROVE  proc'[q].do # "asked" /\ (Live(q)' /\ ~proc'[q].bg => Minded(q)')
    <3>1. CASE q = c
      BY <1>4, <3>1
    <3>2. CASE q = p
      <4>1. ASSUME ~proc'[p].bg PROVE Minded(p)'
        <5>1. Minded(p)
          BY <1>1, <1>2, <1>9, <4>1 DEF Attended
        <5>2. Cardinality(Kids(p)) <= proc[p].waits
          BY <5>1, <1>1, TypeParts DEF Minded
        <5>3. Cardinality(Kids(p)') = Cardinality(Kids(p)) - 1
          BY <1>2, KidsFinite, FS_RemoveElement
        <5>4. Cardinality(Kids(p)') <= proc'[p].waits
          <6>1. proc[p].waits \in Int /\ Cardinality(Kids(p)) \in Nat
            BY <1>1, TypeParts, KidsFinite
          <6> QED  BY <1>2, <5>2, <5>3, <6>1
        <5> QED  BY <1>2, <5>4 DEF Minded
      <4> QED  BY <1>2, <3>2, <4>1
    <3>3. CASE q # p /\ q # c
      <4>1. proc'[q] = proc[q] /\ proc[q].do # "asked" /\ (Live(q) /\ ~proc[q].bg => Minded(q))
        BY <1>2, <1>9, <3>3 DEF Attended
      <4>2. Kids(q)' = Kids(q) /\ Live(q)' = Live(q)
        BY <1>2, <3>3
      <4>3. \A d \in Kids(q) : Live(d)' => Live(d) /\ proc'[d].bg = proc[d].bg
        BY <1>2, <1>3, <1>4, KidsFinite
      <4> QED  BY <4>1, <4>2, <4>3, MindedStays
    <3> QED  BY <3>1, <3>2, <3>3
  <2>4. \A q \in Foreground : proc'[q].parent = proc[q].parent
    BY <1>3, <1>8 DEF Foreground
  <2>5. \A q \in Foreground' : /\ proc'[q].parent \in Pids
                               /\ proc'[q].parent \in Foreground' \cup {Root}
    BY <1>7, <1>9, <2>4 DEF Attended
  <2>6. \A S \in SUBSET Foreground' : S # {} => \E q \in S : proc'[q].parent \notin S
    BY <1>7, <1>9, <2>4 DEF Attended
  <2> QED  BY <2>2, <2>3, <2>5, <2>6 DEF Attended
<1>10. ASSUME LeftBehind PROVE LeftBehind'
  BY <1>2, <1>3, <1>4, <1>5, <1>10 DEF LeftBehind
<1>11. ~AllAsked
  BY <1>1 DEF AllAsked
<1> QED  BY <1>2, <1>6, <1>9, <1>10, <1>11 DEF ShellInv

\* Minding a process without children.
LEMMA MindsNone ==
  ASSUME NEW p \in Pids, Kids(p)' = {}, proc'[p].waits \in {0, 1, 2}
  PROVE  Minded(p)'
<1>1. Cardinality(Kids(p)') = 0
  BY FS_EmptySet
<1>2. 0 <= proc'[p].waits /\ 0 <= 1
  OBVIOUS
<1> QED  BY <1>1, <1>2 DEF Minded

-----------------------------------------------------------------------------
\* The steps.
ChildOf(p, yours) == [yours EXCEPT !.parent = p]

NewChild(p, mine, yours, c) ==
    /\ c \in Pids /\ proc[c].do = "none"
    /\ proc' = [proc EXCEPT ![p] = mine, ![c] = ChildOf(p, yours)]

LEMMA ForkSteps ==
  ASSUME NEW p \in Pids, NEW mine, NEW yours, fork1(p, mine, yours)
  PROVE  \/ proc' = [proc EXCEPT ![p] = mine]
         \/ \E c : NewChild(p, mine, yours, c)
<1> SUFFICES ASSUME proc' # [proc EXCEPT ![p] = mine] PROVE \E c : NewChild(p, mine, yours, c)
  OBVIOUS
<1>1. PICK S : S = {y \in Pids : proc[y].do = "none"}
  OBVIOUS
<1>2. S # {} /\ proc' = [proc EXCEPT ![p] = mine, ![Min(S)] = ChildOf(p, yours)]
  BY <1>1 DEF fork1, ChildOf
<1>3. S \in SUBSET Nat
  BY <1>1, PidsAre
<1>4. Min(S) \in S
  BY <1>2, <1>3, MinIn
<1> QED  BY <1>1, <1>2, <1>4 DEF NewChild

\* The children that a process may have when it goes on as mine with a new
\* child x.
RoomFor(kids, mine, x) ==
    \/ kids = {} /\ mine.do = "wait" /\ mine.waits = 1
    \/ kids = {} /\ mine.do = "fork right"
    \/ Cardinality(kids) <= 1 /\ mine.do = "wait" /\ mine.waits = 2
    \/ kids = {} /\ mine.do = "wait" /\ mine.waits = 0 /\ mine.then = "exit" /\ x.bg

Starting == {"line", "run", "left", "right"}

LEMMA RoomKept ==
  ASSUME NEW p \in Pids, NEW c \in Pids, NEW mine, NEW x, RoomFor(Kids(p), mine, x),
         Kids(p)' = Kids(p) \cup {c}, c \notin Kids(p), proc'[p] = mine, proc'[c] = x
  PROVE  Minded(p)'
<1>1. PICK n \in Nat : n = Cardinality(Kids(p))
  BY KidsFinite
<1>2. PICK m \in Nat : m = Cardinality(Kids(p)') /\ m = n + 1
  <2>1. Cardinality(Kids(p)') = n + 1
    BY <1>1, KidsFinite, FS_AddElement
  <2> QED  BY <1>1, <2>1
<1>3. ASSUME Kids(p) = {} PROVE m = 1
  <2>1. n = 0
    BY <1>1, <1>3, FS_EmptySet
  <2> QED  BY <1>2, <2>1
<1>4. CASE Kids(p) = {} /\ mine.do = "wait" /\ mine.waits = 1
  <2>1. m <= mine.waits
    BY <1>3, <1>4
  <2> QED  BY <1>2, <1>4, <2>1 DEF Minded
<1>5. CASE Kids(p) = {} /\ mine.do = "fork right"
  <2>1. m <= 1
    <3>1. m = 1
      BY <1>3, <1>5
    <3> QED  BY <3>1
  <2> QED  BY <1>2, <1>5, <2>1 DEF Minded
<1>6. CASE Cardinality(Kids(p)) <= 1 /\ mine.do = "wait" /\ mine.waits = 2
  <2>1. m <= mine.waits
    BY <1>1, <1>2, <1>6
  <2> QED  BY <1>2, <1>6, <2>1 DEF Minded
<1>7. CASE Kids(p) = {} /\ mine.do = "wait" /\ mine.waits = 0 /\ mine.then = "exit" /\ x.bg
  <2>1. \A d \in Kids(p)' : proc'[d].bg
    BY <1>7
  <2> QED  BY <1>7, <2>1 DEF Minded
<1> QED  BY <1>4, <1>5, <1>6, <1>7 DEF RoomFor

LEMMA RoomLeft ==
  ASSUME NEW p \in Pids, NEW mine, NEW x, RoomFor(Kids(p), mine, x),
         Kids(p)' = Kids(p), proc'[p] = mine, mine.waits \in {0, 1, 2}
  PROVE  Minded(p)'
<1>1. CASE Kids(p) = {}
  <2>1. Kids(p)' = {} /\ proc'[p].waits \in {0, 1, 2}
    BY <1>1
  <2> QED  BY <2>1, MindsNone
<1>2. CASE Kids(p) # {}
  <2>1. Cardinality(Kids(p)) <= 1 /\ mine.do = "wait" /\ mine.waits = 2
    BY <1>2 DEF RoomFor
  <2>2. Cardinality(Kids(p)') <= 2
    BY <2>1, KidsFinite
  <2> QED  BY <2>1, <2>2 DEF Minded
<1> QED  BY <1>1, <1>2

\* p goes on as mine, with a new child that was given yours, or, when fork
\* fails, without it.
LEMMA ForkKeeps ==
  ASSUME ShellInv, NEW p \in Pids, Live(p), proc[p].do # "asked", strays' = strays,
         NEW mine, NEW yours, fork1(p, mine, yours),
         Process(mine), mine.do \in {"wait", "fork right"}, mine.parent = proc[p].parent,
         mine.bg = proc[p].bg, Reads(mine) <=> Reads(proc[p]),
         Process(yours), yours.do \in Starting, mine.bg => yours.bg,
         Attended /\ ~mine.bg => RoomFor(Kids(p), mine, yours)
  PROVE  ShellInv'
<1>1. PICK x : x = ChildOf(p, yours)
  OBVIOUS
<1>2. Process(x) /\ x.do = yours.do /\ x.bg = yours.bg /\ x.parent = p
  BY <1>1 DEF Process, Kept, ChildOf
<1>3. ShellTypeOK /\ strays' \in Nat
  BY TypeParts DEF ShellInv
<1>4. /\ mine.waits \in {0, 1, 2}
      /\ Attended /\ ~mine.bg => RoomFor(Kids(p), mine, x)
  BY <1>2 DEF Process, RoomFor
<1>5. ASSUME proc' = [proc EXCEPT ![p] = mine] PROVE ShellInv'
  <2>1. Goes(p, mine)
    BY <1>5 DEF Goes
  <2>2. Kids(p)' = Kids(p) /\ proc'[p] = mine
    BY <1>3, <2>1, GoesIs
  <2>3. Attended /\ ~mine.bg => Minded(p)'
    BY <1>4, <2>2, RoomLeft
  <2> QED  BY <2>1, <2>3, GoesKeeps
<1>6. ASSUME NEW c \in Pids, proc[c].do = "none",
             proc' = [proc EXCEPT ![p] = mine, ![c] = x]
      PROVE  ShellInv'
  <2>1. x.do \in Starting /\ x.do \notin {"none", "zombie"}
    BY <1>2 DEF Starting
  <2>2. Forks(p, mine, c, x)
    BY <1>2, <1>6, <2>1 DEF Forks
  <2>3. /\ Kids(p)' = Kids(p) \cup {c} /\ c \notin Kids(p)
        /\ proc'[p] = mine /\ proc'[c] = x
    BY <1>3, <2>2, ForksIs
  <2>4. Attended /\ ~mine.bg => Minded(p)'
    BY <1>4, <2>3, RoomKept
  <2>5. mine.do # "asked" /\ x.do \in {"line", "run", "left", "right"} /\ (mine.bg => x.bg)
    BY <1>2, <2>1 DEF Starting
  <2> QED  BY <2>2, <2>4, <2>5, ForksKeeps
<1>7. \/ proc' = [proc EXCEPT ![p] = mine]
      \/ \E c : NewChild(p, mine, yours, c)
  BY ForkSteps
<1>8. ASSUME NEW c, NewChild(p, mine, yours, c) PROVE ShellInv'
  BY <1>1, <1>6, <1>8 DEF NewChild
<1> QED  BY <1>5, <1>7, <1>8

\* A process that has no children goes on, or ends.
Childless == {"prompt", "line", "run", "program", "fork left", "left", "right"}

LEMMA ChildlessIs ==
  ASSUME ShellInv, NEW p \in Pids, proc[p].do \in Childless
  PROVE  /\ Live(p) /\ proc[p].do # "asked"
         /\ Attended /\ ~proc[p].bg => Kids(p) = {}
<1>1. Live(p) /\ proc[p].do # "asked"
  BY DEF Childless, Live
<1>2. ASSUME Attended, ~proc[p].bg PROVE Kids(p) = {}
  <2>1. Minded(p)
    BY <1>1, <1>2 DEF Attended
  <2> QED  BY <2>1 DEF Minded, Childless
<1> QED  BY <1>1, <1>2

LEMMA ChildlessGoes ==
  ASSUME ShellInv, NEW p \in Pids, proc[p].do \in Childless, NEW r, Goes(p, r),
         strays' = strays, r.do # "asked", Reads(r) <=> Reads(proc[p]), r.bg = proc[p].bg
  PROVE  ShellInv'
<1>1. /\ Live(p) /\ proc[p].do # "asked"
      /\ Attended /\ ~proc[p].bg => Kids(p) = {}
  BY ChildlessIs
<1>2. ShellTypeOK /\ strays' \in Nat
  BY TypeParts DEF ShellInv
<1>3. Kids(p)' = Kids(p) /\ proc'[p] = r
  BY <1>1, <1>2, GoesIs
<1>4. r.waits \in {0, 1, 2}
  BY DEF Goes, Process
<1>5. Attended /\ ~r.bg => Minded(p)'
  BY <1>1, <1>3, <1>4, MindsNone
<1> QED  BY <1>1, <1>5, GoesKeeps

LEMMA ChildlessEnds ==
  ASSUME ShellInv, NEW p \in Pids, proc[p].do \in Childless, proc' = Ended({p}),
         strays' = strays
  PROVE  ShellInv'
<1>1. /\ Live(p)
      /\ Attended /\ ~proc[p].bg => \A d \in Kids(p) : Live(d) => proc[d].bg
  BY ChildlessIs
<1> QED  BY <1>1, EndKeeps

-----------------------------------------------------------------------------
LEMMA RecordOf ==
  ASSUME ShellInv, NEW p \in Pids
  PROVE  Process(proc[p]) /\ proc = [q \in Pids |-> proc[q]]
BY TypeParts DEF ShellInv

LEMMA MainStep ==
  ASSUME ShellInv, NEW p \in Pids, main(p)
  PROVE  ShellInv'
<1>1. proc[p].do = "prompt" /\ proc[p].do \in Childless /\ strays' = strays
  BY DEF main, Childless
<1>2. CASE proc' = Ended({p})
  BY <1>1, <1>2, ChildlessEnds
<1>3. ASSUME NEW line \in Lines,
             fork1(p, Awaiting(p, 1, "prompt"),
                   [proc[p] EXCEPT !.do = "line", !.cmd = Typed(line)])
      PROVE  ShellInv'
  <2>1. PICK mine : mine = [proc[p] EXCEPT !.do = "wait", !.waits = 1, !.then = "prompt"]
    OBVIOUS
  <2>2. PICK yours : yours = [proc[p] EXCEPT !.do = "line", !.cmd = Typed(line)]
    OBVIOUS
  <2>3. fork1(p, mine, yours)
    BY <1>3, <2>1, <2>2 DEF Awaiting
  <2>4. /\ Process(mine) /\ mine.do = "wait" /\ mine.waits = 1 /\ mine.then = "prompt"
        /\ mine.parent = proc[p].parent /\ mine.bg = proc[p].bg
    <3>1. PICK old : old = proc[p] /\ Process(old)
      BY RecordOf
    <3>2. mine = [old EXCEPT !.do = "wait", !.waits = 1, !.then = "prompt"]
      BY <2>1, <3>1
    <3>3. /\ Process(mine) /\ mine.do = "wait" /\ mine.waits = 1 /\ mine.then = "prompt"
          /\ mine.parent = old.parent /\ mine.bg = old.bg
      BY <3>1, <3>2 DEF Process, Kept, Doings
    <3> QED  BY <3>1, <3>3
  <2>5. Process(yours) /\ yours.do = "line" /\ yours.bg = proc[p].bg
    <3>1. PICK old : old = proc[p] /\ Process(old)
      BY RecordOf
    <3>2. yours = [old EXCEPT !.do = "line", !.cmd = Typed(line)]
      BY <2>2, <3>1
    <3>3. Process(yours) /\ yours.do = "line" /\ yours.bg = old.bg
      BY <3>1, <3>2 DEF Process, Kept, Doings
    <3> QED  BY <3>1, <3>3
  <2>6. Reads(mine) <=> Reads(proc[p])
    BY <1>1, <2>4 DEF Reads
  <2>7. /\ Live(p) /\ proc[p].do # "asked"
        /\ Attended /\ ~proc[p].bg => Kids(p) = {}
    BY <1>1, ChildlessIs
  <2>8. Attended /\ ~mine.bg => RoomFor(Kids(p), mine, yours)
    BY <2>4, <2>7 DEF RoomFor
  <2>9. yours.do \in Starting
    BY <2>5 DEF Starting
  <2> QED  BY <1>1, <2>3, <2>4, <2>5, <2>6, <2>7, <2>8, <2>9, ForkKeeps
<1> QED  BY <1>2, <1>3 DEF main

LEMMA ChildStep ==
  ASSUME ShellInv, NEW p \in Pids, child(p)
  PROVE  ShellInv'
<1>1. proc[p].do = "line" /\ proc[p].do \in Childless /\ Live(p) /\ ~Reads(proc[p])
  BY DEF child, Childless, Live, Reads
<1>2. ASSUME proc' = [proc EXCEPT ![p].do = "wait", ![p].waits = 1,
                                  ![p].then = "prompt", ![p].cmd = Nothing],
             strays' = strays + 1
      PROVE  ShellInv'
  <2>1. PICK old : old = proc[p] /\ Process(old)
    BY RecordOf
  <2>2. PICK r : r = [old EXCEPT !.do = "wait", !.waits = 1, !.then = "prompt", !.cmd = Nothing]
    OBVIOUS
  <2>3. proc' = [proc EXCEPT ![p] = r]
    BY <1>2, <2>1, <2>2, RecordOf
  <2>4. Process(r) /\ r.do = "wait" /\ r.parent = old.parent
    BY <2>1, <2>2 DEF Process, Kept, Doings
  <2>5. Goes(p, r)
    BY <2>1, <2>3, <2>4 DEF Goes
  <2>6. ShellTypeOK /\ OneReader /\ strays' \in Nat
    BY <1>2, TypeParts DEF ShellInv
  <2>7. ShellTypeOK' /\ \A q \in Pids : q # p => proc'[q] = proc[q]
    BY <1>1, <2>5, <2>6, GoesIs
  <2>8. Shells' \subseteq Shells \cup {p}
    BY <2>7 DEF Shells
  <2> QED  BY <1>2, <2>6, <2>7, <2>8, StrayShell
<1>3. ASSUME proc' = Ended({p}), strays' = strays PROVE ShellInv'
  BY <1>1, <1>3, ChildlessEnds
<1>4. ASSUME NEW cmd, proc' = [proc EXCEPT ![p].do = "run", ![p].cmd = cmd], strays' = strays
      PROVE  ShellInv'
  <2>1. PICK old : old = proc[p] /\ Process(old)
    BY RecordOf
  <2>2. PICK r : r = [old EXCEPT !.do = "run", !.cmd = cmd]
    OBVIOUS
  <2>3. proc' = [proc EXCEPT ![p] = r]
    BY <1>4, <2>1, <2>2, RecordOf
  <2>4. Process(r) /\ r.do = "run" /\ r.parent = old.parent /\ r.bg = old.bg
    BY <2>1, <2>2 DEF Process, Kept, Doings
  <2>5. Goes(p, r) /\ ~Reads(r)
    BY <2>1, <2>3, <2>4 DEF Goes, Reads
  <2> QED  BY <1>1, <1>4, <2>1, <2>4, <2>5, ChildlessGoes
<1> QED  BY <1>2, <1>3, <1>4 DEF child

LEMMA WaitStep ==
  ASSUME ShellInv, NEW p \in Pids, wait(p)
  PROVE  ShellInv'
<1>1. /\ proc[p].do = "wait" /\ proc[p].waits > 0 /\ strays' = strays /\ Live(p)
      /\ ShellTypeOK /\ strays \in Nat
  BY TypeParts DEF wait, Live, ShellInv
<1>2. PICK r : r = [proc[p] EXCEPT !.waits = proc[p].waits - 1]
  OBVIOUS
<1>3. proc[p].waits - 1 \in {0, 1, 2}
  BY <1>1, TypeParts
<1>4. /\ Process(r) /\ r.do = "wait" /\ r.waits = proc[p].waits - 1
      /\ r.then = proc[p].then /\ r.parent = proc[p].parent /\ r.bg = proc[p].bg
  <2>1. PICK k \in {0, 1, 2} : k = proc[p].waits - 1
    BY <1>3
  <2>2. PICK old : old = proc[p] /\ Process(old)
    BY RecordOf
  <2>3. r = [old EXCEPT !.waits = k]
    BY <1>2, <2>1, <2>2
  <2>4. /\ Process(r) /\ r.do = old.do /\ r.waits = k
        /\ r.then = old.then /\ r.parent = old.parent /\ r.bg = old.bg
    BY <2>2, <2>3 DEF Process, Kept
  <2> QED  BY <1>1, <2>1, <2>2, <2>4
<1>5. ASSUME NEW c \in Pids, proc[c].do = "zombie", proc[c].parent = p,
             proc' = [proc EXCEPT ![c] = None, ![p].waits = @ - 1]
      PROVE  ShellInv'
  <2>1. c # p
    BY <1>1, <1>5
  <2>2. proc' = [proc EXCEPT ![c] = None, ![p] = r]
    BY <1>2, <1>5, <2>1, RecordOf
  <2>3. Reaps(p, r, c)
    BY <1>4, <1>5, <2>2 DEF Reaps
  <2> QED  BY <1>1, <1>4, <2>3, ReapsKeeps
<1>6. ASSUME \A c \in Pids : proc[c].do # "none" => proc[c].parent # p,
             proc' = [proc EXCEPT ![p].waits = @ - 1]
      PROVE  ShellInv'
  <2>1. proc' = [proc EXCEPT ![p] = r]
    BY <1>2, <1>6, RecordOf
  <2>2. Goes(p, r) /\ (Reads(r) <=> Reads(proc[p]))
    BY <1>1, <1>4, <2>1 DEF Goes, Reads
  <2>3. Kids(p)' = {} /\ proc'[p].waits \in {0, 1, 2}
    <3>1. Kids(p)' = Kids(p) /\ proc'[p] = r
      BY <1>1, <2>2, GoesIs
    <3>2. Kids(p) = {}
      BY <1>6 DEF Kids
    <3> QED  BY <1>3, <1>4, <3>1, <3>2
  <2>4. Minded(p)'
    BY <2>3, MindsNone
  <2> QED  BY <1>1, <1>4, <2>2, <2>4, GoesKeeps
<1> QED  BY <1>5, <1>6 DEF wait

LEMMA WaitedStep ==
  ASSUME ShellInv, NEW p \in Pids, waited(p)
  PROVE  ShellInv'
<1>1. /\ proc[p].do = "wait" /\ proc[p].waits = 0 /\ strays' = strays /\ Live(p)
      /\ ShellTypeOK /\ strays \in Nat /\ proc[p].then \in {"exit", "run", "prompt"}
  BY TypeParts DEF waited, Exit, Live, ShellInv
<1>2. ASSUME Attended, ~proc[p].bg
      PROVE  \/ Kids(p) = {}
             \/ proc[p].then = "exit" /\ \A c \in Kids(p) : Live(c) => proc[c].bg
  <2>1. Minded(p)
    BY <1>1, <1>2 DEF Attended
  <2>2. CASE Cardinality(Kids(p)) <= proc[p].waits
    <3>1. Cardinality(Kids(p)) = 0
      BY <1>1, <2>2, KidsFinite
    <3> QED  BY <3>1, KidsFinite, FS_EmptySet
  <2>3. CASE proc[p].then = "exit" /\ \A c \in Kids(p) : Live(c) => proc[c].bg
    BY <2>3
  <2> QED  BY <1>1, <2>1, <2>2, <2>3 DEF Minded
<1>3. CASE proc[p].then = "exit"
  <2>1. proc' = Ended({p})
    BY <1>3 DEF waited, Exit
  <2>2. Attended /\ ~proc[p].bg => \A c \in Kids(p) : Live(c) => proc[c].bg
    BY <1>2
  <2> QED  BY <1>1, <2>1, <2>2, EndKeeps
<1>4. CASE proc[p].then # "exit"
  <2>1. PICK turn : turn = IF proc[p].then = "run" THEN proc[p].turn + 1 ELSE proc[p].turn
    OBVIOUS
  <2>2. PICK r : r = [proc[p] EXCEPT !.do = proc[p].then, !.turn = turn]
    OBVIOUS
  <2>3. proc' = [proc EXCEPT ![p] = r]
    BY <1>4, <2>1, <2>2, RecordOf DEF waited
  <2>4. /\ Process(r) /\ r.do = proc[p].then /\ r.parent = proc[p].parent /\ r.bg = proc[p].bg
        /\ r.waits = 0
    <3>1. PICK do \in {"run", "prompt"} : do = proc[p].then
      BY <1>1, <1>4
    <3>2. PICK old : old = proc[p] /\ Process(old)
      BY RecordOf
    <3>3. r = [old EXCEPT !.do = do, !.turn = turn]
      BY <2>2, <3>1, <3>2
    <3>4. do \in Doings
      BY DEF Doings
    <3>5. /\ Process(r) /\ r.do = do /\ r.parent = old.parent /\ r.bg = old.bg
          /\ r.waits = old.waits
      BY <3>2, <3>3, <3>4 DEF Process, Kept
    <3> QED  BY <1>1, <3>1, <3>2, <3>5
  <2>5. Goes(p, r) /\ (Reads(r) <=> Reads(proc[p])) /\ r.do # "asked"
    BY <1>1, <1>4, <2>3, <2>4 DEF Goes, Reads
  <2>6. Kids(p)' = Kids(p) /\ proc'[p] = r
    BY <1>1, <2>5, GoesIs
  <2>7. ASSUME Attended, ~r.bg PROVE Minded(p)'
    <3>1. Kids(p)' = {} /\ proc'[p].waits \in {0, 1, 2}
      BY <1>2, <1>4, <2>4, <2>6, <2>7
    <3> QED  BY <3>1, MindsNone
  <2> QED  BY <1>1, <2>4, <2>5, <2>7, GoesKeeps
<1> QED  BY <1>3, <1>4

-----------------------------------------------------------------------------
\* What a process does to its own record, without its children, its parent or
\* whether it runs in the background.
Proceeds(p, r) ==
    /\ r = Kept(r) /\ r.do \in {"run", "program", "fork left"}
    /\ r.then = proc[p].then /\ r.waits = proc[p].waits
    /\ r.parent = proc[p].parent /\ r.bg = proc[p].bg

LEMMA ProceedsKeeps ==
  ASSUME ShellInv, NEW p \in Pids, proc[p].do \in Childless \ {"prompt"}, NEW r, Proceeds(p, r),
         proc' = [proc EXCEPT ![p] = r], strays' = strays
  PROVE  ShellInv'
<1>1. Process(r)
  <2>1. Process(proc[p])
    BY RecordOf
  <2> QED  BY <2>1 DEF Proceeds, Process, Doings
<1>2. /\ r.do \notin {"none", "zombie"} /\ r.do # "asked" /\ r.parent = proc[p].parent
      /\ r.bg = proc[p].bg
  BY DEF Proceeds
<1>3. Goes(p, r)
  BY <1>1, <1>2 DEF Goes
<1>4. ~Reads(r) /\ ~Reads(proc[p])
  BY DEF Reads, Proceeds, Childless
<1>5. proc[p].do \in Childless
  OBVIOUS
<1> QED  BY <1>2, <1>3, <1>4, <1>5, ChildlessGoes

LEMMA RunProgramStep ==
  ASSUME ShellInv, NEW p \in Pids, proc[p].do = "run", RunProgram(p)
  PROVE  ShellInv'
<1>1. proc[p].do \in Childless /\ proc[p].do \in Childless \ {"prompt"} /\ strays' = strays
  BY DEF Childless, RunProgram, Exit
<1>2. CASE proc' = Ended({p})
  BY <1>1, <1>2, ChildlessEnds
<1>3. CASE proc' = [proc EXCEPT ![p].do = "program"]
  <2>1. PICK old : old = proc[p] /\ Process(old)
    BY RecordOf
  <2>2. PICK r : r = [old EXCEPT !.do = "program"]
    OBVIOUS
  <2>3. proc' = [proc EXCEPT ![p] = r]
    BY <1>3, <2>1, <2>2, RecordOf
  <2>4. Proceeds(p, r)
    BY <2>1, <2>2 DEF Proceeds, Process, Kept
  <2> QED  BY <1>1, <2>3, <2>4, ProceedsKeeps
<1> QED  BY <1>2, <1>3 DEF RunProgram, Exit

LEMMA RunRedirectedStep ==
  ASSUME ShellInv, NEW p \in Pids, proc[p].do = "run", RunRedirected(p)
  PROVE  ShellInv'
<1>1. proc[p].do \in Childless /\ proc[p].do \in Childless \ {"prompt"} /\ strays' = strays
  BY DEF Childless, RunRedirected, Exit
<1>2. CASE proc' = Ended({p})
  BY <1>1, <1>2, ChildlessEnds
<1>3. CASE proc' # Ended({p})
  <2>1. PICK old : old = proc[p] /\ Process(old)
    BY RecordOf
  <2>2. PICK in : in = IF old.cmd.type = "<" THEN 0 ELSE old.in
    OBVIOUS
  <2>3. PICK out : out = IF old.cmd.type = ">" THEN 0 ELSE old.out
    OBVIOUS
  <2>4. PICK cmd : cmd = old.cmd.cmd
    OBVIOUS
  <2>5. PICK r : r = [old EXCEPT !.cmd = cmd, !.in = in, !.out = out]
    OBVIOUS
  <2>6. proc' = [proc EXCEPT ![p] = r]
    BY <1>3, <2>1, <2>2, <2>3, <2>4, <2>5, RecordOf DEF RunRedirected, Exit
  <2>7. Proceeds(p, r)
    BY <2>1, <2>5 DEF Proceeds, Process, Kept
  <2> QED  BY <1>1, <2>6, <2>7, ProceedsKeeps
<1> QED  BY <1>2, <1>3

LEMMA RunPipeStep ==
  ASSUME ShellInv, NEW p \in Pids, proc[p].do = "run", RunPipe(p)
  PROVE  ShellInv'
<1>1. proc[p].do \in Childless /\ proc[p].do \in Childless \ {"prompt"} /\ strays' = strays
  BY DEF Childless, RunPipe, Exit
<1>2. CASE proc' = Ended({p})
  BY <1>1, <1>2, ChildlessEnds
<1>3. CASE proc' # Ended({p})
  <2>1. PICK old : old = proc[p] /\ Process(old)
    BY RecordOf
  <2>2. PICK k : k = Min(FreePipes)
    OBVIOUS
  <2>3. PICK own : own = old.own \cup {k}
    OBVIOUS
  <2>4. PICK r : r = [old EXCEPT !.p = k, !.own = own, !.do = "fork left"]
    OBVIOUS
  <2>5. proc' = [proc EXCEPT ![p] = r]
    BY <1>3, <2>1, <2>2, <2>3, <2>4, RecordOf DEF RunPipe, Exit
  <2>6. Proceeds(p, r)
    BY <2>1, <2>4 DEF Proceeds, Process, Kept
  <2> QED  BY <1>1, <2>5, <2>6, ProceedsKeeps
<1> QED  BY <1>2, <1>3

LEMMA RunListStep ==
  ASSUME ShellInv, NEW p \in Pids, proc[p].do = "run", RunList(p)
  PROVE  ShellInv'
<1>1. proc[p].do \in Childless /\ strays' = strays
  BY DEF Childless, RunList
<1>2. PICK old : old = proc[p] /\ Process(old)
  BY RecordOf
<1>3. PICK left : left = old.cmd.left
  OBVIOUS
<1>4. PICK right : right = old.cmd.right
  OBVIOUS
<1>5. PICK mine : mine = [old EXCEPT !.do = "wait", !.waits = 1, !.then = "run", !.cmd = right]
  OBVIOUS
<1>6. PICK yours : yours = [old EXCEPT !.cmd = left]
  OBVIOUS
<1>7. fork1(p, mine, yours)
  BY <1>2, <1>3, <1>4, <1>5, <1>6 DEF RunList, Awaiting
<1>8. /\ Process(mine) /\ mine.do = "wait" /\ mine.waits = 1 /\ mine.then = "run"
      /\ mine.parent = old.parent /\ mine.bg = old.bg
  BY <1>2, <1>5 DEF Process, Kept, Doings
<1>9. Process(yours) /\ yours.do = old.do /\ yours.bg = old.bg
  BY <1>2, <1>6 DEF Process, Kept
<1>10. (Reads(mine) <=> Reads(proc[p])) /\ yours.do \in Starting
  BY <1>2, <1>8, <1>9 DEF Reads, Starting
<1>11. /\ Live(p) /\ proc[p].do # "asked"
       /\ Attended /\ ~proc[p].bg => Kids(p) = {}
  BY <1>1, ChildlessIs
<1>12. Attended /\ ~mine.bg => RoomFor(Kids(p), mine, yours)
  BY <1>2, <1>8, <1>11 DEF RoomFor
<1> QED  BY <1>1, <1>2, <1>7, <1>8, <1>9, <1>10, <1>11, <1>12, ForkKeeps

LEMMA RunBackgroundStep ==
  ASSUME ShellInv, NEW p \in Pids, proc[p].do = "run", RunBackground(p)
  PROVE  ShellInv'
<1>1. proc[p].do \in Childless /\ strays' = strays
  BY DEF Childless, RunBackground
<1>2. PICK old : old = proc[p] /\ Process(old)
  BY RecordOf
<1>3. PICK cmd : cmd = old.cmd.cmd
  OBVIOUS
<1>4. PICK mine : mine = [old EXCEPT !.do = "wait", !.waits = 0, !.then = "exit", !.cmd = Nothing]
  OBVIOUS
<1>5. PICK yours : yours = [old EXCEPT !.cmd = cmd, !.bg = TRUE]
  OBVIOUS
<1>6. fork1(p, mine, yours)
  BY <1>2, <1>3, <1>4, <1>5 DEF RunBackground, Awaiting
<1>7. /\ Process(mine) /\ mine.do = "wait" /\ mine.waits = 0 /\ mine.then = "exit"
      /\ mine.parent = old.parent /\ mine.bg = old.bg
  BY <1>2, <1>4 DEF Process, Kept, Doings
<1>8. Process(yours) /\ yours.do = old.do /\ yours.bg
  BY <1>2, <1>5 DEF Process, Kept
<1>9. (Reads(mine) <=> Reads(proc[p])) /\ yours.do \in Starting
  BY <1>2, <1>7, <1>8 DEF Reads, Starting
<1>10. /\ Live(p) /\ proc[p].do # "asked"
       /\ Attended /\ ~proc[p].bg => Kids(p) = {}
  BY <1>1, ChildlessIs
<1>11. Attended /\ ~mine.bg => RoomFor(Kids(p), mine, yours)
  BY <1>2, <1>7, <1>8, <1>10 DEF RoomFor
<1> QED  BY <1>1, <1>2, <1>6, <1>7, <1>8, <1>9, <1>10, <1>11, ForkKeeps

LEMMA PipeForksStep ==
  ASSUME ShellInv, NEW p \in Pids, PipeForks(p)
  PROVE  ShellInv'
<1>1. PICK old : old = proc[p] /\ Process(old)
  BY RecordOf
<1>2. strays' = strays
  BY DEF PipeForks
<1>3. ASSUME proc[p].do = "fork left",
             fork1(p, [proc[p] EXCEPT !.do = "fork right"], [proc[p] EXCEPT !.do = "left"])
      PROVE  ShellInv'
  <2>1. PICK mine : mine = [old EXCEPT !.do = "fork right"]
    OBVIOUS
  <2>2. PICK yours : yours = [old EXCEPT !.do = "left"]
    OBVIOUS
  <2>3. fork1(p, mine, yours)
    BY <1>1, <1>3, <2>1, <2>2
  <2>4. Process(mine) /\ mine.do = "fork right" /\ mine.parent = old.parent /\ mine.bg = old.bg
    BY <1>1, <2>1 DEF Process, Kept, Doings
  <2>5. Process(yours) /\ yours.do = "left" /\ yours.bg = old.bg
    BY <1>1, <2>2 DEF Process, Kept, Doings
  <2>6. (Reads(mine) <=> Reads(proc[p])) /\ yours.do \in Starting
    BY <1>3, <2>4, <2>5 DEF Reads, Starting
  <2>7. /\ Live(p) /\ proc[p].do # "asked"
        /\ Attended /\ ~proc[p].bg => Kids(p) = {}
    <3>1. proc[p].do \in Childless
      BY <1>3 DEF Childless
    <3> QED  BY <3>1, ChildlessIs
  <2>8. Attended /\ ~mine.bg => RoomFor(Kids(p), mine, yours)
    BY <1>1, <2>4, <2>7 DEF RoomFor
  <2> QED  BY <1>1, <1>2, <2>3, <2>4, <2>5, <2>6, <2>7, <2>8, ForkKeeps
<1>4. ASSUME proc[p].do = "fork right",
             fork1(p, [Awaiting(p, 2, "exit") EXCEPT !.cmd = Nothing, !.own = @ \ {proc[p].p}],
                   [proc[p] EXCEPT !.do = "right"])
      PROVE  ShellInv'
  <2>1. PICK own : own = old.own \ {old.p}
    OBVIOUS
  <2>2. PICK mine : mine = [old EXCEPT !.do = "wait", !.waits = 2, !.then = "exit",
                                       !.cmd = Nothing, !.own = own]
    OBVIOUS
  <2>3. PICK yours : yours = [old EXCEPT !.do = "right"]
    OBVIOUS
  <2>4. fork1(p, mine, yours)
    BY <1>1, <1>4, <2>1, <2>2, <2>3 DEF Awaiting
  <2>5. /\ Process(mine) /\ mine.do = "wait" /\ mine.waits = 2 /\ mine.then = "exit"
        /\ mine.parent = old.parent /\ mine.bg = old.bg
    BY <1>1, <2>2 DEF Process, Kept, Doings
  <2>6. Process(yours) /\ yours.do = "right" /\ yours.bg = old.bg
    BY <1>1, <2>3 DEF Process, Kept, Doings
  <2>7. (Reads(mine) <=> Reads(proc[p])) /\ yours.do \in Starting
    BY <1>4, <2>5, <2>6 DEF Reads, Starting
  <2>8. Live(p) /\ proc[p].do # "asked"
    BY <1>4 DEF Live
  <2>9. Attended /\ ~mine.bg => RoomFor(Kids(p), mine, yours)
    <3>1. ASSUME Attended, ~mine.bg PROVE Cardinality(Kids(p)) <= 1
      <4>1. Minded(p)
        BY <1>1, <2>5, <2>8, <3>1 DEF Attended
      <4> QED  BY <1>4, <4>1 DEF Minded
    <3> QED  BY <2>5, <3>1 DEF RoomFor
  <2> QED  BY <1>1, <1>2, <2>4, <2>5, <2>6, <2>7, <2>8, <2>9, ForkKeeps
<1> QED  BY <1>3, <1>4 DEF PipeForks

LEMMA PipeChildStep ==
  ASSUME ShellInv, NEW p \in Pids, PipeChild(p)
  PROVE  ShellInv'
<1>1. /\ proc[p].do \in {"left", "right"} /\ proc[p].do \in Childless \ {"prompt"}
      /\ strays' = strays
  BY DEF Childless, PipeChild
<1>2. PICK old : old = proc[p] /\ Process(old)
  BY RecordOf
<1>3. PICK own : own = old.own \ {old.p}
  OBVIOUS
<1>4. PICK k : k = old.p
  OBVIOUS
<1>7. proc' = [proc EXCEPT ![p] =
          IF old.do = "left"
          THEN [old EXCEPT !.do = "run", !.cmd = old.cmd.left, !.out = k, !.own = own]
          ELSE [old EXCEPT !.do = "run", !.cmd = old.cmd.right, !.in = k, !.own = own,
                           !.stage = old.stage + 1]]
  BY <1>2, <1>3, <1>4, Zenon DEF PipeChild
<1>5. CASE old.do = "left"
  <2>1. PICK cmd : cmd = old.cmd.left
    OBVIOUS
  <2>2. PICK r : r = [old EXCEPT !.do = "run", !.cmd = cmd, !.out = k, !.own = own]
    OBVIOUS
  <2>3. proc' = [proc EXCEPT ![p] = r]
    BY <1>7, <1>5, <2>1, <2>2
  <2>4. Proceeds(p, r)
    BY <1>2, <2>2 DEF Proceeds, Process, Kept
  <2> QED  BY <1>1, <2>3, <2>4, ProceedsKeeps
<1>6. CASE old.do # "left"
  <2>1. PICK cmd : cmd = old.cmd.right
    OBVIOUS
  <2>2. PICK stage : stage = old.stage + 1
    OBVIOUS
  <2>3. PICK r : r = [old EXCEPT !.do = "run", !.cmd = cmd, !.in = k, !.own = own,
                                 !.stage = stage]
    OBVIOUS
  <2>4. proc' = [proc EXCEPT ![p] = r]
    BY <1>7, <1>6, <2>1, <2>2, <2>3
  <2>5. Proceeds(p, r)
    BY <1>2, <2>3 DEF Proceeds, Process, Kept
  <2> QED  BY <1>1, <2>4, <2>5, ProceedsKeeps
<1> QED  BY <1>5, <1>6

\* A program is full, or it ends.
LEMMA ProgramStep ==
  ASSUME ShellInv, NEW p \in Pids, Name(p) # "none", strays' = strays,
         proc' = Ended({p}) \/ \E full : proc' = [proc EXCEPT ![p].full = full]
  PROVE  ShellInv'
<1>1. /\ proc[p].do = "program" /\ proc[p].do \in Childless
      /\ proc[p].do \in Childless \ {"prompt"}
  BY DEF Childless, Name
<1>2. CASE proc' = Ended({p})
  BY <1>1, <1>2, ChildlessEnds
<1>3. ASSUME NEW full, proc' = [proc EXCEPT ![p].full = full] PROVE ShellInv'
  <2>1. PICK old : old = proc[p] /\ Process(old)
    BY RecordOf
  <2>2. PICK r : r = [old EXCEPT !.full = full]
    OBVIOUS
  <2>3. proc' = [proc EXCEPT ![p] = r]
    BY <1>3, <2>1, <2>2, RecordOf
  <2>4. Proceeds(p, r)
    BY <1>1, <2>1, <2>2 DEF Proceeds, Process, Kept
  <2> QED  BY <1>1, <2>3, <2>4, ProceedsKeeps
<1> QED  BY <1>2, <1>3

LEMMA ProgramsStep ==
  ASSUME ShellInv, NEW p \in Pids, Read(p) \/ Write(p) \/ NoProgram(p)
  PROVE  ShellInv'
<1>1. ASSUME Read(p) PROVE ShellInv'
  <2>1. Name(p) # "none" /\ strays' = strays
    BY <1>1 DEF Read
  <2>2. proc' = Ended({p}) \/ proc' = [proc EXCEPT ![p].full = TRUE]
    BY <1>1 DEF Read
  <2> QED  BY <2>1, <2>2, ProgramStep
<1>2. ASSUME Write(p) PROVE ShellInv'
  <2>1. Name(p) # "none" /\ strays' = strays
    BY <1>2 DEF Write
  <2>2. proc' = Ended({p}) \/ proc' = [proc EXCEPT ![p].full = FALSE]
    BY <1>2 DEF Write
  <2> QED  BY <2>1, <2>2, ProgramStep
<1>3. ASSUME NoProgram(p) PROVE ShellInv'
  <2>1. Name(p) # "none" /\ strays' = strays /\ proc' = Ended({p})
    BY <1>3 DEF NoProgram, Exit
  <2> QED  BY <2>1, ProgramStep
<1> QED  BY <1>1, <1>2, <1>3

\* ctrl-c: the processes of S are killed and all others ask.
LEMMA InterruptStep ==
  ASSUME ShellInv, Interrupt
  PROVE  ShellInv' /\ AllAsked'
<1>1. ShellTypeOK /\ strays' = strays /\ strays \in Nat
  BY TypeParts DEF ShellInv, Interrupt
<1>2. PICK S \in SUBSET Pids : S = {p \in Pids : Name(p) # "none"}
  OBVIOUS
<1>3. \A p \in S : Live(p)
  BY <1>2 DEF Name, Live
<1>4. PICK left : left = Ended(S)
  OBVIOUS
<1>5. LeftOf(S, left)
  BY <1>1, <1>3, <1>4, EndedAre
<1>6. proc' = [q \in Pids |->
        IF left[q].do \in {"none", "zombie"} THEN left[q]
        ELSE [left[q] EXCEPT !.do = "asked", !.cmd = Nothing, !.waits = 0]]
  BY <1>2, <1>4, Zenon DEF Interrupt
<1>7. ASSUME NEW q \in Pids
      PROVE  /\ Process(proc'[q]) /\ proc'[q].parent = left[q].parent
             /\ proc'[q].do \in {"none", "zombie", "asked"}
             /\ proc'[q].do = "none" <=> left[q].do = "none"
             /\ Live(q)' <=> left[q].do \notin {"none", "zombie"}
  <2>1. PICK old : old = left[q] /\ Process(old)
    BY <1>5 DEF LeftOf
  <2>2. CASE old.do \in {"none", "zombie"}
    BY <1>6, <2>1, <2>2 DEF Live
  <2>3. CASE old.do \notin {"none", "zombie"}
    <3>1. PICK r : r = [old EXCEPT !.do = "asked", !.cmd = Nothing, !.waits = 0]
      OBVIOUS
    <3>2. Process(r) /\ r.do = "asked" /\ r.parent = old.parent
      BY <2>1, <3>1 DEF Process, Kept, Doings
    <3>3. proc'[q] = r
      BY <1>6, <2>1, <2>3, <3>1
    <3> QED  BY <2>1, <2>3, <3>2, <3>3 DEF Live
  <2> QED  BY <2>2, <2>3
<1>8. ASSUME NEW q \in Pids, ~Live(q)', NEW d \in Kids(q)' PROVE FALSE
  <2>1. d \in Pids /\ left[d].do # "none" /\ left[d].parent = q /\ q # 0
    BY <1>7, <1>8, PidsAre DEF Kids
  <2>2. proc[d].do # "none" /\ proc[d].parent = q /\ q \notin S
    <3>1. CASE d \in S
      BY <1>3, <1>5, <2>1, <3>1 DEF LeftOf, Live
    <3>2. CASE d \notin S
      BY <1>5, <2>1, <3>2 DEF LeftOf
    <3> QED  BY <3>1, <3>2
  <2>3. Live(q)
    BY <1>1, <2>1, <2>2, TypeParts DEF Kids
  <2>4. left[q].do = proc[q].do
    BY <1>5, <2>2, <2>3 DEF LeftOf
  <2> QED  BY <1>7, <1>8, <2>3, <2>4 DEF Live
<1>9. ShellTypeOK'
  <2>1. proc' = [q \in Pids |-> proc'[q]]
    BY <1>6
  <2>2. \A q \in Pids : ~Live(q)' => Kids(q)' = {}
    BY <1>8
  <2> QED  BY <1>1, <1>7, <2>1, <2>2 DEF ShellTypeOK
<1>10. Shells' = {}
  BY <1>7 DEF Shells
<1>11. OneReader'
  <2>1. Cardinality(Shells') = 0
    BY <1>10, FS_EmptySet
  <2> QED  BY <1>1, <2>1 DEF OneReader
<1>12. AllAsked'
  BY <1>7 DEF AllAsked, Live
<1> QED  BY <1>9, <1>11, <1>12 DEF ShellInv

LEMMA CtrlCStep ==
  ASSUME ShellInv, NEW p \in Pids, ctrl_c(p)
  PROVE  ShellInv'
<1>1. proc[p].do = "asked" /\ Live(p) /\ ~Attended
  BY DEF ctrl_c, Live, Attended
<1>2. ASSUME Exit(p) PROVE ShellInv'
  <2>1. proc' = Ended({p}) /\ strays' = strays
    BY <1>2 DEF Exit
  <2> QED  BY <1>1, <2>1, EndKeeps
<1>3. ASSUME proc' = [proc EXCEPT ![p].do = "prompt"], strays' = strays + 1 PROVE ShellInv'
  <2>1. PICK old : old = proc[p] /\ Process(old)
    BY RecordOf
  <2>2. PICK r : r = [old EXCEPT !.do = "prompt"]
    OBVIOUS
  <2>3. proc' = [proc EXCEPT ![p] = r]
    BY <1>3, <2>1, <2>2, RecordOf
  <2>4. Process(r) /\ r.do = "prompt" /\ r.parent = old.parent
    BY <2>1, <2>2 DEF Process, Kept, Doings
  <2>5. Goes(p, r)
    BY <2>1, <2>3, <2>4 DEF Goes
  <2>6. ShellTypeOK /\ OneReader /\ strays' \in Nat
    BY <1>3, TypeParts DEF ShellInv
  <2>7. ShellTypeOK' /\ \A q \in Pids : q # p => proc'[q] = proc[q]
    BY <1>1, <2>5, <2>6, GoesIs
  <2>8. Shells' \subseteq Shells \cup {p}
    BY <2>7 DEF Shells
  <2> QED  BY <1>3, <2>6, <2>7, <2>8, StrayShell
<1> QED  BY <1>2, <1>3 DEF ctrl_c

-----------------------------------------------------------------------------
LEMMA ShellStarts == Init => ShellInv
<1> SUFFICES ASSUME Init PROVE ShellInv
  OBVIOUS
<1>1. PICK first : first = [None EXCEPT !.do = "prompt"]
  OBVIOUS
<1>2. Process(first) /\ first.do = "prompt" /\ first.parent = 0 /\ ~first.bg
  BY <1>1 DEF None, Process, Kept, Doings, Nothing
<1>3. proc = [p \in Pids |-> IF p = Root THEN first ELSE None]
  BY <1>1 DEF Init
<1>4. proc[Root] = first /\ \A p \in Pids : p # Root => proc[p] = None
  BY <1>3, PidsAre
<1>5. \A p \in Pids : Kids(p) = {}
  BY <1>2, <1>4, NoneIs, PidsAre DEF Kids
<1>6. ShellTypeOK
  <2>1. \A p \in Pids : Process(proc[p])
    BY <1>2, <1>4, NoneIs
  <2>2. proc = [p \in Pids |-> proc[p]] /\ strays \in Nat
    BY <1>3 DEF Init
  <2> QED  BY <1>5, <2>1, <2>2 DEF ShellTypeOK
<1>7. Shells = {Root}
  BY <1>2, <1>4, NoneIs, PidsAre DEF Shells
<1>8. OneReader
  <2>1. Cardinality(Shells) = 1
    BY <1>7, FS_Singleton
  <2>2. strays = 0
    BY DEF Init
  <2> QED  BY <2>1, <2>2 DEF OneReader
<1>9. Attended
  <2>1. \A p \in Pids : proc[p].do # "asked" /\ (p # Root => ~Live(p))
    BY <1>2, <1>4, NoneIs DEF Live
  <2>2. Minded(Root)
    BY <1>2, <1>4, <1>5, PidsAre DEF Minded
  <2>3. Foreground = {}
    BY <2>1 DEF Foreground
  <2>4. ~proc[Root].bg
    BY <1>2, <1>4
  <2> QED  BY <1>7, <2>1, <2>2, <2>3, <2>4 DEF Attended
<1> QED  BY <1>6, <1>8, <1>9 DEF ShellInv

LEMMA ShellIdle == ShellInv /\ UNCHANGED vars => ShellInv'
<1> SUFFICES ASSUME ShellInv, proc' = proc, strays' = strays PROVE ShellInv'
  BY DEF vars
<1>1. \A p : Live(p)' = Live(p) /\ Kids(p)' = Kids(p)
  BY DEF Live, Kids
<1>2. Shells' = Shells /\ Foreground' = Foreground
  BY <1>1 DEF Shells, Foreground
<1>3. \A p : Minded(p)' = Minded(p)
  BY <1>1 DEF Minded
<1>4. Attended' = Attended /\ LeftBehind' = LeftBehind /\ AllAsked' = AllAsked
  BY <1>1, <1>2, <1>3 DEF Attended, LeftBehind, AllAsked
<1>5. ShellTypeOK' = ShellTypeOK /\ OneReader' = OneReader
  BY <1>1, <1>2 DEF ShellTypeOK, OneReader
<1> QED  BY <1>4, <1>5 DEF ShellInv

LEMMA ShellSteps == ShellInv /\ [Next]_vars => ShellInv'
<1> SUFFICES ASSUME ShellInv, [Next]_vars PROVE ShellInv'
  OBVIOUS
<1>1. CASE UNCHANGED vars
  BY <1>1, ShellIdle
<1>2. CASE Interrupt
  BY <1>2, InterruptStep
<1>3. ASSUME NEW p \in Pids, main(p) \/ ctrl_c(p) PROVE ShellInv'
  BY <1>3, MainStep, CtrlCStep
<1>4. ASSUME NEW p \in Pids, Step(p) PROVE ShellInv'
  <2>1. ASSUME runcmd(p) PROVE ShellInv'
    <3>1. proc[p].do = "run"
      BY <2>1 DEF runcmd
    <3> QED  BY <2>1, <3>1, RunProgramStep, RunRedirectedStep, RunListStep, RunBackgroundStep,
                RunPipeStep DEF runcmd
  <2>2. ASSUME child(p) \/ wait(p) \/ waited(p) PROVE ShellInv'
    BY <2>2, ChildStep, WaitStep, WaitedStep
  <2>3. ASSUME PipeForks(p) \/ PipeChild(p) PROVE ShellInv'
    BY <2>3, PipeForksStep, PipeChildStep
  <2>4. ASSUME Read(p) \/ Write(p) \/ NoProgram(p) PROVE ShellInv'
    BY <2>4, ProgramsStep
  <2> QED  BY <1>4, <2>1, <2>2, <2>3, <2>4 DEF Step
<1> QED  BY <1>1, <1>2, <1>3, <1>4 DEF Next

\* However many processes there are and whatever is typed: unless a ctrl-c was
\* answered with no or parentheses did not match, the shell attends to its line
\* (each process of it minds its children, each has its parent), or it has ended
\* and left only what runs in the background, or all processes ask (main's waits,
\* those of runcmd and the handler ctrl_c).
THEOREM ShellHolds == Spec => []ShellInv
<1> QED  BY ShellStarts, ShellSteps, PTL DEF Spec

\* No error of exec, open, pipe or fork leads a child back into the loop of main:
\* beside the shell only a child with unmatched parentheses, and one that answers
\* ctrl-c with no, read lines.
THEOREM OneShellReads == Spec => []OneReader
<1>1. ShellInv => OneReader
  BY DEF ShellInv
<1> QED  BY <1>1, ShellHolds, PTL

LEMMA PromptsDone == ShellInv => PromptWhenDone
<1> SUFFICES ASSUME ShellInv, proc[Root].do = "prompt", strays = 0 PROVE Foreground = {}
  BY DEF PromptWhenDone
<1>1. Live(Root) /\ Root \in Shells /\ proc[Root].do # "asked"
  BY PidsAre DEF Live, Shells
<1>2. Attended
  BY <1>1, PidsAre DEF ShellInv, LeftBehind, AllAsked
<1>3. Minded(Root)
  BY <1>1, <1>2, PidsAre DEF Attended
<1>4. Kids(Root) = {}
  BY <1>3 DEF Minded
<1> QED  BY <1>2, <1>4, ShellAlone

\* The shell prompts only when every process of its lines has ended but those in
\* the background, however deep the line forks and whichever fork fails: main,
\* runcmd's ";" and "|" and what they wait for await every child together.  (Until
\* unmatched parentheses, or a ctrl-c answered with no, leave a second shell.)
THEOREM PromptsWhenDone == Spec => []PromptWhenDone
<1> QED  BY PromptsDone, ShellHolds, PTL

-----------------------------------------------------------------------------
\* What the functions that go along a line do at position k with what they had
\* before it.
Stage(kind, s, k, v) ==
    CASE kind = "files" -> IF s[k] \in Arrows THEN redircmd(v, s[k + 1], s[k]) ELSE v
      [] kind = "back" -> backcmd(v)
      [] kind = "groups" -> IF {"(", ","} \cap ToSet(v) = {} /\ k > 1 THEN v ELSE Changed(v)
      [] kind = "spaces" -> IF s[k] = " " THEN v ELSE Append(v, s[k])
      [] kind = "at" -> IF k \in s.at THEN Append(v, s.of[k]) ELSE v

Staged(kind, s, v, n, f) ==
    f = [k \in 0 .. n |-> IF k = 0 THEN v ELSE Stage(kind, s, k, f[k - 1])]

\* Such a function exists, however long the line is.
LEMMA StagesExist ==
  ASSUME NEW kind, NEW s, NEW v, NEW n \in Nat
  PROVE  \E f : Staged(kind, s, v, n, f)
<1> SUFFICES ASSUME ~\E f : Staged(kind, s, v, n, f) PROVE FALSE
  OBVIOUS
<1>1. PICK D : D = {m \in Nat : ~\E f : Staged(kind, s, v, m, f)}
  OBVIOUS
<1>2. PICK m \in D : \A l \in D : m <= l
  <2>1. n \in D /\ D \in SUBSET Nat
    BY <1>1
  <2> QED  BY <2>1, LeastOf
<1>3. CASE m = 0
  <2>1. PICK f : f = [k \in 0 .. 0 |-> v]
    OBVIOUS
  <2>2. f = [k \in 0 .. 0 |-> IF k = 0 THEN v ELSE Stage(kind, s, k, f[k - 1])]
    BY <2>1
  <2>3. Staged(kind, s, v, m, f)
    BY <1>3, <2>2 DEF Staged
  <2> QED  BY <1>1, <2>3
<1>4. CASE m # 0
  <2>1. m \in Nat /\ m - 1 \in Nat /\ m - 1 \notin D
    BY <1>1, <1>2, <1>4
  <2>2. PICK g : Staged(kind, s, v, m - 1, g)
    BY <1>1, <2>1
  <2>3. PICK last : last = Stage(kind, s, m, g[m - 1])
    OBVIOUS
  <2>4. PICK f : f = [k \in 0 .. m |-> IF k = m THEN last ELSE g[k]]
    OBVIOUS
  <2>5. ASSUME NEW k \in 0 .. m
        PROVE  f[k] = IF k = 0 THEN v ELSE Stage(kind, s, k, f[k - 1])
    <3>1. CASE k = m
      <4>1. f[k] = last /\ k # 0 /\ k - 1 = m - 1 /\ k - 1 \in 0 .. m /\ k - 1 # m
        BY <1>4, <2>1, <2>4, <3>1
      <4>2. f[k - 1] = g[m - 1]
        BY <2>4, <4>1
      <4> QED  BY <2>3, <3>1, <4>1, <4>2
    <3>2. CASE k # m
      <4>1. k \in 0 .. m - 1
        BY <2>1, <3>2
      <4>2. g[k] = IF k = 0 THEN v ELSE Stage(kind, s, k, g[k - 1])
        BY <2>2, <4>1 DEF Staged
      <4>3. f[k] = g[k] /\ (k # 0 => f[k - 1] = g[k - 1])
        BY <2>1, <2>4, <4>1
      <4> QED  BY <4>2, <4>3
    <3> QED  BY <3>1, <3>2
  <2>6. Staged(kind, s, v, m, f)
    BY <2>4, <2>5 DEF Staged
  <2> QED  BY <1>1, <2>6
<1> QED  BY <1>3, <1>4

-----------------------------------------------------------------------------
\* The functions of the model are such functions.
StageStep(kind, s, v, n, w) ==
    [k \in 0 .. n |-> IF k = 0 THEN v ELSE Stage(kind, s, k, w[k - 1])]

StageOf(kind, s, v, n) == (CHOOSE w : w = StageStep(kind, s, v, n, w))[n]

LEMMA StagesAre ==
  ASSUME NEW kind, NEW s, NEW v, NEW n \in Nat
  PROVE  \E f : f[n] = StageOf(kind, s, v, n) /\ f[0] = v
                /\ \A k \in 1 .. n : f[k] = Stage(kind, s, k, f[k - 1])
<1>1. PICK f : f = CHOOSE w : w = StageStep(kind, s, v, n, w)
  OBVIOUS
<1>2. f = StageStep(kind, s, v, n, f)
  <2>1. PICK g : Staged(kind, s, v, n, g)
    BY StagesExist
  <2>2. g = StageStep(kind, s, v, n, g)
    BY <2>1, Zenon DEF Staged, StageStep
  <2> QED  BY <1>1, <2>2
<1>3. f[0] = v /\ \A k \in 1 .. n : f[k] = Stage(kind, s, k, f[k - 1])
  <2>1. \A k \in 0 .. n : f[k] = IF k = 0 THEN v ELSE Stage(kind, s, k, f[k - 1])
    BY <1>2 DEF StageStep
  <2> QED  BY <2>1
<1> QED  BY <1>1, <1>3 DEF StageOf

LEMMA FilesAre ==
  ASSUME NEW cmd, NEW s, Len(s) \in Nat
  PROVE  parseredirs(cmd, s) = StageOf("files", s, cmd, Len(s))
<1>1. \A k, v : Stage("files", s, k, v)
                  = IF s[k] \in Arrows THEN redircmd(v, s[k + 1], s[k]) ELSE v
  BY DEF Stage
<1>2. \A w : StageStep("files", s, cmd, Len(s), w)
               = [k \in 0 .. Len(s) |->
                    IF k = 0 THEN cmd
                    ELSE IF s[k] \in Arrows THEN redircmd(w[k - 1], s[k + 1], s[k]) ELSE w[k - 1]]
  BY <1>1 DEF StageStep
<1> QED  BY <1>2, Zenon DEF parseredirs, StageOf

LEMMA BackIs ==
  ASSUME NEW cmd, NEW n \in Nat, cmd # Error
  PROVE  InBackground(cmd, n) = StageOf("back", <<>>, cmd, n)
<1>1. \A k, v : Stage("back", <<>>, k, v) = backcmd(v)
  BY DEF Stage
<1>2. \A w : StageStep("back", <<>>, cmd, n, w)
               = [k \in 0 .. n |-> IF k = 0 THEN cmd ELSE backcmd(w[k - 1])]
  BY <1>1 DEF StageStep
<1> QED  BY <1>2, Zenon DEF InBackground, StageOf

LEMMA GroupsAre ==
  ASSUME NEW line, Len(line) \in Nat
  PROVE  changesequence(line) = StageOf("groups", line, line, Len(line) + 1)
<1>1. \A k, v : Stage("groups", line, k, v)
                  = IF {"(", ","} \cap ToSet(v) = {} /\ k > 1 THEN v ELSE Changed(v)
  BY DEF Stage
<1>2. \A w : StageStep("groups", line, line, Len(line) + 1, w)
               = [k \in 0 .. Len(line) + 1 |->
                    IF k = 0 THEN line
                    ELSE LET d == w[k - 1]
                         IN  IF {"(", ","} \cap ToSet(d) = {} /\ k > 1 THEN d ELSE Changed(d)]
  BY <1>1 DEF StageStep
<1> QED  BY <1>2, Zenon DEF changesequence, StageOf

LEMMA SpacesAre ==
  ASSUME NEW line, Len(line) \in Nat
  PROVE  Unspaced(line) = StageOf("spaces", line, <<>>, Len(line))
<1>1. \A k, v : Stage("spaces", line, k, v) = IF line[k] = " " THEN v ELSE Append(v, line[k])
  BY DEF Stage
<1>2. \A w : StageStep("spaces", line, <<>>, Len(line), w)
               = [k \in 0 .. Len(line) |->
                    IF k = 0 THEN <<>>
                    ELSE IF line[k] = " " THEN w[k - 1] ELSE Append(w[k - 1], line[k])]
  BY <1>1 DEF StageStep
<1> QED  BY <1>2, Zenon DEF Unspaced, StageOf

-----------------------------------------------------------------------------
\* The characters of a line at every stage of its way to the parser.
Chars == Words \cup {"<", ">", "&", "|", ";", "(", ")", ",", " ", "fault"}

\* Part of such a line.
LEMMA PartIsLine ==
  ASSUME NEW d \in Seq(Chars), NEW m \in Nat \ {0}, NEW n \in Int, n <= Len(d)
  PROVE  SubSeq(d, m, n) \in Seq(Chars)
<1>1. \A i \in m .. n : d[i] \in Chars
  BY LenProperties
<1> QED  BY <1>1, SubSeqProperties, n \in Int, m \in Int

LEMMA MarksAreLines ==
    /\ <<>> \in Seq(Chars) /\ Fault \in Seq(Chars)
    /\ <<";">> \in Seq(Chars) /\ <<"|">> \in Seq(Chars) /\ <<" ", ",">> \in Seq(Chars)
<1>1. \A c \in Chars : <<c>> \in Seq(Chars)
  OBVIOUS
<1>2. \A c, e \in Chars : <<c, e>> \in Seq(Chars)
  OBVIOUS
<1>3. <<>> \in Seq(Chars)
  BY EmptySeq
<1>4. /\ ";" \in Chars /\ "|" \in Chars /\ " " \in Chars
      /\ "," \in Chars /\ "fault" \in Chars
  BY DEF Chars
<1> QED  BY <1>1, <1>2, <1>3, <1>4, Zenon DEF Fault

LEMMA ConvertsToLine ==
  ASSUME NEW line \in Seq(Chars)
  PROVE  convertalias(line) \in Seq(Chars)
<1>1. " " \in Chars /\ "," \in Chars
  BY DEF Chars
<1>2. Append(line, " ") \in Seq(Chars)
  BY <1>1, AppendProperties
<1>3. Front(line) \o <<" ", ",">> \in Seq(Chars)
  <2>1. Front(line) \in Seq(Chars)
    BY PartIsLine, LenProperties DEF Front
  <2>2. <<" ", ",">> \in Seq(Chars)
    BY MarksAreLines
  <2> QED  BY <2>1, <2>2, ConcatProperties
<1> QED  BY <1>2, <1>3 DEF convertalias

LEMMA GroupBounds ==
  ASSUME NEW d \in Seq(Chars)
  PROVE  /\ Right(d) \in 0 .. Len(d) /\ (Len(d) > 0 => Right(d) > 0)
         /\ Left(d) \in Nat \ {0} /\ (Left(d) = 1 \/ Left(d) <= Right(d))
<1>1. Len(d) \in Nat /\ DOMAIN d = 1 .. Len(d)
  BY LenProperties
<1>2. Right(d) \in 0 .. Len(d) /\ (Len(d) > 0 => Right(d) > 0)
  <2>1. PICK S : S = {k \in DOMAIN d : d[k] = ")" /\ Depth(d, k) = 0}
    OBVIOUS
  <2>2. S \in SUBSET Nat /\ S \subseteq 1 .. Len(d)
    BY <1>1, <2>1
  <2>3. CASE S = {}
    BY <1>1, <2>1, <2>3 DEF Right, FirstOf
  <2>4. CASE S # {}
    <3>1. Min(S) \in S
      BY <2>2, <2>4, MinIn
    <3>2. Right(d) = Min(S)
      BY <2>1, <2>4 DEF Right, FirstOf
    <3>3. Right(d) \in 1 .. Len(d)
      BY <2>2, <3>1, <3>2
    <3> QED  BY <1>1, <3>3
  <2> QED  BY <2>3, <2>4
<1>3. Left(d) \in Nat \ {0} /\ (Left(d) = 1 \/ Left(d) <= Right(d))
  <2>1. PICK S : S = {k \in 1 .. Right(d) : d[k] = "(" /\ Depth(d, k - 1) = 0}
    OBVIOUS
  <2>2. S \in SUBSET Nat /\ S \subseteq 1 .. Right(d)
    BY <1>1, <2>1
  <2>3. CASE S = {}
    BY <1>1, <2>1, <2>3 DEF Left, FirstOf
  <2>4. CASE S # {}
    <3>1. Min(S) \in S
      BY <2>2, <2>4, MinIn
    <3>2. Left(d) = Min(S)
      BY <2>1, <2>4 DEF Left, FirstOf
    <3>3. Left(d) \in 1 .. Right(d)
      BY <2>2, <3>1, <3>2
    <3> QED  BY <1>1, <1>2, <3>3
  <2> QED  BY <2>3, <2>4
<1> QED  BY <1>2, <1>3

\* The words of a part of a line have a first and a last.
LEMMA WordBounds ==
  ASSUME NEW d, NEW from \in Nat \ {0}, NEW to \in Nat, WordsIn(d, from, to) # {}
  PROVE  /\ Min(WordsIn(d, from, to)) \in from .. to
         /\ Max(WordsIn(d, from, to)) \in from .. to
<1>1. PICK S : S = WordsIn(d, from, to)
  OBVIOUS
<1>2. S \subseteq from .. to /\ S \in SUBSET Nat /\ S \in SUBSET (1 .. to) /\ S # {}
  BY <1>1 DEF WordsIn
<1>3. Min(S) \in S
  BY <1>2, MinIn
<1>4. Max(S) \in S
  BY <1>2, MaxIn
<1> QED  BY <1>1, <1>2, <1>3, <1>4

LEMMA InnerIsLine ==
  ASSUME NEW d \in Seq(Chars)
  PROVE  Inner(d) \in Seq(Chars)
<1>1. SubSeq(d, Left(d) + 1, Right(d) - 1) \in Seq(Chars)
  <2>1. PICK m, n : m = Left(d) + 1 /\ n = Right(d) - 1
    OBVIOUS
  <2>2. m \in Nat \ {0} /\ n \in Int /\ n <= Len(d)
    BY <2>1, GroupBounds, LenProperties
  <2> QED  BY <2>1, <2>2, PartIsLine
<1>2. [k \in DOMAIN d |-> IF d[k] = "," THEN "|" ELSE d[k]] \in Seq(Chars)
  <2>1. Len(d) \in Nat /\ DOMAIN d = 1 .. Len(d) /\ \A k \in 1 .. Len(d) : d[k] \in Chars
    BY LenProperties
  <2>2. "|" \in Chars
    BY DEF Chars
  <2>3. PICK e : e = [k \in DOMAIN d |-> IF d[k] = "," THEN "|" ELSE d[k]]
    OBVIOUS
  <2>4. e \in [1 .. Len(d) -> Chars]
    BY <2>1, <2>2, <2>3
  <2>5. e \in Seq(Chars)
    BY <2>1, <2>4
  <2> QED  BY <2>3, <2>5
<1> QED  BY <1>1, <1>2 DEF Inner

LEMMA BeforeIsLine ==
  ASSUME NEW d \in Seq(Chars)
  PROVE  Before(d) \in Seq(Chars)
<1>1. Fault \in Seq(Chars) /\ <<";">> \in Seq(Chars) /\ <<>> \in Seq(Chars)
  BY MarksAreLines
<1>2. ASSUME Left(d) # 1, WordsIn(d, 1, Left(d)) # {}
      PROVE  <<";">> \o SubSeq(d, Min(WordsIn(d, 1, Len(d))), Max(WordsIn(d, 1, Left(d))))
                 \in Seq(Chars)
  <2>1. PICK m, n : m = Min(WordsIn(d, 1, Len(d))) /\ n = Max(WordsIn(d, 1, Left(d)))
    OBVIOUS
  <2>2. Len(d) \in Nat /\ Left(d) \in Nat /\ Left(d) <= Len(d)
    BY <1>2, GroupBounds, LenProperties
  <2>3. WordsIn(d, 1, Len(d)) # {}
    BY <1>2, <2>2 DEF WordsIn
  <2>4. m \in 1 .. Len(d) /\ n \in 1 .. Left(d)
    BY <1>2, <2>1, <2>2, <2>3, WordBounds, 1 \in Nat \ {0}, Zenon
  <2>5. SubSeq(d, m, n) \in Seq(Chars)
    BY <2>2, <2>4, PartIsLine
  <2> QED  BY <1>1, <2>1, <2>5, ConcatProperties
<1> QED  BY <1>1, <1>2 DEF Before

LEMMA AfterIsLine ==
  ASSUME NEW d \in Seq(Chars)
  PROVE  After(d) \in Seq(Chars)
<1>1. /\ Fault \in Seq(Chars) /\ <<";">> \in Seq(Chars)
      /\ <<"|">> \in Seq(Chars) /\ <<>> \in Seq(Chars)
  BY MarksAreLines
<1>2. Len(d) \in Nat /\ Right(d) \in 0 .. Len(d) /\ (Len(d) > 0 => Right(d) > 0)
  BY GroupBounds, LenProperties
<1>3. PICK last : last = Max(WordsIn(d, 1, Len(d)))
  OBVIOUS
<1>4. PICK e : e = Min({last + 1, Len(d)})
  OBVIOUS
<1>5. ASSUME WordsIn(d, 1, Len(d)) # {}
      PROVE  last \in 1 .. Len(d) /\ e \in Nat /\ e <= Len(d) /\ Right(d) > 0
  <2>1. last \in 1 .. Len(d)
    BY <1>2, <1>3, <1>5, WordBounds, 1 \in Nat \ {0}, Zenon
  <2>2. {last + 1, Len(d)} \in SUBSET Nat /\ {last + 1, Len(d)} # {}
    BY <1>2, <2>1
  <2>3. e \in {last + 1, Len(d)} /\ \A k \in {last + 1, Len(d)} : e <= k
    BY <1>4, <2>2, MinIn, Zenon
  <2> QED  BY <1>2, <2>1, <2>3
<1>6. SubSeq(d, Right(d) + 1, Len(d)) \in Seq(Chars)
  BY <1>2, PartIsLine
<1>7. ASSUME WordsIn(d, 1, Len(d)) # {}
      PROVE  SubSeq(d, Right(d) + 1, e) \in Seq(Chars)
  BY <1>2, <1>5, <1>7, PartIsLine
<1>8. ASSUME WordsIn(d, 1, Len(d)) # {}, WordsIn(d, Right(d), Len(d)) # {}
      PROVE  SubSeq(d, Min(WordsIn(d, Right(d), Len(d))), last) \in Seq(Chars)
  <2>1. PICK m : m = Min(WordsIn(d, Right(d), Len(d)))
    OBVIOUS
  <2>2. Right(d) \in Nat \ {0}
    BY <1>2, <1>5, <1>8
  <2>3. m \in Right(d) .. Len(d)
    BY <1>2, <1>8, <2>1, <2>2, WordBounds, Zenon
  <2>4. SubSeq(d, m, last) \in Seq(Chars)
    BY <1>2, <1>5, <1>8, <2>2, <2>3, PartIsLine
  <2> QED  BY <2>1, <2>4
<1>9. ASSUME WordsIn(d, 1, Len(d)) # {}, WordsIn(d, Right(d), Len(d)) # {}, NEW s \in Seq(Chars)
      PROVE  s \o SubSeq(d, Min(WordsIn(d, Right(d), Len(d))), last) \in Seq(Chars)
  BY <1>8, <1>9, ConcatProperties
<1> QED  BY <1>1, <1>3, <1>4, <1>6, <1>7, <1>9 DEF After

LEMMA ChangesToLine ==
  ASSUME NEW d \in Seq(Chars)
  PROVE  Changed(d) \in Seq(Chars)
<1>1. Fault \in Seq(Chars)
  BY MarksAreLines
<1>2. Inner(d) \o Before(d) \o After(d) \in Seq(Chars)
  BY InnerIsLine, BeforeIsLine, AfterIsLine, ConcatProperties
<1> QED  BY <1>1, <1>2 DEF Changed

LEMMA GroupsToLine ==
  ASSUME NEW line \in Seq(Chars)
  PROVE  changesequence(line) \in Seq(Chars)
<1>1. PICK n : n = Len(line) + 1 /\ n \in Nat
  BY LenProperties
<1>2. PICK f : /\ f[n] = changesequence(line) /\ f[0] = line
               /\ \A k \in 1 .. n : f[k] = Stage("groups", line, k, f[k - 1])
  BY <1>1, GroupsAre, StagesAre, LenProperties
<1>3. PICK K : K = {k \in 0 .. n : f[k] \in Seq(Chars)}
  OBVIOUS
<1>4. ASSUME NEW k \in 1 .. n, k - 1 \in K PROVE k \in K
  <2>1. f[k - 1] \in Seq(Chars)
    BY <1>3, <1>4
  <2>2. Stage("groups", line, k, f[k - 1]) \in {f[k - 1], Changed(f[k - 1])}
    BY DEF Stage
  <2> QED  BY <1>1, <1>2, <1>3, <2>1, <2>2, ChangesToLine
<1>5. 0 \in K
  BY <1>1, <1>2, <1>3
<1>6. n \in K
  BY <1>1, <1>4, <1>5, Climb, Zenon
<1> QED  BY <1>2, <1>3, <1>6

LEMMA SpacesToLine ==
  ASSUME NEW line \in Seq(Chars)
  PROVE  Unspaced(line) \in Seq(Chars)
<1>1. PICK n : n = Len(line) /\ n \in Nat
  BY LenProperties
<1>2. PICK f : /\ f[n] = Unspaced(line) /\ f[0] = <<>>
               /\ \A k \in 1 .. n : f[k] = Stage("spaces", line, k, f[k - 1])
  BY <1>1, SpacesAre, StagesAre
<1>3. PICK K : K = {k \in 0 .. n : f[k] \in Seq(Chars)}
  OBVIOUS
<1>4. ASSUME NEW k \in 1 .. n, k - 1 \in K PROVE k \in K
  <2>1. f[k - 1] \in Seq(Chars) /\ line[k] \in Chars
    BY <1>1, <1>3, <1>4, LenProperties
  <2>2. Append(f[k - 1], line[k]) \in Seq(Chars)
    BY <2>1, AppendProperties
  <2>3. f[k] = IF line[k] = " " THEN f[k - 1] ELSE Append(f[k - 1], line[k])
    BY <1>2 DEF Stage
  <2>4. f[k] \in Seq(Chars)
    BY <2>1, <2>2, <2>3
  <2> QED  BY <1>1, <1>3, <2>4
<1>5. 0 \in K
  <2>1. f[0] \in Seq(Chars)
    BY <1>2, MarksAreLines, Zenon
  <2> QED  BY <1>1, <1>3, <2>1
<1>6. n \in K
  BY <1>1, <1>4, <1>5, Climb, Zenon
<1> QED  BY <1>2, <1>3, <1>6

\* What the parser gets is a line, of some length.
LEMMA LinearIsLine ==
  ASSUME NEW line \in Lines
  PROVE  Linear(line) \in Seq(Chars)
<1>1. Lines \subseteq Seq(Chars)
  <2>1. Words \cup {"<", ">", "&", "|", ";", "(", ")", ","} \subseteq Chars
    BY DEF Chars
  <2>2. \A s \in Seq(Words \cup {"<", ">", "&", "|", ";", "(", ")", ","}) : s \in Seq(Chars)
    BY <2>1, SeqMonotonic, Zenon
  <2> QED  BY <2>2, LinesAssumption
<1>2. convertalias(line) \in Seq(Chars)
  BY <1>1, ConvertsToLine
<1> QED  BY <1>2, GroupsToLine, SpacesToLine DEF Linear

-----------------------------------------------------------------------------
\* Where a part of the line ends.
LEMMA UntilIs ==
  ASSUME NEW line, Len(line) \in Nat, DOMAIN line = 1 .. Len(line),
         NEW i \in 1 .. Len(line) + 1, NEW toks
  PROVE  /\ Until(line, i, toks) \in i .. Len(line) + 1
         /\ Token(line, Until(line, i, toks)) \in toks \cup {"end"}
         /\ \A k \in i .. Until(line, i, toks) - 1 : line[k] \notin toks
<1>1. PICK S : S = {j \in i .. Len(line) + 1 : Token(line, j) \in toks \cup {"end"}}
  OBVIOUS
<1>2. S \in SUBSET Nat
  BY <1>1
<1>3. S # {}
  <2>1. Len(line) + 1 \in i .. Len(line) + 1 /\ Len(line) + 1 \notin DOMAIN line
    OBVIOUS
  <2>2. Token(line, Len(line) + 1) = "end"
    BY <2>1 DEF Token
  <2> QED  BY <1>1, <2>1, <2>2
<1>4. PICK j \in S : \A k \in S : j <= k
  BY <1>2, <1>3, LeastOf
<1>5. ASSUME NEW k \in i .. j - 1 PROVE line[k] \notin toks
  <2>1. k \in i .. Len(line) + 1 /\ k \in DOMAIN line /\ k \notin S
    BY <1>1, <1>4
  <2>2. Token(line, k) = line[k]
    BY <2>1 DEF Token
  <2> QED  BY <1>1, <2>1, <2>2
<1>6. \E m \in i .. Len(line) + 1 :
        Token(line, m) \in toks \cup {"end"} /\ \A k \in i .. m - 1 : line[k] \notin toks
  BY <1>1, <1>4, <1>5
<1> QED  BY <1>6 DEF Until

LEMMA BeyondIs ==
  ASSUME NEW line, Len(line) \in Nat, DOMAIN line = 1 .. Len(line),
         NEW i \in 1 .. Len(line) + 1
  PROVE  /\ Beyond(line, i, {"&"}) \in i .. Len(line) + 1
         /\ Token(line, Beyond(line, i, {"&"})) # "&"
         /\ \A k \in i .. Beyond(line, i, {"&"}) - 1 : line[k] = "&"
<1>1. PICK S : S = {j \in i .. Len(line) + 1 : Token(line, j) \notin {"&"}}
  OBVIOUS
<1>2. S \in SUBSET Nat
  BY <1>1
<1>3. S # {}
  <2>1. Len(line) + 1 \in i .. Len(line) + 1 /\ Len(line) + 1 \notin DOMAIN line
    OBVIOUS
  <2>2. Token(line, Len(line) + 1) = "end"
    BY <2>1 DEF Token
  <2> QED  BY <1>1, <2>1, <2>2
<1>4. PICK j \in S : \A k \in S : j <= k
  BY <1>2, <1>3, LeastOf
<1>5. ASSUME NEW k \in i .. j - 1 PROVE line[k] \in {"&"}
  <2>1. k \in i .. Len(line) + 1 /\ k \in DOMAIN line /\ k \notin S
    BY <1>1, <1>4
  <2>2. Token(line, k) = line[k]
    BY <2>1 DEF Token
  <2> QED  BY <1>1, <2>1, <2>2
<1>6. \E m \in i .. Len(line) + 1 :
        Token(line, m) \notin {"&"} /\ \A k \in i .. m - 1 : line[k] \in {"&"}
  BY <1>1, <1>4, <1>5
<1> QED  BY <1>6 DEF Beyond

-----------------------------------------------------------------------------
\* What the parser returns is a list of background lines of pipes of redirected
\* programs: c is in a set of commands each of which is made of others of the
\* set in that way.
Simple == Arrows \cup {" "}
Piped == Simple \cup {"|"}
Behind == Piped \cup {"&"}

MadeOf(c, C) ==
    /\ c.type \in Behind \cup {";"}
    /\ c.type \in Arrows => c.cmd \in C /\ c.cmd.type \in Simple
    /\ c.type = "&" => c.cmd \in C /\ c.cmd.type \in Behind
    /\ c.type = "|" => /\ c.left \in C /\ c.left.type \in Simple
                       /\ c.right \in C /\ c.right.type \in Piped
    /\ c.type = ";" => c.left \in C /\ c.left.type \in Behind /\ c.right \in C

Proper(c) == \E C : c \in C /\ \A d \in C : MadeOf(d, C)

LEMMA MadeOfMore ==
  ASSUME NEW c, NEW C, NEW D, C \subseteq D, MadeOf(c, C)
  PROVE  MadeOf(c, D)
BY DEF MadeOf

\* A command made of proper ones.
LEMMA ProperOne ==
  ASSUME NEW c, NEW a, NEW b, Proper(a), Proper(b), MadeOf(c, {a, b})
  PROVE  Proper(c)
<1>1. PICK A : a \in A /\ \A d \in A : MadeOf(d, A)
  BY DEF Proper
<1>2. PICK B : b \in B /\ \A d \in B : MadeOf(d, B)
  BY DEF Proper
<1>3. PICK C : C = A \cup B \cup {c}
  OBVIOUS
<1>4. \A d \in A : MadeOf(d, C)
  BY <1>1, <1>3, MadeOfMore
<1>5. \A d \in B : MadeOf(d, C)
  BY <1>2, <1>3, MadeOfMore
<1>6. MadeOf(c, C)
  <2>1. {a, b} \subseteq C
    BY <1>1, <1>2, <1>3
  <2> QED  BY <2>1, MadeOfMore
<1>7. c \in C /\ \A d \in C : MadeOf(d, C)
  BY <1>3, <1>4, <1>5, <1>6, Zenon
<1> QED  BY <1>7, Zenon DEF Proper

LEMMA ProgramProper ==
  ASSUME NEW argv
  PROVE  Proper(execcmd(argv)) /\ execcmd(argv).type \in Simple
<1>1. PICK c : c = execcmd(argv)
  OBVIOUS
<1>2. c.type = " "
  BY <1>1 DEF execcmd
<1>3. \A d \in {c} : MadeOf(d, {c})
  BY <1>2 DEF MadeOf, Simple, Piped, Behind, Arrows
<1> QED  BY <1>1, <1>2, <1>3 DEF Proper, Simple

LEMMA FileProper ==
  ASSUME NEW a, Proper(a), a.type \in Simple, NEW file, NEW type \in Arrows
  PROVE  Proper(redircmd(a, file, type)) /\ redircmd(a, file, type).type \in Simple
<1>1. PICK c : c = redircmd(a, file, type)
  OBVIOUS
<1>2. c.type = type /\ c.cmd = a
  BY <1>1 DEF redircmd
<1>3. MadeOf(c, {a, a})
  BY <1>2 DEF MadeOf, Simple, Piped, Behind, Arrows
<1>4. Proper(c)
  BY <1>3, ProperOne
<1> QED  BY <1>1, <1>2, <1>4 DEF Simple

LEMMA BackProper ==
  ASSUME NEW a, Proper(a), a.type \in Behind
  PROVE  Proper(backcmd(a)) /\ backcmd(a).type \in Behind
<1>1. PICK c : c = backcmd(a)
  OBVIOUS
<1>2. c.type = "&" /\ c.cmd = a
  BY <1>1 DEF backcmd
<1>3. MadeOf(c, {a, a})
  BY <1>2 DEF MadeOf, Simple, Piped, Behind, Arrows
<1>4. Proper(c)
  BY <1>3, ProperOne
<1> QED  BY <1>1, <1>2, <1>4 DEF Behind

LEMMA JoinProper ==
  ASSUME NEW a, NEW b, Proper(a), Proper(b), NEW c,
         \/ /\ c = pipecmd(a, b) /\ a.type \in Simple /\ b.type \in Piped
         \/ c = listcmd(a, b) /\ a.type \in Behind
  PROVE  Proper(c)
<1>1. CASE c = pipecmd(a, b) /\ a.type \in Simple /\ b.type \in Piped
  <2>1. c.type = "|" /\ c.left = a /\ c.right = b
    BY <1>1 DEF pipecmd
  <2>2. MadeOf(c, {a, b})
    BY <1>1, <2>1 DEF MadeOf, Simple, Piped, Behind, Arrows
  <2> QED  BY <2>2, ProperOne
<1>2. CASE c = listcmd(a, b) /\ a.type \in Behind
  <2>1. c.type = ";" /\ c.left = a /\ c.right = b
    BY <1>2 DEF listcmd
  <2>2. MadeOf(c, {a, b})
    BY <1>2, <2>1 DEF MadeOf, Simple, Piped, Behind, Arrows
  <2> QED  BY <2>2, ProperOne
<1> QED  BY <1>1, <1>2

LEMMA RedirsProper ==
  ASSUME NEW cmd, Proper(cmd), cmd.type \in Simple, NEW s, Len(s) \in Nat
  PROVE  Proper(parseredirs(cmd, s)) /\ parseredirs(cmd, s).type \in Simple
<1>1. PICK n : n = Len(s) /\ n \in Nat
  OBVIOUS
<1>2. PICK f : /\ f[n] = parseredirs(cmd, s) /\ f[0] = cmd
               /\ \A k \in 1 .. n : f[k] = Stage("files", s, k, f[k - 1])
  <2>1. parseredirs(cmd, s) = StageOf("files", s, cmd, n)
    BY <1>1, FilesAre, Zenon
  <2>2. PICK g : /\ g[n] = StageOf("files", s, cmd, n) /\ g[0] = cmd
                 /\ \A k \in 1 .. n : g[k] = Stage("files", s, k, g[k - 1])
    BY <1>1, StagesAre
  <2> QED  BY <2>1, <2>2, Zenon
<1>3. PICK K : K = {k \in 0 .. n : Proper(f[k]) /\ f[k].type \in Simple}
  OBVIOUS
<1>4. ASSUME NEW k \in 1 .. n, k - 1 \in K PROVE k \in K
  <2>1. Proper(f[k - 1]) /\ f[k - 1].type \in Simple
    BY <1>3, <1>4
  <2>2. f[k] = IF s[k] \in Arrows THEN redircmd(f[k - 1], s[k + 1], s[k]) ELSE f[k - 1]
    BY <1>2 DEF Stage
  <2>3. Proper(f[k]) /\ f[k].type \in Simple
    BY <2>1, <2>2, FileProper
  <2> QED  BY <1>1, <1>3, <2>3
<1>5. 0 \in K
  BY <1>1, <1>2, <1>3
<1>6. n \in K
  BY <1>1, <1>4, <1>5, Climb, Zenon
<1> QED  BY <1>2, <1>3, <1>6

LEMMA BackgroundProper ==
  ASSUME NEW cmd, Proper(cmd), cmd.type \in Behind, cmd # Error, NEW n \in Nat
  PROVE  Proper(InBackground(cmd, n)) /\ InBackground(cmd, n).type \in Behind
<1>1. PICK f : /\ f[n] = InBackground(cmd, n) /\ f[0] = cmd
               /\ \A k \in 1 .. n : f[k] = Stage("back", <<>>, k, f[k - 1])
  BY BackIs, StagesAre
<1>2. PICK K : K = {k \in 0 .. n : Proper(f[k]) /\ f[k].type \in Behind}
  OBVIOUS
<1>3. ASSUME NEW k \in 1 .. n, k - 1 \in K PROVE k \in K
  <2>1. Proper(f[k - 1]) /\ f[k - 1].type \in Behind
    BY <1>2, <1>3
  <2>2. f[k] = backcmd(f[k - 1])
    BY <1>1 DEF Stage
  <2>3. Proper(f[k]) /\ f[k].type \in Behind
    BY <2>1, <2>2, BackProper
  <2> QED  BY <1>2, <2>3
<1>4. 0 \in K
  BY <1>1, <1>2
<1>5. n \in K
  BY <1>3, <1>4, Climb, Zenon
<1> QED  BY <1>1, <1>2, <1>5

\* An error, or a proper command of a type in T.
Sound(c, T) == c = Error \/ (Proper(c) /\ c.type \in T)

LEMMA ExecSound ==
  ASSUME NEW line \in Seq(Chars), NEW i \in 1 .. Len(line) + 1
  PROVE  Sound(parseexec(line, i), Simple)
<1>1. PICK s : s = SubSeq(line, i, Until(line, i, {";", "|", "&"}) - 1)
  OBVIOUS
<1>2. Len(s) \in Nat
  <2>1. PICK n : n = Until(line, i, {";", "|", "&"})
    OBVIOUS
  <2>2. Len(line) \in Nat /\ DOMAIN line = 1 .. Len(line)
    BY LenProperties
  <2>3. n \in i .. Len(line) + 1
    BY <2>1, <2>2, UntilIs
  <2>4. n - 1 \in Int /\ n - 1 <= Len(line) /\ i \in Nat \ {0}
    BY <2>2, <2>3
  <2>5. s \in Seq(Chars)
    BY <1>1, <2>1, <2>4, PartIsLine
  <2> QED  BY <2>5, LenProperties
<1>3. PICK argv : argv = At(s, DOMAIN s \ (ArrowsOf(s) \cup FilesOf(s)))
  OBVIOUS
<1>4. Sound(parseredirs(execcmd(argv), s), Simple)
  BY <1>2, ProgramProper, RedirsProper DEF Sound
<1>5. parseexec(line, i) \in {Error, parseredirs(execcmd(argv), s)}
  BY <1>1, <1>3 DEF parseexec
<1> QED  BY <1>4, <1>5 DEF Sound

-----------------------------------------------------------------------------
\* The two functions that join commands with the rest of the line: f[i] is the
\* command that begins with lefts[i].
JoinAt(line, lefts, tok, f, i) ==
    IF Token(line, lefts[i].next) # tok THEN lefts[i]
    ELSE LET right == f[lefts[i].next + 1]
         IN  [cmd |-> IF Error \in {lefts[i].cmd, right.cmd} THEN Error
                      ELSE [type |-> tok, left |-> lefts[i].cmd, right |-> right.cmd],
              next |-> right.next]

JoinStep(line, lefts, tok, f) == [i \in 1 .. Len(line) + 1 |-> JoinAt(line, lefts, tok, f, i)]

JoinOf(line, lefts, tok) == CHOOSE f : f = JoinStep(line, lefts, tok, f)

\* What is joined goes from where it begins on, within the line.
Onward(line, lefts) == \A i \in 1 .. Len(line) + 1 : lefts[i].next \in i .. Len(line) + 1

LEMMA TokenInside ==
  ASSUME NEW line, Len(line) \in Nat, DOMAIN line = 1 .. Len(line), NEW tok, tok # "end",
         NEW i \in 1 .. Len(line) + 1, NEW j \in i .. Len(line) + 1, Token(line, j) = tok
  PROVE  j + 1 \in i + 1 .. Len(line) + 1
<1>1. j \in DOMAIN line
  BY DEF Token
<1> QED  BY <1>1

LEMMA JoinLater ==
  ASSUME NEW line, Len(line) \in Nat, DOMAIN line = 1 .. Len(line), NEW tok, tok # "end",
         NEW lefts, Onward(line, lefts), NEW f, NEW g, NEW i \in 1 .. Len(line) + 1,
         \A j \in i + 1 .. Len(line) + 1 : f[j] = g[j]
  PROVE  JoinAt(line, lefts, tok, f, i) = JoinAt(line, lefts, tok, g, i)
<1>1. CASE Token(line, lefts[i].next) = tok
  <2>1. lefts[i].next \in i .. Len(line) + 1
    BY DEF Onward
  <2>2. lefts[i].next + 1 \in i + 1 .. Len(line) + 1
    BY <1>1, <2>1, TokenInside
  <2>3. f[lefts[i].next + 1] = g[lefts[i].next + 1]
    BY <2>2
  <2> QED  BY <2>3 DEF JoinAt
<1>2. CASE Token(line, lefts[i].next) # tok
  BY <1>2 DEF JoinAt
<1> QED  BY <1>1, <1>2

\* Such a function exists: it is made from the end of the line.
LEMMA JoinExists ==
  ASSUME NEW line, Len(line) \in Nat, DOMAIN line = 1 .. Len(line), NEW tok, tok # "end",
         NEW lefts, Onward(line, lefts)
  PROVE  \E f : f = JoinStep(line, lefts, tok, f)
<1>1. PICK n : n = Len(line) + 1 /\ n \in Nat \ {0}
  OBVIOUS
<1>2. PICK K : K = {m \in 1 .. n : \E f : \A i \in m .. n : f[i] = JoinAt(line, lefts, tok, f, i)}
  OBVIOUS
<1>3. ASSUME NEW m \in 1 .. n, \A j \in m + 1 .. n : j \in K PROVE m \in K
  <2>1. PICK g : \A i \in m + 1 .. n : g[i] = JoinAt(line, lefts, tok, g, i)
    <3>1. CASE m = n
      BY <1>1, <3>1
    <3>2. CASE m # n
      <4>1. m + 1 \in K
        BY <1>1, <1>3, <3>2
      <4> QED  BY <1>2, <4>1
    <3> QED  BY <3>1, <3>2
  <2>2. PICK here : here = JoinAt(line, lefts, tok, g, m)
    OBVIOUS
  <2>3. PICK f : f = [i \in 1 .. n |-> IF i = m THEN here ELSE g[i]]
    OBVIOUS
  <2>4. f[m] = here /\ \A j \in m + 1 .. n : f[j] = g[j]
    BY <1>1, <2>3
  <2>5. ASSUME NEW i \in m .. n
        PROVE  JoinAt(line, lefts, tok, f, i) = JoinAt(line, lefts, tok, g, i)
    <3>1. i \in 1 .. Len(line) + 1 /\ \A j \in i + 1 .. Len(line) + 1 : f[j] = g[j]
      BY <1>1, <2>4
    <3> QED  BY <3>1, JoinLater
  <2>6. \A i \in m .. n : f[i] = JoinAt(line, lefts, tok, f, i)
    <3>1. m \in m .. n /\ \A i \in m .. n : i = m \/ i \in m + 1 .. n
      BY <1>1
    <3> QED  BY <2>1, <2>2, <2>4, <2>5, <3>1
  <2> QED  BY <1>2, <2>6
<1>4. 1 \in K
  <2>1. n \in Nat /\ 1 \in 1 .. n
    BY <1>1
  <2> QED  BY <1>3, <2>1, Descend
<1>5. PICK g : \A i \in 1 .. n : g[i] = JoinAt(line, lefts, tok, g, i)
  BY <1>2, <1>4
<1>6. PICK f : f = [i \in 1 .. n |-> g[i]]
  OBVIOUS
<1>7. ASSUME NEW i \in 1 .. n PROVE f[i] = JoinAt(line, lefts, tok, f, i)
  <2>1. i \in 1 .. Len(line) + 1 /\ \A j \in i + 1 .. Len(line) + 1 : f[j] = g[j]
    BY <1>1, <1>6
  <2>2. JoinAt(line, lefts, tok, f, i) = JoinAt(line, lefts, tok, g, i)
    BY <2>1, JoinLater
  <2> QED  BY <1>5, <1>6, <2>2
<1>8. f = JoinStep(line, lefts, tok, f)
  BY <1>1, <1>6, <1>7 DEF JoinStep
<1> QED  BY <1>8

Types(tok, T, U) ==
    \/ tok = "|" /\ T = Simple /\ U = Piped
    \/ tok = ";" /\ T = Behind /\ U = Behind \cup {";"}

\* What it joins is sound when both sides are.
LEMMA JoinsSound ==
  ASSUME NEW line, Len(line) \in Nat, DOMAIN line = 1 .. Len(line), NEW lefts,
         Onward(line, lefts), NEW tok, NEW T, NEW U, Types(tok, T, U),
         \A i \in 1 .. Len(line) + 1 : Sound(lefts[i].cmd, T),
         NEW i \in 1 .. Len(line) + 1
  PROVE  /\ JoinOf(line, lefts, tok)[i].next \in i .. Len(line) + 1
         /\ Sound(JoinOf(line, lefts, tok)[i].cmd, U)
<1>1. PICK f : f = JoinOf(line, lefts, tok)
  OBVIOUS
<1>2. f = JoinStep(line, lefts, tok, f)
  <2>1. tok # "end"
    BY DEF Types
  <2>2. PICK g : g = JoinStep(line, lefts, tok, g)
    BY <2>1, JoinExists
  <2> QED  BY <1>1, <2>2 DEF JoinOf
<1>3. PICK n : n = Len(line) + 1 /\ n \in Nat
  OBVIOUS
<1>4. PICK K : K = {k \in 1 .. n : f[k].next \in k .. n /\ Sound(f[k].cmd, U)}
  OBVIOUS
<1>5. ASSUME NEW k \in 1 .. n, \A j \in k + 1 .. n : j \in K PROVE k \in K
  <2>1. PICK left : left = lefts[k]
    OBVIOUS
  <2>2. left.next \in k .. n /\ Sound(left.cmd, T)
    BY <1>3, <2>1 DEF Onward
  <2>3. f[k] = JoinAt(line, lefts, tok, f, k)
    BY <1>2, <1>3 DEF JoinStep
  <2>4. T \subseteq U
    BY DEF Piped, Types
  <2>5. CASE Token(line, left.next) # tok
    <3>1. f[k] = left
      BY <2>1, <2>3, <2>5 DEF JoinAt
    <3> QED  BY <1>4, <2>2, <2>4, <3>1 DEF Sound
  <2>6. CASE Token(line, left.next) = tok
    <3>1. left.next + 1 \in k + 1 .. n
      <4>1. tok # "end"
        BY DEF Types
      <4> QED  BY <1>3, <2>2, <2>6, <4>1, TokenInside
    <3>2. PICK right : right = f[left.next + 1]
      OBVIOUS
    <3>3. right.next \in k .. n /\ Sound(right.cmd, U)
      <4>1. right.next \in left.next + 1 .. n /\ Sound(right.cmd, U)
        BY <1>4, <1>5, <3>1, <3>2
      <4> QED  BY <1>3, <2>2, <4>1
    <3>4. PICK c : c = [type |-> tok, left |-> left.cmd, right |-> right.cmd]
      OBVIOUS
    <3>5. PICK d : d = IF Error \in {left.cmd, right.cmd} THEN Error ELSE c
      OBVIOUS
    <3>6. f[k] = [cmd |-> d, next |-> right.next]
      BY <2>1, <2>3, <2>6, <3>2, <3>4, <3>5, Zenon DEF JoinAt
    <3>7. f[k].next = right.next /\ f[k].cmd = d
      BY <3>6
    <3>8. ASSUME left.cmd # Error, right.cmd # Error PROVE Sound(c, U)
      <4>1. /\ Proper(left.cmd) /\ left.cmd.type \in T
            /\ Proper(right.cmd) /\ right.cmd.type \in U
        BY <2>2, <3>3, <3>8 DEF Sound
      <4>2. \/ /\ c = pipecmd(left.cmd, right.cmd)
               /\ left.cmd.type \in Simple /\ right.cmd.type \in Piped
            \/ c = listcmd(left.cmd, right.cmd) /\ left.cmd.type \in Behind
        BY <3>4, <4>1 DEF pipecmd, listcmd, Types
      <4>3. Proper(c)
        BY <4>1, <4>2, JoinProper
      <4>4. c.type \in U
        BY <3>4 DEF Piped, Types
      <4> QED  BY <4>3, <4>4 DEF Sound
    <3>9. Sound(f[k].cmd, U)
      BY <3>5, <3>7, <3>8 DEF Sound
    <3> QED  BY <1>4, <3>3, <3>7, <3>9
  <2> QED  BY <2>5, <2>6
<1>6. i \in K
  <2>1. i \in 1 .. n
    BY <1>3
  <2> QED  BY <1>3, <1>5, <2>1, Descend, Zenon
<1> QED  BY <1>1, <1>3, <1>4, <1>6

-----------------------------------------------------------------------------
\* The parser's two functions are such functions.
ExecAt(line, i) == [cmd |-> parseexec(line, i), next |-> Until(line, i, {";", "|", "&"})]
ExecsOf(line) == [i \in 1 .. Len(line) + 1 |-> ExecAt(line, i)]
PipesOf(line) == [i \in 1 .. Len(line) + 1 |-> Backed(line, parsepipe(line)[i])]

LEMMA PipesAre ==
  ASSUME NEW line
  PROVE  parsepipe(line) = JoinOf(line, ExecsOf(line), "|")
<1>1. \A f : JoinStep(line, ExecsOf(line), "|", f)
               = [i \in 1 .. Len(line) + 1 |->
                    Joined(line, [cmd |-> parseexec(line, i),
                                  next |-> Until(line, i, {";", "|", "&"})], "|", pipecmd, f)]
  <2>1. ASSUME NEW f, NEW i \in 1 .. Len(line) + 1
        PROVE  JoinAt(line, ExecsOf(line), "|", f, i)
                 = Joined(line, [cmd |-> parseexec(line, i),
                                 next |-> Until(line, i, {";", "|", "&"})], "|", pipecmd, f)
    <3>1. ExecsOf(line)[i] = [cmd |-> parseexec(line, i),
                              next |-> Until(line, i, {";", "|", "&"})]
      BY DEF ExecsOf, ExecAt
    <3> QED  BY <3>1 DEF JoinAt, Joined, pipecmd
  <2> QED  BY <2>1, Zenon DEF JoinStep
<1> QED  BY <1>1, Zenon DEF parsepipe, JoinOf

LEMMA LinesAre ==
  ASSUME NEW line
  PROVE  parseline(line) = JoinOf(line, PipesOf(line), ";")
<1>1. \A f : JoinStep(line, PipesOf(line), ";", f)
               = [i \in 1 .. Len(line) + 1 |->
                    Joined(line, Backed(line, parsepipe(line)[i]), ";", listcmd, f)]
  <2>1. ASSUME NEW f, NEW i \in 1 .. Len(line) + 1
        PROVE  JoinAt(line, PipesOf(line), ";", f, i)
                 = Joined(line, Backed(line, parsepipe(line)[i]), ";", listcmd, f)
    <3>1. PipesOf(line)[i] = Backed(line, parsepipe(line)[i])
      BY DEF PipesOf
    <3> QED  BY <3>1 DEF JoinAt, Joined, listcmd
  <2> QED  BY <2>1, Zenon DEF JoinStep
<1> QED  BY <1>1, Zenon DEF parseline, JoinOf

LEMMA PipeSound ==
  ASSUME NEW line \in Seq(Chars), NEW i \in 1 .. Len(line) + 1
  PROVE  /\ parsepipe(line)[i].next \in i .. Len(line) + 1
         /\ Sound(parsepipe(line)[i].cmd, Piped)
<1>1. Len(line) \in Nat /\ DOMAIN line = 1 .. Len(line)
  BY LenProperties
<1>2. PICK lefts : lefts = ExecsOf(line)
  OBVIOUS
<1>3. ASSUME NEW k \in 1 .. Len(line) + 1
      PROVE  lefts[k].next \in k .. Len(line) + 1 /\ Sound(lefts[k].cmd, Simple)
  <2>1. lefts[k].next = Until(line, k, {";", "|", "&"}) /\ lefts[k].cmd = parseexec(line, k)
    BY <1>2 DEF ExecsOf, ExecAt
  <2>2. Until(line, k, {";", "|", "&"}) \in k .. Len(line) + 1
    BY <1>1, UntilIs
  <2>3. Sound(parseexec(line, k), Simple)
    BY ExecSound
  <2> QED  BY <2>1, <2>2, <2>3
<1>4. Onward(line, lefts)
  BY <1>3 DEF Onward
<1> QED  BY <1>1, <1>2, <1>3, <1>4, PipesAre, JoinsSound DEF Types

LEMMA LineSound ==
  ASSUME NEW line \in Seq(Chars), NEW i \in 1 .. Len(line) + 1
  PROVE  Sound(parseline(line)[i].cmd, Behind \cup {";"})
<1>1. Len(line) \in Nat /\ DOMAIN line = 1 .. Len(line)
  BY LenProperties
<1>2. PICK lefts : lefts = PipesOf(line)
  OBVIOUS
<1>3. ASSUME NEW k \in 1 .. Len(line) + 1
      PROVE  lefts[k].next \in k .. Len(line) + 1 /\ Sound(lefts[k].cmd, Behind)
  <2>1. PICK p, j : p = parsepipe(line)[k] /\ j = Beyond(line, p.next, {"&"})
    OBVIOUS
  <2>2. p.next \in k .. Len(line) + 1 /\ Sound(p.cmd, Piped)
    BY <2>1, PipeSound
  <2>3. p.next \in 1 .. Len(line) + 1
    BY <1>1, <2>2
  <2>4. j \in p.next .. Len(line) + 1
    BY <1>1, <2>1, <2>3, BeyondIs
  <2>5. j - p.next \in Nat /\ j \in k .. Len(line) + 1
    BY <1>1, <2>2, <2>4
  <2>6. lefts[k] = [cmd |-> InBackground(p.cmd, j - p.next), next |-> j]
    BY <1>2, <2>1 DEF PipesOf, Backed
  <2>7. Sound(InBackground(p.cmd, j - p.next), Behind)
    <3>1. CASE p.cmd = Error
      BY <3>1 DEF Sound, InBackground
    <3>2. CASE p.cmd # Error
      <4>1. Proper(p.cmd) /\ p.cmd.type \in Behind
        BY <2>2, <3>2 DEF Sound, Behind
      <4> QED  BY <2>5, <3>2, <4>1, BackgroundProper DEF Sound
    <3> QED  BY <3>1, <3>2
  <2> QED  BY <2>5, <2>6, <2>7
<1>4. Onward(line, lefts)
  BY <1>3 DEF Onward
<1> QED  BY <1>1, <1>2, <1>3, <1>4, LinesAre, JoinsSound DEF Types

LEMMA ParsedProper ==
  ASSUME NEW line \in Lines, line \notin Unmatched, Parsed[line] # Error
  PROVE  Proper(Parsed[line])
<1>1. PICK l : l = Linear(line)
  OBVIOUS
<1>2. l \in Seq(Chars) /\ Len(l) \in Nat
  BY <1>1, LinearIsLine, LenProperties
<1>3. Parsed[line] = parsecmd(l)
  BY <1>1 DEF Parsed
<1>4. Parsed[line] = parseline(l)[1].cmd
  BY <1>3 DEF parsecmd
<1>5. Sound(parseline(l)[1].cmd, Behind \cup {";"})
  <2>1. 1 \in 1 .. Len(l) + 1
    BY <1>2
  <2> QED  BY <1>2, <2>1, LineSound, Zenon
<1> QED  BY <1>4, <1>5 DEF Sound

\* Whatever is typed, parsecmd either writes a message or returns a list of
\* background lines of pipes of redirected programs, which is what each case of
\* runcmd expects of the parts it runs.
THEOREM ParsedLinesAreProper ==
  \A line \in Lines \ Unmatched : Parsed[line] = Error \/ Proper(Parsed[line])
BY ParsedProper

-----------------------------------------------------------------------------
\* The order in which the parts of a line run.
LEMMA ProperParts ==
  ASSUME NEW c, Proper(c)
  PROVE  /\ c.type \in Behind \cup {";"}
         /\ c.type \in Arrows => Proper(c.cmd) /\ c.cmd.type \in Simple
         /\ c.type = "&" => Proper(c.cmd) /\ c.cmd.type \in Behind
         /\ c.type = "|" => /\ Proper(c.left) /\ c.left.type \in Simple
                            /\ Proper(c.right) /\ c.right.type \in Piped
         /\ c.type = ";" => Proper(c.left) /\ c.left.type \in Behind /\ Proper(c.right)
<1>1. PICK C : c \in C /\ \A d \in C : MadeOf(d, C)
  BY DEF Proper
<1>2. MadeOf(c, C)
  BY <1>1
<1>3. \A d \in C : Proper(d)
  BY <1>1 DEF Proper
<1> QED  BY <1>2, <1>3 DEF MadeOf


-----------------------------------------------------------------------------
\* Where a process is in its line: only the child of the shell runs lists, only
\* it and those of a list run "&", and pipes nest to the right.
Leader(r) == r.parent = Root /\ ~r.bg
Bare(r) == r.own = {} /\ r.in = 0 /\ r.out = 0
Piping == {"fork left", "fork right", "left", "right"}

Ready(r) ==
    /\ Proper(r.cmd)
    /\ r.cmd.type = ";" => Bare(r) /\ Leader(r)
    /\ r.cmd.type = "&" => Bare(r)
    /\ r.cmd.type = "|" => r.out = 0

Placed(r) ==
    /\ r.own = IF r.do \in Piping THEN {r.p} ELSE {}
    /\ r.do = "line" => Bare(r) /\ Leader(r) /\ r.cmd.line \in Lines
    /\ r.do = "prompt" => Bare(r)
    /\ r.do = "wait" /\ r.then = "prompt" => Bare(r) /\ r.waits <= 1
    /\ r.do = "wait" /\ r.then = "run" => Proper(r.cmd) /\ Bare(r) /\ Leader(r)
    /\ r.do = "run" => Ready(r)
    /\ r.do \in Piping => Proper(r.cmd) /\ r.cmd.type = "|" /\ r.out = 0

\* Those that can write to a pipe are of one part of a line, and those whose
\* input it is of the next.
Ends(x) == x.own \cup {x.out}
Along(x, y) == y.turn = x.turn /\ y.bg = x.bg

Mates(x, y) == \A k \in Pipes : k \in Ends(x) =>
    /\ k \in Ends(y) => y.stage = x.stage /\ Along(x, y)
    /\ k = y.in => y.stage = x.stage + 1 /\ Along(x, y)

Ordered ==
    /\ \A p \in Pids : Live(p) => Placed(proc[p])
    /\ \A p, q \in Pids : Live(p) /\ Live(q) => Mates(proc[p], proc[q])
    /\ \A p, q \in Foreground : proc[p].turn = proc[q].turn

OrderInv == strays = 0 => AllAsked \/ Ordered

-----------------------------------------------------------------------------
\* What keeps processes in step: one that has no pipes, or no more than another
\* of its part of the line.
Narrow(x, r) ==
    /\ r.stage = x.stage /\ Along(x, r)
    /\ Ends(r) \cap Pipes \subseteq Ends(x)
    /\ \A k \in Pipes : r.in = k => x.in = k

Like(x, r) == Narrow(x, r) \/ Bare(r)

LEMMA MatesLike ==
  ASSUME NEW x, NEW y, NEW r, NEW s, Mates(x, y), Like(x, r), Like(y, s)
  PROVE  Mates(r, s)
<1>1. 0 \notin Pipes
  BY ShellAssumption DEF Pipes
<1>2. CASE Bare(r) \/ Bare(s)
  BY <1>1, <1>2 DEF Bare, Mates, Ends
<1>3. CASE Narrow(x, r) /\ Narrow(y, s)
  <2>1. ASSUME NEW k \in Pipes, k \in Ends(r)
        PROVE  /\ k \in Ends(s) => s.stage = r.stage /\ Along(r, s)
               /\ k = s.in => s.stage = r.stage + 1 /\ Along(r, s)
    <3>1. k \in Ends(x) /\ (k \in Ends(s) => k \in Ends(y)) /\ (k = s.in => k = y.in)
      BY <1>3, <2>1 DEF Narrow
    <3>2. /\ k \in Ends(y) => y.stage = x.stage /\ Along(x, y)
          /\ k = y.in => y.stage = x.stage + 1 /\ Along(x, y)
      BY <3>1 DEF Mates
    <3>3. /\ r.stage = x.stage /\ r.turn = x.turn /\ r.bg = x.bg
          /\ s.stage = y.stage /\ s.turn = y.turn /\ s.bg = y.bg
      BY <1>3 DEF Narrow, Along
    <3> QED  BY <3>1, <3>2, <3>3 DEF Along
  <2> QED  BY <2>1 DEF Mates
<1> QED  BY <1>2, <1>3 DEF Like

LEMMA LikeItself == \A x : Like(x, x)
BY DEF Like, Narrow, Along

\* r fits with all the others when it takes the place of p.
Fits(p, r) ==
    /\ Mates(r, r)
    /\ \A q \in Pids : Live(q) /\ q # p => Mates(r, proc[q]) /\ Mates(proc[q], r)

LEMMA LikeFits ==
  ASSUME Ordered, NEW p \in Pids, Live(p), NEW r, Like(proc[p], r)
  PROVE  Fits(p, r)
BY MatesLike, LikeItself DEF Ordered, Fits

-----------------------------------------------------------------------------
\* The four ways in which a step changes the processes.
LEMMA OrderedFor ==
  ASSUME NEW p \in Pids, NEW r, Ordered, Live(p), Placed(r), Fits(p, r), r.bg = proc[p].bg,
         r.turn = proc[p].turn \/ Foreground \subseteq {p},
         \A q \in Pids : Live(q)' = Live(q),
         proc'[p] = r, \A q \in Pids : Live(q) /\ q # p => proc'[q] = proc[q]
  PROVE  Ordered'
<1>1. \A q \in Pids : Live(q)' => Placed(proc'[q])
  BY DEF Ordered
<1>2. \A q, s \in Pids : Live(q)' /\ Live(s)' => Mates(proc'[q], proc'[s])
  BY DEF Ordered, Fits
<1>3. Foreground' = Foreground
  BY DEF Foreground
<1>4. ASSUME NEW q \in Foreground, NEW s \in Foreground PROVE proc'[q].turn = proc'[s].turn
  <2>1. q \in Pids /\ s \in Pids /\ Live(q) /\ Live(s) /\ proc[q].turn = proc[s].turn
    BY DEF Foreground, Ordered
  <2> QED  BY <2>1
<1> QED  BY <1>1, <1>2, <1>3, <1>4 DEF Ordered

LEMMA GoesOrdered ==
  ASSUME ShellTypeOK, strays' \in Nat, Ordered, NEW p \in Pids, Live(p), NEW r, Goes(p, r),
         Placed(r), Fits(p, r), r.bg = proc[p].bg,
         r.turn = proc[p].turn \/ Foreground \subseteq {p}
  PROVE  Ordered'
BY GoesIs, OrderedFor

LEMMA ReapsOrdered ==
  ASSUME ShellTypeOK, strays' \in Nat, Ordered, NEW p \in Pids, Live(p), NEW r, NEW c \in Pids,
         Reaps(p, r, c), Placed(r), Like(proc[p], r), r.bg = proc[p].bg, r.turn = proc[p].turn
  PROVE  Ordered'
<1>1. Fits(p, r)
  BY LikeFits
<1>2. ~Live(c)
  BY DEF Reaps, Live
<1>3. \A q \in Pids : Live(q) /\ q # p => proc'[q] = proc[q]
  BY <1>2, ReapsIs
<1>4. proc'[p] = r /\ \A q \in Pids : Live(q)' = Live(q)
  BY ReapsIs
<1> QED  BY <1>1, <1>3, <1>4, OrderedFor

\* Whether a new child of p, x, keeps to the turn of the line.
InStep(p, x) ==
    x.bg \/ (p \in Foreground /\ x.turn = proc[p].turn) \/ Foreground = {}

LEMMA ForksOrdered ==
  ASSUME ShellTypeOK, strays' \in Nat, Ordered, NEW p \in Pids, Live(p), NEW r, NEW c \in Pids,
         NEW x, Forks(p, r, c, x), Placed(r), Placed(x), Like(proc[p], r), Like(proc[p], x),
         r.bg = proc[p].bg, r.turn = proc[p].turn, InStep(p, x)
  PROVE  Ordered'
<1>1. /\ p # c /\ proc'[p] = r /\ proc'[c] = x /\ ~Live(c)
      /\ \A q \in Pids : q # p /\ q # c => proc'[q] = proc[q]
      /\ \A q \in Pids : q # c => Live(q)' = Live(q)
  <2>1. ShellTypeOK /\ Live(p) /\ Forks(p, r, c, x) /\ strays' \in Nat
    OBVIOUS
  <2> QED  BY ONLY <2>1, ForksIs, p \in Pids, c \in Pids
<1>2. \A q \in Pids : Live(q)' => Placed(proc'[q])
  BY <1>1 DEF Ordered
<1>3. \A q \in Pids : Live(q)' =>
        \E y \in Pids : Live(y) /\ Like(proc[y], proc'[q])
  BY <1>1, LikeItself
<1>4. ASSUME NEW q \in Pids, NEW s \in Pids, Live(q)', Live(s)' PROVE Mates(proc'[q], proc'[s])
  <2>1. PICK y \in Pids : Live(y) /\ Like(proc[y], proc'[q])
    BY <1>3, <1>4
  <2>2. PICK z \in Pids : Live(z) /\ Like(proc[z], proc'[s])
    BY <1>3, <1>4
  <2>3. Mates(proc[y], proc[z])
    BY <2>1, <2>2 DEF Ordered
  <2> QED  BY <2>1, <2>2, <2>3, MatesLike
<1>5. \A q \in Foreground' : q # c => q \in Foreground /\ proc'[q].turn = proc[q].turn
  BY <1>1 DEF Foreground
<1>6. c \in Foreground' => (p \in Foreground /\ x.turn = proc[p].turn) \/ Foreground = {}
  BY <1>1 DEF Foreground, InStep
<1>7. \A q, s \in Foreground : proc[q].turn = proc[s].turn
  BY DEF Ordered
<1>8. ASSUME NEW q \in Foreground', NEW s \in Foreground' PROVE proc'[q].turn = proc'[s].turn
  BY <1>1, <1>5, <1>6, <1>7, <1>8
<1> QED  BY <1>2, <1>4, <1>8 DEF Ordered

LEMMA EndedOrdered ==
  ASSUME ShellTypeOK, strays' \in Nat, Ordered, NEW p \in Pids, Live(p), proc' = Ended({p}),
         \A q \in Pids : Live(q) /\ q # p /\ proc[q].parent = p => ~Leader(proc[q])
  PROVE  Ordered'
<1>1. /\ \A q \in Pids : Live(q)' <=> Live(q) /\ q # p
      /\ \A q \in Pids : q # p /\ Live(q) =>
           \/ proc'[q] = proc[q]
           \/ proc[q].parent = p /\ proc'[q] = [proc[q] EXCEPT !.parent = 0]
  <2>1. {p} \in SUBSET Pids /\ \A q \in {p} : Live(q)
    OBVIOUS
  <2>2. /\ \A q \in Pids : Live(q)' <=> Live(q) /\ q \notin {p}
        /\ \A q \in Pids \ {p} : Live(q) =>
             \/ proc[q].parent \notin {p} /\ proc'[q] = proc[q]
             \/ proc[q].parent \in {p} /\ proc'[q] = [proc[q] EXCEPT !.parent = 0]
    BY <2>1, EndedIs
  <2> QED  BY <2>2
<1>2. ASSUME NEW q \in Pids, Live(q)'
      PROVE  /\ Placed(proc'[q]) /\ Like(proc[q], proc'[q])
             /\ proc'[q].turn = proc[q].turn /\ proc'[q].bg = proc[q].bg
  <2>1. CASE proc'[q] = proc[q]
    BY <1>1, <1>2, <2>1, LikeItself DEF Ordered
  <2>2. CASE proc[q].parent = p /\ proc'[q] = [proc[q] EXCEPT !.parent = 0]
    <3>1. PICK old : old = proc[q] /\ Process(old)
      BY TypeParts
    <3>2. PICK r : r = [old EXCEPT !.parent = 0]
      OBVIOUS
    <3>3. /\ r.do = old.do /\ r.cmd = old.cmd /\ r.then = old.then /\ r.waits = old.waits
          /\ r.p = old.p /\ r.own = old.own /\ r.in = old.in /\ r.out = old.out
          /\ r.turn = old.turn /\ r.stage = old.stage /\ r.bg = old.bg
      BY <3>1, <3>2 DEF Process, Kept
    <3>4. Placed(old) /\ ~Leader(old)
      BY <1>1, <1>2, <2>2, <3>1 DEF Ordered
    <3>5. Placed(r)
      BY <3>3, <3>4 DEF Placed, Ready, Bare
    <3>6. Like(old, r)
      BY <3>3 DEF Like, Narrow, Along, Ends
    <3> QED  BY <2>2, <3>1, <3>2, <3>3, <3>5, <3>6
  <2> QED  BY <1>1, <1>2, <2>1, <2>2
<1>3. ASSUME NEW q \in Pids, NEW s \in Pids, Live(q)', Live(s)' PROVE Mates(proc'[q], proc'[s])
  <2>1. Mates(proc[q], proc[s])
    BY <1>1, <1>3 DEF Ordered
  <2> QED  BY <1>2, <1>3, <2>1, MatesLike
<1>4. \A q \in Foreground' : q \in Foreground /\ proc'[q].turn = proc[q].turn
  BY <1>1, <1>2 DEF Foreground
<1>5. ASSUME NEW q \in Foreground', NEW s \in Foreground' PROVE proc'[q].turn = proc'[s].turn
  <2>1. \A x, y \in Foreground : proc[x].turn = proc[y].turn
    BY DEF Ordered
  <2> QED  BY <1>4, <1>5, <2>1
<1> QED  BY <1>2, <1>3, <1>5 DEF Ordered
-----------------------------------------------------------------------------
\* A process that takes a step, other than the answer to ctrl-c, is in its place.
LEMMA Acting ==
  ASSUME ShellInv, OrderInv, NEW p \in Pids, Live(p), proc[p].do # "asked", strays = 0
  PROVE  /\ ShellTypeOK /\ Ordered /\ Process(proc[p]) /\ Placed(proc[p])
         /\ proc = [q \in Pids |-> proc[q]]
         /\ Attended \/ LeftBehind
<1>1. ~AllAsked
  BY DEF AllAsked
<1>2. ShellTypeOK /\ Ordered /\ (Attended \/ LeftBehind)
  BY <1>1 DEF ShellInv, OrderInv
<1>3. Placed(proc[p])
  BY <1>2 DEF Ordered
<1> QED  BY <1>2, <1>3, TypeParts

\* A process that leads a list, or reads lines, is not left behind.
LEMMA LeaderIs ==
  ASSUME Attended \/ LeftBehind, NEW p \in Pids, Live(p), ~Reads(proc[p]), ~proc[p].bg
  PROVE  p \in Foreground /\ Attended
<1>1. Attended
  BY DEF LeftBehind
<1>2. p # Root
  BY <1>1, ShellsFinite DEF Attended
<1> QED  BY <1>1, <1>2 DEF Foreground

LEMMA ReaderIs ==
  ASSUME Attended \/ LeftBehind, NEW p \in Pids, Reads(proc[p])
  PROVE  p = Root /\ Attended /\ ~proc[p].bg
BY ShellsFinite DEF LeftBehind, Attended

\* The shell ends only when it prompts, so no line loses its place with it.
LEMMA EndOrdered ==
  ASSUME ShellInv, OrderInv, NEW p \in Pids, Live(p), proc[p].do \notin {"asked", "none"},
         proc[p].do = "prompt" \/ ~Reads(proc[p]), proc' = Ended({p}), strays' = strays
  PROVE  OrderInv'
<1> SUFFICES ASSUME strays = 0 PROVE Ordered'
  BY DEF OrderInv
<1>1. /\ ShellTypeOK /\ Ordered /\ strays' \in Nat
      /\ Attended \/ LeftBehind
  BY Acting, TypeParts
<1>2. ASSUME NEW q \in Pids, Live(q), q # p, proc[q].parent = p, Leader(proc[q]) PROVE FALSE
  <2>1. Root = p /\ ~proc[q].bg
    BY <1>2 DEF Leader
  <2>2. Attended /\ q \in Foreground
    BY <1>1, <1>2, <2>1 DEF LeftBehind, Foreground
  <2>3. proc[Root].do = "prompt"
    BY <2>1, <2>2, ShellsFinite DEF Attended
  <2>4. PromptWhenDone
    BY PromptsDone
  <2> QED  BY <2>2, <2>3, <2>4 DEF PromptWhenDone
<1> QED  BY <1>1, <1>2, EndedOrdered

\* A process that goes on with what it has, or less.
LEMMA GoOrdered ==
  ASSUME ShellInv, OrderInv, NEW p \in Pids, Live(p), proc[p].do # "asked",
         NEW r, proc' = [proc EXCEPT ![p] = r], strays' = strays,
         Process(r), r.do \notin {"none", "zombie"}, r.parent = proc[p].parent,
         r.bg = proc[p].bg, r.turn = proc[p].turn,
         strays = 0 => Placed(r) /\ Like(proc[p], r)
  PROVE  OrderInv'
<1> SUFFICES ASSUME strays = 0 PROVE Ordered'
  BY DEF OrderInv
<1>1. ShellTypeOK /\ Ordered /\ strays' \in Nat
  BY Acting, TypeParts
<1>2. Goes(p, r)
  BY DEF Goes
<1>3. Fits(p, r)
  BY <1>1, LikeFits
<1> QED  BY <1>1, <1>2, <1>3, GoesOrdered

LEMMA ForkOrdered ==
  ASSUME ShellInv, OrderInv, NEW p \in Pids, Live(p), proc[p].do # "asked", strays' = strays,
         NEW mine, NEW yours, fork1(p, mine, yours),
         Process(mine), mine.do \notin {"none", "zombie"}, mine.parent = proc[p].parent,
         mine.bg = proc[p].bg, mine.turn = proc[p].turn,
         Process(yours), yours.do \notin {"none", "zombie"},
         strays = 0 => /\ Placed(mine) /\ Like(proc[p], mine)
                       /\ Placed([yours EXCEPT !.parent = p])
                       /\ Like(proc[p], yours) /\ InStep(p, yours)
  PROVE  OrderInv'
<1> SUFFICES ASSUME strays = 0 PROVE Ordered'
  BY DEF OrderInv
<1>1. ShellTypeOK /\ Ordered /\ strays' \in Nat
  BY Acting, TypeParts
<1>2. PICK x : x = ChildOf(p, yours)
  OBVIOUS
<1>3. /\ Process(x) /\ x.do = yours.do /\ x.bg = yours.bg /\ x.parent = p
      /\ x.own = yours.own /\ x.in = yours.in /\ x.out = yours.out
      /\ x.stage = yours.stage /\ x.turn = yours.turn
  BY <1>2 DEF Process, Kept, ChildOf
<1>4. Placed(x) /\ Like(proc[p], x) /\ InStep(p, x)
  BY <1>2, <1>3 DEF ChildOf, Like, Narrow, Along, Ends, Bare, InStep
<1>5. ASSUME proc' = [proc EXCEPT ![p] = mine] PROVE Ordered'
  <2>1. Goes(p, mine)
    BY <1>5 DEF Goes
  <2>2. Fits(p, mine)
    BY <1>1, LikeFits
  <2> QED  BY <1>1, <2>1, <2>2, GoesOrdered
<1>6. ASSUME NEW c, NewChild(p, mine, yours, c) PROVE Ordered'
  <2>1. Forks(p, mine, c, x) /\ c \in Pids
    BY <1>2, <1>3, <1>6 DEF Forks, NewChild
  <2> QED  BY <1>1, <1>4, <2>1, ForksOrdered
<1> QED  BY <1>5, <1>6, ForkSteps
-----------------------------------------------------------------------------
\* A step each.
LEMMA MainOrdered ==
  ASSUME ShellInv, OrderInv, NEW p \in Pids, main(p)
  PROVE  OrderInv'
<1>1. /\ proc[p].do = "prompt" /\ strays' = strays /\ Live(p)
      /\ proc[p].do \notin {"asked", "none"} /\ Reads(proc[p])
  BY DEF main, Live, Reads
<1>2. CASE proc' = Ended({p})
  BY <1>1, <1>2, EndOrdered
<1>3. ASSUME NEW line \in Lines,
             fork1(p, Awaiting(p, 1, "prompt"),
                   [proc[p] EXCEPT !.do = "line", !.cmd = Typed(line)])
      PROVE  OrderInv'
  <2>1. PICK old : old = proc[p] /\ Process(old)
    BY RecordOf
  <2>2. PICK mine : mine = [old EXCEPT !.do = "wait", !.waits = 1, !.then = "prompt"]
    OBVIOUS
  <2>3. PICK yours : yours = [old EXCEPT !.do = "line", !.cmd = Typed(line)]
    OBVIOUS
  <2>4. fork1(p, mine, yours)
    BY <1>3, <2>1, <2>2, <2>3 DEF Awaiting
  <2>5. /\ Process(mine) /\ mine.do = "wait" /\ mine.waits = 1 /\ mine.then = "prompt"
        /\ mine.parent = old.parent /\ mine.bg = old.bg /\ mine.turn = old.turn
        /\ mine.own = old.own /\ mine.in = old.in /\ mine.out = old.out
        /\ mine.stage = old.stage
    BY <2>1, <2>2 DEF Process, Kept, Doings
  <2>6. /\ Process(yours) /\ yours.do = "line" /\ yours.cmd.line = line
        /\ yours.bg = old.bg /\ yours.turn = old.turn
        /\ yours.own = old.own /\ yours.in = old.in /\ yours.out = old.out
        /\ yours.stage = old.stage
    BY <2>1, <2>3 DEF Process, Kept, Doings, Typed
  <2>7. ASSUME strays = 0
        PROVE  /\ Placed(mine) /\ Like(old, mine)
               /\ Placed([yours EXCEPT !.parent = p])
               /\ Like(old, yours) /\ InStep(p, yours)
    <3>1. Placed(old) /\ (Attended \/ LeftBehind)
      BY <1>1, <2>1, <2>7, Acting
    <3>2. p = Root /\ ~old.bg
      BY <1>1, <2>1, <3>1, ReaderIs
    <3>3. Bare(old)
      BY <1>1, <2>1, <3>1 DEF Placed
    <3>4. Bare(mine) /\ Bare(yours)
      BY <2>5, <2>6, <3>3 DEF Bare
    <3>5. Foreground = {}
      BY <1>1, <2>7, <3>2, PromptsDone DEF PromptWhenDone
    <3>6. Placed(mine)
      BY <2>5, <3>4 DEF Placed, Bare, Piping
    <3>7. PICK x : x = [yours EXCEPT !.parent = p]
      OBVIOUS
    <3>8. /\ x.do = "line" /\ x.cmd.line = line /\ x.bg = yours.bg /\ x.parent = p
          /\ x.own = yours.own /\ x.in = yours.in /\ x.out = yours.out
      BY <2>6, <3>7 DEF Process, Kept
    <3>9. Placed(x)
      BY <2>6, <3>2, <3>4, <3>8 DEF Placed, Bare, Leader, Piping
    <3> QED  BY <3>4, <3>5, <3>6, <3>7, <3>9 DEF Like, InStep
  <2> QED  BY <1>1, <2>1, <2>4, <2>5, <2>6, <2>7, ForkOrdered
<1> QED  BY <1>2, <1>3 DEF main

LEMMA ChildOrdered ==
  ASSUME ShellInv, OrderInv, NEW p \in Pids, child(p)
  PROVE  OrderInv'
<1>1. /\ proc[p].do = "line" /\ Live(p) /\ proc[p].do \notin {"asked", "none"}
      /\ ~Reads(proc[p])
  BY DEF child, Live, Reads
<1>2. CASE strays' = strays + 1
  BY <1>2, TypeParts DEF ShellInv, OrderInv
<1>3. CASE proc' = Ended({p}) /\ strays' = strays
  BY <1>1, <1>3, EndOrdered
<1>4. ASSUME NEW cmd, cmd = Parsed[proc[p].cmd.line], proc[p].cmd.line \notin Unmatched,
             cmd # Error, strays' = strays,
             proc' = [proc EXCEPT ![p].do = "run", ![p].cmd = cmd]
      PROVE  OrderInv'
  <2>1. PICK old : old = proc[p] /\ Process(old)
    BY RecordOf
  <2>2. PICK r : r = [old EXCEPT !.do = "run", !.cmd = cmd]
    OBVIOUS
  <2>3. proc' = [proc EXCEPT ![p] = r]
    BY <1>4, <2>1, <2>2, RecordOf
  <2>4. /\ Process(r) /\ r.do = "run" /\ r.cmd = cmd /\ r.parent = old.parent
        /\ r.bg = old.bg /\ r.turn = old.turn
        /\ r.own = old.own /\ r.in = old.in /\ r.out = old.out
    BY <2>1, <2>2 DEF Process, Kept, Doings
  <2>5. ASSUME strays = 0 PROVE Placed(r) /\ Like(old, r)
    <3>1. Placed(old)
      BY <1>1, <2>1, <2>5, Acting
    <3>2. Bare(old) /\ Leader(old) /\ old.cmd.line \in Lines
      BY <1>1, <2>1, <3>1 DEF Placed
    <3>3. Proper(cmd)
      BY <1>4, <2>1, <3>2, ParsedProper
    <3>4. Bare(r) /\ Leader(r)
      BY <2>4, <3>2 DEF Bare, Leader
    <3>5. Ready(r)
      BY <2>4, <3>3, <3>4 DEF Ready, Bare
    <3> QED  BY <2>4, <3>4, <3>5 DEF Placed, Bare, Like, Piping
  <2> QED  BY <1>1, <1>4, <2>1, <2>3, <2>4, <2>5, GoOrdered
<1> QED  BY <1>2, <1>3, <1>4 DEF child

LEMMA WaitOrdered ==
  ASSUME ShellInv, OrderInv, NEW p \in Pids, wait(p)
  PROVE  OrderInv'
<1>1. /\ proc[p].do = "wait" /\ proc[p].waits > 0 /\ strays' = strays /\ Live(p)
      /\ proc[p].do # "asked" /\ ShellTypeOK /\ strays \in Nat
  BY TypeParts DEF wait, Live, ShellInv
<1>2. PICK old : old = proc[p] /\ Process(old)
  BY RecordOf
<1>3. PICK k \in {0, 1} : k = old.waits - 1
  BY <1>1, <1>2, TypeParts
<1>4. PICK r : r = [old EXCEPT !.waits = k]
  OBVIOUS
<1>5. /\ Process(r) /\ r.do = "wait" /\ r.waits = k /\ r.then = old.then /\ r.cmd = old.cmd
      /\ r.parent = old.parent /\ r.bg = old.bg /\ r.turn = old.turn
      /\ r.own = old.own /\ r.in = old.in /\ r.out = old.out /\ r.stage = old.stage
  BY <1>1, <1>2, <1>4 DEF Process, Kept, Doings
<1>6. ASSUME strays = 0 PROVE Placed(r) /\ Like(old, r)
  <2>1. Placed(old)
    BY <1>1, <1>2, <1>6, Acting
  <2>2. r.waits <= 1 /\ old.do = "wait"
    BY <1>1, <1>2, <1>3, <1>5
  <2>3. Placed(r)
    BY <1>5, <2>1, <2>2 DEF Placed, Bare, Leader, Piping
  <2> QED  BY <1>5, <2>3 DEF Like, Narrow, Along, Ends
<1>7. ASSUME NEW c \in Pids, proc[c].do = "zombie", proc[c].parent = p,
             proc' = [proc EXCEPT ![c] = None, ![p].waits = @ - 1]
      PROVE  OrderInv'
  <2>1. c # p
    BY <1>1, <1>7
  <2>2. proc' = [proc EXCEPT ![c] = None, ![p] = r]
    BY <1>2, <1>3, <1>4, <1>7, <2>1, RecordOf
  <2>3. Reaps(p, r, c)
    BY <1>2, <1>5, <1>7, <2>2 DEF Reaps
  <2> SUFFICES ASSUME strays = 0 PROVE Ordered'
    BY <1>1 DEF OrderInv
  <2>4. Ordered
    BY <1>1, Acting
  <2> QED  BY <1>1, <1>2, <1>5, <1>6, <2>3, <2>4, ReapsOrdered
<1>8. ASSUME proc' = [proc EXCEPT ![p].waits = @ - 1] PROVE OrderInv'
  <2>1. proc' = [proc EXCEPT ![p] = r]
    BY <1>2, <1>3, <1>4, <1>8, RecordOf
  <2> QED  BY <1>1, <1>2, <1>5, <1>6, <2>1, GoOrdered
<1> QED  BY <1>7, <1>8 DEF wait

\* When the left side of a list has ended, only the leader of the list is left
\* of the line.
LEMMA OnlyLeader ==
  ASSUME ShellTypeOK, Attended, Ordered, NEW p \in Foreground, proc[p].parent = Root,
         Kids(p) = {}
  PROVE  Foreground = {p}
<1>1. p \in Pids /\ p # Root /\ Live(p) /\ ~proc[p].bg /\ p \in Kids(Root)
  BY DEF Foreground, Kids, Live
<1>2. Live(Root) /\ Minded(Root) /\ Placed(proc[Root]) /\ Root \in Shells
  BY PidsAre DEF Attended, Shells, Live, Ordered
<1>3. proc[Root].do = "wait" /\ proc[Root].then = "prompt"
  BY <1>1, <1>2 DEF Shells, Minded
<1>4. proc[Root].waits \in {0, 1}
  <2>1. proc[Root].waits <= 1
    BY <1>2, <1>3 DEF Placed
  <2> QED  BY <2>1, PidsAre, TypeParts
<1>5. Cardinality(Kids(Root)) <= 1
  <2>1. Cardinality(Kids(Root)) <= proc[Root].waits
    BY <1>2, <1>3 DEF Minded
  <2> QED  BY <1>4, <2>1, KidsFinite
<1>6. Kids(Root) = {p}
  <2>1. IsFiniteSet(Kids(Root)) /\ Cardinality(Kids(Root)) \in Nat
    BY KidsFinite
  <2>2. PICK others : others = Kids(Root) \ {p}
    OBVIOUS
  <2>3. IsFiniteSet(others) /\ Cardinality(others) = Cardinality(Kids(Root)) - 1
    BY <1>1, <2>1, <2>2, FS_RemoveElement
  <2>4. Cardinality(others) \in Nat
    BY <2>3, FS_CardinalityType
  <2>5. Cardinality(others) = 0
    BY <1>5, <2>1, <2>3, <2>4
  <2>6. Kids(Root) \ {p} = {}
    BY <2>2, <2>3, <2>5, FS_EmptySet
  <2> QED  BY <1>1, <2>6
<1>7. ASSUME Foreground \ {p} # {} PROVE FALSE
  <2>1. PICK q \in Foreground \ {p} : proc[q].parent \notin Foreground \ {p}
    BY <1>7 DEF Attended
  <2>2. q \in Pids /\ Live(q) /\ proc[q].parent \in {p, Root}
    BY <2>1 DEF Attended, Foreground
  <2>3. q \in Kids(p) \cup Kids(Root)
    BY <2>2 DEF Kids, Live
  <2> QED  BY <1>6, <2>1, <2>3
<1> QED  BY <1>7

LEMMA WaitedOrdered ==
  ASSUME ShellInv, OrderInv, NEW p \in Pids, waited(p)
  PROVE  OrderInv'
<1>1. /\ proc[p].do = "wait" /\ proc[p].waits = 0 /\ strays' = strays /\ Live(p)
      /\ proc[p].do \notin {"asked", "none"}
      /\ ShellTypeOK /\ strays \in Nat /\ proc[p].then \in {"exit", "run", "prompt"}
  BY TypeParts DEF waited, Exit, Live, ShellInv
<1>2. CASE proc[p].then = "exit"
  <2>1. proc' = Ended({p}) /\ ~Reads(proc[p])
    BY <1>1, <1>2 DEF waited, Exit, Reads
  <2> QED  BY <1>1, <2>1, EndOrdered
<1>3. CASE proc[p].then # "exit"
  <2>1. PICK old : old = proc[p] /\ Process(old)
    BY RecordOf
  <2>2. PICK do \in {"run", "prompt"} : do = old.then
    BY <1>1, <1>3, <2>1
  <2>3. PICK turn : turn = IF do = "run" THEN old.turn + 1 ELSE old.turn
    OBVIOUS
  <2>4. PICK r : r = [old EXCEPT !.do = do, !.turn = turn]
    OBVIOUS
  <2>5. proc' = [proc EXCEPT ![p] = r]
    BY <1>3, <2>1, <2>2, <2>3, <2>4, RecordOf DEF waited
  <2>6. do \in Doings
    BY DEF Doings
  <2>7. /\ Process(r) /\ r.do = do /\ r.cmd = old.cmd /\ r.parent = old.parent
        /\ r.bg = old.bg /\ r.turn = turn /\ r.stage = old.stage
        /\ r.own = old.own /\ r.in = old.in /\ r.out = old.out
    BY <2>1, <2>4, <2>6 DEF Process, Kept
  <2> SUFFICES ASSUME strays = 0 PROVE Ordered'
    BY <1>1 DEF OrderInv
  <2>8. Ordered /\ Placed(old) /\ (Attended \/ LeftBehind)
    BY <1>1, <2>1, Acting
  <2>9. Bare(old) /\ (do = "run" => Leader(old) /\ Proper(old.cmd))
    BY <1>1, <2>1, <2>2, <2>8 DEF Placed
  <2>10. Bare(r) /\ (do = "run" => Leader(r) /\ Ready(r))
    BY <2>7, <2>9 DEF Bare, Leader, Ready
  <2>11. Placed(r)
    BY <2>7, <2>10 DEF Placed, Bare, Piping
  <2>12. Fits(p, r)
    BY <1>1, <2>8, <2>10, LikeFits DEF Like
  <2>13. r.turn = old.turn \/ Foreground \subseteq {p}
    <3>1. CASE do = "prompt"
      BY <2>3, <2>7, <3>1
    <3>2. CASE do = "run"
      <4>1. ~Reads(proc[p]) /\ ~proc[p].bg /\ proc[p].parent = Root
        BY <1>1, <2>1, <2>2, <2>9, <3>2 DEF Reads, Leader
      <4>2. p \in Foreground /\ Attended
        BY <1>1, <2>8, <4>1, LeaderIs
      <4>3. Cardinality(Kids(p)) <= proc[p].waits
        BY <1>1, <2>1, <2>2, <3>2, <4>1, <4>2 DEF Attended, Minded
      <4>4. Kids(p) = {}
        <5>1. Cardinality(Kids(p)) = 0
          BY <1>1, <4>3, KidsFinite
        <5> QED  BY <5>1, KidsFinite, FS_EmptySet
      <4> QED  BY <1>1, <2>8, <4>1, <4>2, <4>4, OnlyLeader
    <3> QED  BY <3>1, <3>2
  <2>14. Goes(p, r)
    BY <2>1, <2>2, <2>5, <2>7 DEF Goes
  <2> QED  BY <1>1, <2>1, <2>7, <2>8, <2>11, <2>12, <2>13, <2>14, GoesOrdered
<1> QED  BY <1>2, <1>3
\* runcmd goes on with a part of the command, or the program.
LEMMA RunProgramOrdered ==
  ASSUME ShellInv, OrderInv, NEW p \in Pids, proc[p].do = "run", RunProgram(p)
  PROVE  OrderInv'
<1>1. /\ Live(p) /\ proc[p].do \notin {"asked", "none"} /\ ~Reads(proc[p])
      /\ strays' = strays
  BY DEF Live, Reads, RunProgram, Exit
<1>2. CASE proc' = Ended({p})
  BY <1>1, <1>2, EndOrdered
<1>3. CASE proc' = [proc EXCEPT ![p].do = "program"]
  <2>1. PICK old : old = proc[p] /\ Process(old)
    BY RecordOf
  <2>2. PICK r : r = [old EXCEPT !.do = "program"]
    OBVIOUS
  <2>3. proc' = [proc EXCEPT ![p] = r]
    BY <1>3, <2>1, <2>2, RecordOf
  <2>4. /\ Process(r) /\ r.do = "program" /\ r.parent = old.parent
        /\ r.bg = old.bg /\ r.turn = old.turn /\ r.stage = old.stage
        /\ r.own = old.own /\ r.in = old.in /\ r.out = old.out
    BY <2>1, <2>2 DEF Process, Kept, Doings
  <2>5. ASSUME strays = 0 PROVE Placed(r) /\ Like(old, r)
    <3>1. Placed(old) /\ old.do = "run"
      BY <1>1, <2>1, <2>5, Acting
    <3> QED  BY <2>4, <3>1 DEF Placed, Piping, Like, Narrow, Along, Ends
  <2> QED  BY <1>1, <2>1, <2>3, <2>4, <2>5, GoOrdered
<1> QED  BY <1>2, <1>3 DEF RunProgram, Exit

LEMMA RunRedirectedOrdered ==
  ASSUME ShellInv, OrderInv, NEW p \in Pids, proc[p].do = "run", RunRedirected(p)
  PROVE  OrderInv'
<1>1. /\ Live(p) /\ proc[p].do \notin {"asked", "none"} /\ ~Reads(proc[p])
      /\ strays' = strays /\ proc[p].cmd.type \in Arrows
  BY DEF Live, Reads, RunRedirected, Exit
<1>2. CASE proc' = Ended({p})
  BY <1>1, <1>2, EndOrdered
<1>3. CASE proc' # Ended({p})
  <2>1. PICK old : old = proc[p] /\ Process(old)
    BY RecordOf
  <2>2. PICK cmd : cmd = old.cmd.cmd
    OBVIOUS
  <2>3. PICK in : in = IF old.cmd.type = "<" THEN 0 ELSE old.in
    OBVIOUS
  <2>4. PICK out : out = IF old.cmd.type = ">" THEN 0 ELSE old.out
    OBVIOUS
  <2>5. PICK r : r = [old EXCEPT !.cmd = cmd, !.in = in, !.out = out]
    OBVIOUS
  <2>6. proc' = [proc EXCEPT ![p] = r]
    BY <1>3, <2>1, <2>2, <2>3, <2>4, <2>5, RecordOf DEF RunRedirected, Exit
  <2>7. /\ Process(r) /\ r.do = old.do /\ r.cmd = cmd /\ r.parent = old.parent
        /\ r.bg = old.bg /\ r.turn = old.turn /\ r.stage = old.stage
        /\ r.own = old.own /\ r.in = in /\ r.out = out
    BY <2>1, <2>5 DEF Process, Kept
  <2>8. ASSUME strays = 0 PROVE Placed(r) /\ Like(old, r)
    <3>1. Placed(old) /\ old.do = "run"
      BY <1>1, <2>1, <2>8, Acting
    <3>2. Proper(cmd) /\ cmd.type \in Simple
      BY <1>1, <2>1, <2>2, <3>1, ProperParts DEF Placed, Ready
    <3>3. Ready(r)
      BY <2>7, <3>2 DEF Ready, Simple, Arrows
    <3>4. Placed(r)
      BY <2>7, <3>1, <3>3 DEF Placed, Piping
    <3>5. (in = 0 \/ in = old.in) /\ (out = 0 \/ out = old.out)
      BY <2>3, <2>4
    <3>6. 0 \notin Pipes
      BY ShellAssumption DEF Pipes
    <3>7. Narrow(old, r)
      BY <2>7, <3>5, <3>6 DEF Narrow, Along, Ends
    <3> QED  BY <3>4, <3>7 DEF Like
  <2> QED  BY <1>1, <2>1, <2>6, <2>7, <2>8, GoOrdered
<1> QED  BY <1>2, <1>3

LEMMA RunListOrdered ==
  ASSUME ShellInv, OrderInv, NEW p \in Pids, proc[p].do = "run", RunList(p)
  PROVE  OrderInv'
<1>1. /\ Live(p) /\ proc[p].do \notin {"asked", "none"} /\ ~Reads(proc[p])
      /\ strays' = strays /\ proc[p].cmd.type = ";"
  BY DEF Live, Reads, RunList
<1>2. PICK old : old = proc[p] /\ Process(old)
  BY RecordOf
<1>3. PICK left : left = old.cmd.left
  OBVIOUS
<1>4. PICK right : right = old.cmd.right
  OBVIOUS
<1>5. PICK mine : mine = [old EXCEPT !.do = "wait", !.waits = 1, !.then = "run", !.cmd = right]
  OBVIOUS
<1>6. PICK yours : yours = [old EXCEPT !.cmd = left]
  OBVIOUS
<1>7. fork1(p, mine, yours)
  BY <1>2, <1>3, <1>4, <1>5, <1>6 DEF RunList, Awaiting
<1>8. /\ Process(mine) /\ mine.do = "wait" /\ mine.then = "run" /\ mine.cmd = right
      /\ mine.parent = old.parent /\ mine.bg = old.bg /\ mine.turn = old.turn
      /\ mine.own = old.own /\ mine.in = old.in /\ mine.out = old.out
  BY <1>2, <1>5 DEF Process, Kept, Doings
<1>9. /\ Process(yours) /\ yours.do = old.do /\ yours.cmd = left
      /\ yours.bg = old.bg /\ yours.turn = old.turn
      /\ yours.own = old.own /\ yours.in = old.in /\ yours.out = old.out
  BY <1>2, <1>6 DEF Process, Kept
<1>10. ASSUME strays = 0
       PROVE  /\ Placed(mine) /\ Like(old, mine)
              /\ Placed([yours EXCEPT !.parent = p])
              /\ Like(old, yours) /\ InStep(p, yours)
  <2>1. Placed(old) /\ old.do = "run" /\ (Attended \/ LeftBehind)
    BY <1>1, <1>2, <1>10, Acting
  <2>2. Bare(old) /\ Leader(old) /\ Proper(old.cmd)
    BY <1>1, <1>2, <2>1 DEF Placed, Ready
  <2>3. Proper(left) /\ left.type \in Behind /\ Proper(right)
    BY <1>1, <1>2, <1>3, <1>4, <2>2, ProperParts
  <2>4. Bare(mine) /\ Bare(yours) /\ Leader(mine)
    BY <1>8, <1>9, <2>2 DEF Bare, Leader
  <2>5. Placed(mine)
    BY <1>8, <2>3, <2>4 DEF Placed, Bare, Piping
  <2>6. p \in Foreground
    BY <1>1, <1>2, <2>1, <2>2, LeaderIs DEF Leader
  <2>7. PICK x : x = [yours EXCEPT !.parent = p]
    OBVIOUS
  <2>8. x.do = "run" /\ x.cmd = left /\ x.own = {} /\ x.in = 0 /\ x.out = 0
    BY <1>9, <2>1, <2>4, <2>7 DEF Process, Kept, Bare
  <2>9. Ready(x)
    BY <2>3, <2>8 DEF Ready, Bare, Behind, Piped, Simple, Arrows
  <2>10. Placed(x)
    BY <2>8, <2>9 DEF Placed, Piping
  <2> QED  BY <1>2, <1>9, <2>4, <2>5, <2>6, <2>7, <2>10 DEF Like, InStep
<1> QED  BY <1>1, <1>2, <1>7, <1>8, <1>9, <1>10, ForkOrdered

LEMMA RunBackgroundOrdered ==
  ASSUME ShellInv, OrderInv, NEW p \in Pids, proc[p].do = "run", RunBackground(p)
  PROVE  OrderInv'
<1>1. /\ Live(p) /\ proc[p].do \notin {"asked", "none"} /\ ~Reads(proc[p])
      /\ strays' = strays /\ proc[p].cmd.type = "&"
  BY DEF Live, Reads, RunBackground
<1>2. PICK old : old = proc[p] /\ Process(old)
  BY RecordOf
<1>3. PICK cmd : cmd = old.cmd.cmd
  OBVIOUS
<1>4. PICK mine : mine = [old EXCEPT !.do = "wait", !.waits = 0, !.then = "exit",
                                     !.cmd = Nothing]
  OBVIOUS
<1>5. PICK yours : yours = [old EXCEPT !.cmd = cmd, !.bg = TRUE]
  OBVIOUS
<1>6. fork1(p, mine, yours)
  BY <1>2, <1>3, <1>4, <1>5 DEF RunBackground, Awaiting
<1>7. /\ Process(mine) /\ mine.do = "wait" /\ mine.then = "exit"
      /\ mine.parent = old.parent /\ mine.bg = old.bg /\ mine.turn = old.turn
      /\ mine.own = old.own /\ mine.in = old.in /\ mine.out = old.out
  BY <1>2, <1>4 DEF Process, Kept, Doings
<1>8. /\ Process(yours) /\ yours.do = old.do /\ yours.cmd = cmd /\ yours.bg
      /\ yours.own = old.own /\ yours.in = old.in /\ yours.out = old.out
  BY <1>2, <1>5 DEF Process, Kept
<1>9. ASSUME strays = 0
      PROVE  /\ Placed(mine) /\ Like(old, mine)
             /\ Placed([yours EXCEPT !.parent = p])
             /\ Like(old, yours) /\ InStep(p, yours)
  <2>1. Placed(old) /\ old.do = "run"
    BY <1>1, <1>2, <1>9, Acting
  <2>2. Bare(old) /\ Proper(old.cmd)
    BY <1>1, <1>2, <2>1 DEF Placed, Ready
  <2>3. Proper(cmd) /\ cmd.type \in Behind
    BY <1>1, <1>2, <1>3, <2>2, ProperParts
  <2>4. Bare(mine) /\ Bare(yours)
    BY <1>7, <1>8, <2>2 DEF Bare
  <2>5. Placed(mine)
    BY <1>7, <2>4 DEF Placed, Bare, Piping
  <2>7. PICK x : x = [yours EXCEPT !.parent = p]
    OBVIOUS
  <2>8. x.do = "run" /\ x.cmd = cmd /\ x.own = {} /\ x.in = 0 /\ x.out = 0
    BY <1>8, <2>1, <2>4, <2>7 DEF Process, Kept, Bare
  <2>9. Ready(x)
    BY <2>3, <2>8 DEF Ready, Bare, Behind, Piped, Simple, Arrows
  <2>10. Placed(x)
    BY <2>8, <2>9 DEF Placed, Piping
  <2> QED  BY <1>8, <2>4, <2>5, <2>7, <2>10 DEF Like, InStep
<1> QED  BY <1>1, <1>2, <1>6, <1>7, <1>8, <1>9, ForkOrdered
\* The pipe a process makes is one that no other has.
LEMMA NewPipeFits ==
  ASSUME Ordered, NEW p \in Pids, Live(p), proc[p].own = {}, proc[p].out = 0,
         NEW k \in FreePipes, NEW r, r.own = {k}, r.in = proc[p].in, r.out = 0,
         r.stage = proc[p].stage, Along(proc[p], r)
  PROVE  Fits(p, r)
<1>1. 0 \notin Pipes
  BY ShellAssumption DEF Pipes
<1>2. k \in Pipes /\ \A q \in Pids : Live(q) => k \notin Ends(proc[q]) /\ k # proc[q].in
  BY DEF FreePipes, Readers, Writers, Ends
<1>3. \A j \in Pipes : j \in Ends(r) <=> j = k
  BY <1>1, <1>2 DEF Ends
<1>4. k # r.in
  BY <1>2
<1>5. Mates(r, r)
  BY <1>3, <1>4 DEF Mates, Along
<1>6. ASSUME NEW q \in Pids, Live(q) PROVE Mates(r, proc[q]) /\ Mates(proc[q], r)
  <2>1. Mates(r, proc[q])
    BY <1>2, <1>3, <1>6 DEF Mates
  <2>2. Mates(proc[q], proc[p])
    BY <1>6 DEF Ordered
  <2>3. Mates(proc[q], r)
    BY <1>2, <1>3, <1>6, <2>2 DEF Mates, Along
  <2> QED  BY <2>1, <2>3
<1> QED  BY <1>5, <1>6 DEF Fits

LEMMA RunPipeOrdered ==
  ASSUME ShellInv, OrderInv, NEW p \in Pids, proc[p].do = "run", RunPipe(p)
  PROVE  OrderInv'
<1>1. /\ Live(p) /\ proc[p].do \notin {"asked", "none"} /\ ~Reads(proc[p])
      /\ strays' = strays /\ proc[p].cmd.type = "|"
  BY DEF Live, Reads, RunPipe, Exit
<1>2. CASE proc' = Ended({p})
  BY <1>1, <1>2, EndOrdered
<1>3. CASE proc' # Ended({p})
  <2> SUFFICES ASSUME strays = 0 PROVE Ordered'
    BY <1>1 DEF OrderInv
  <2>1. PICK old : old = proc[p] /\ Process(old)
    BY RecordOf
  <2>2. PICK k : k = Min(FreePipes)
    OBVIOUS
  <2>3. k \in FreePipes
    <3>1. FreePipes # {}
      BY <1>3 DEF RunPipe, Exit
    <3>2. FreePipes \in SUBSET Nat
      BY ShellAssumption DEF FreePipes, Pipes
    <3> QED  BY <2>2, <3>1, <3>2, MinIn
  <2>4. /\ ShellTypeOK /\ strays' \in Nat /\ Ordered /\ Placed(old) /\ old.do = "run"
    BY <1>1, <2>1, Acting, TypeParts
  <2>5. old.own = {} /\ old.out = 0 /\ Proper(old.cmd)
    BY <1>1, <2>1, <2>4 DEF Placed, Ready, Piping
  <2>6. PICK own : own = old.own \cup {k}
    OBVIOUS
  <2>7. PICK r : r = [old EXCEPT !.p = k, !.own = own, !.do = "fork left"]
    OBVIOUS
  <2>8. proc' = [proc EXCEPT ![p] = r]
    BY <1>3, <2>1, <2>2, <2>6, <2>7, RecordOf DEF RunPipe, Exit
  <2>9. /\ Process(r) /\ r.do = "fork left" /\ r.cmd = old.cmd /\ r.parent = old.parent
        /\ r.bg = old.bg /\ r.turn = old.turn /\ r.stage = old.stage
        /\ r.p = k /\ r.own = own /\ r.in = old.in /\ r.out = old.out
    BY <2>1, <2>7 DEF Process, Kept, Doings
  <2>10. r.own = {k}
    BY <2>5, <2>6, <2>9
  <2>11. Placed(r)
    BY <1>1, <2>1, <2>5, <2>9, <2>10 DEF Placed, Piping
  <2>12. Fits(p, r)
    <3>1. Along(old, r)
      BY <2>9 DEF Along
    <3> QED  BY <1>1, <2>1, <2>3, <2>4, <2>5, <2>9, <2>10, <3>1, NewPipeFits
  <2>13. Goes(p, r)
    BY <2>1, <2>8, <2>9 DEF Goes
  <2> QED  BY <1>1, <2>1, <2>4, <2>9, <2>11, <2>12, <2>13, GoesOrdered
<1> QED  BY <1>2, <1>3

\* A child of a process of the foreground is in the turn of the line.
LEMMA ChildInStep ==
  ASSUME Attended \/ LeftBehind, NEW p \in Pids, Live(p), ~Reads(proc[p]), NEW x,
         x.bg = proc[p].bg, x.turn = proc[p].turn
  PROVE  InStep(p, x)
<1>1. CASE proc[p].bg
  BY <1>1 DEF InStep
<1>2. CASE ~proc[p].bg
  BY <1>2, LeaderIs DEF InStep
<1> QED  BY <1>1, <1>2

LEMMA PipeForksOrdered ==
  ASSUME ShellInv, OrderInv, NEW p \in Pids, PipeForks(p)
  PROVE  OrderInv'
<1>1. PICK old : old = proc[p] /\ Process(old)
  BY RecordOf
<1>2. /\ old.do \in {"fork left", "fork right"} /\ old.do \in Piping /\ strays' = strays
      /\ Live(p) /\ proc[p].do \notin {"asked", "none"} /\ ~Reads(proc[p])
  BY <1>1 DEF PipeForks, Piping, Live, Reads
<1>3. ASSUME strays = 0
      PROVE  /\ Placed(old) /\ Proper(old.cmd) /\ old.cmd.type = "|" /\ old.out = 0
             /\ old.own = {old.p} /\ (Attended \/ LeftBehind)
  <2>1. Placed(old) /\ (Attended \/ LeftBehind)
    BY <1>1, <1>2, <1>3, Acting
  <2> QED  BY <1>2, <2>1 DEF Placed
<1>4. ASSUME NEW do \in {"left", "right"}, NEW yours, yours = [old EXCEPT !.do = do]
      PROVE  /\ Process(yours) /\ yours.do \notin {"none", "zombie"}
             /\ strays = 0 => /\ Placed([yours EXCEPT !.parent = p])
                              /\ Like(old, yours) /\ InStep(p, yours)
  <2>1. /\ Process(yours) /\ yours.do = do /\ yours.cmd = old.cmd /\ yours.bg = old.bg
        /\ yours.turn = old.turn /\ yours.stage = old.stage /\ yours.p = old.p
        /\ yours.own = old.own /\ yours.in = old.in /\ yours.out = old.out
    BY <1>1, <1>4 DEF Process, Kept, Doings
  <2>2. PICK x : x = [yours EXCEPT !.parent = p]
    OBVIOUS
  <2>3. /\ x.do = do /\ x.cmd = old.cmd /\ x.p = old.p /\ x.own = old.own /\ x.out = old.out
    BY <2>1, <2>2 DEF Process, Kept
  <2>4. strays = 0 => Placed(x)
    BY <1>3, <1>4, <2>3 DEF Placed, Piping
  <2>5. Like(old, yours)
    BY <2>1 DEF Like, Narrow, Along, Ends
  <2>6. strays = 0 => InStep(p, yours)
    BY <1>1, <1>2, <1>3, <2>1, ChildInStep
  <2> QED  BY <1>4, <2>1, <2>2, <2>4, <2>5, <2>6
<1>5. ASSUME proc[p].do = "fork left",
             fork1(p, [proc[p] EXCEPT !.do = "fork right"], [proc[p] EXCEPT !.do = "left"])
      PROVE  OrderInv'
  <2>1. PICK mine : mine = [old EXCEPT !.do = "fork right"]
    OBVIOUS
  <2>2. PICK yours : yours = [old EXCEPT !.do = "left"]
    OBVIOUS
  <2>3. fork1(p, mine, yours)
    BY <1>1, <1>5, <2>1, <2>2
  <2>4. /\ Process(mine) /\ mine.do = "fork right" /\ mine.cmd = old.cmd /\ mine.bg = old.bg
        /\ mine.parent = old.parent
        /\ mine.turn = old.turn /\ mine.stage = old.stage /\ mine.p = old.p
        /\ mine.own = old.own /\ mine.in = old.in /\ mine.out = old.out
    BY <1>1, <2>1 DEF Process, Kept, Doings
  <2>5. ASSUME strays = 0 PROVE Placed(mine) /\ Like(old, mine)
    BY <1>3, <2>4, <2>5 DEF Placed, Piping, Like, Narrow, Along, Ends
  <2>6. /\ Process(yours) /\ yours.do \notin {"none", "zombie"}
        /\ strays = 0 => /\ Placed([yours EXCEPT !.parent = p])
                         /\ Like(old, yours) /\ InStep(p, yours)
    BY <1>4, <2>2
  <2> QED  BY <1>1, <1>2, <2>3, <2>4, <2>5, <2>6, ForkOrdered
<1>6. ASSUME proc[p].do = "fork right",
             fork1(p, [Awaiting(p, 2, "exit") EXCEPT !.cmd = Nothing, !.own = @ \ {proc[p].p}],
                   [proc[p] EXCEPT !.do = "right"])
      PROVE  OrderInv'
  <2>1. PICK own : own = old.own \ {old.p}
    OBVIOUS
  <2>2. PICK mine : mine = [old EXCEPT !.do = "wait", !.waits = 2, !.then = "exit",
                                       !.cmd = Nothing, !.own = own]
    OBVIOUS
  <2>3. PICK yours : yours = [old EXCEPT !.do = "right"]
    OBVIOUS
  <2>4. fork1(p, mine, yours)
    BY <1>1, <1>6, <2>1, <2>2, <2>3 DEF Awaiting
  <2>5. /\ Process(mine) /\ mine.do = "wait" /\ mine.then = "exit" /\ mine.bg = old.bg
        /\ mine.parent = old.parent
        /\ mine.turn = old.turn /\ mine.stage = old.stage
        /\ mine.own = own /\ mine.in = old.in /\ mine.out = old.out
    BY <1>1, <2>2 DEF Process, Kept, Doings
  <2>6. ASSUME strays = 0 PROVE Placed(mine) /\ Like(old, mine)
    <3>1. own = {}
      BY <1>3, <2>1, <2>6
    <3> QED  BY <2>5, <3>1 DEF Placed, Piping, Like, Narrow, Along, Ends
  <2>7. /\ Process(yours) /\ yours.do \notin {"none", "zombie"}
        /\ strays = 0 => /\ Placed([yours EXCEPT !.parent = p])
                         /\ Like(old, yours) /\ InStep(p, yours)
    BY <1>4, <2>3
  <2> QED  BY <1>1, <1>2, <2>4, <2>5, <2>6, <2>7, ForkOrdered
<1> QED  BY <1>5, <1>6 DEF PipeForks
\* The left side writes to the pipe, the right side reads from it.
LEMMA ReadEndFits ==
  ASSUME Ordered, NEW p \in Pids, Live(p), NEW k, k \in proc[p].own,
         NEW r, r.own = {}, r.in = k, r.out = 0,
         r.stage = proc[p].stage + 1, Along(proc[p], r)
  PROVE  Fits(p, r)
<1>1. \A j \in Pipes : j \notin Ends(r)
  BY ShellAssumption DEF Pipes, Ends
<1>2. \A y : Mates(r, y)
  BY <1>1 DEF Mates
<1>3. ASSUME NEW q \in Pids, Live(q) PROVE Mates(proc[q], r)
  <2>1. Mates(proc[q], proc[p])
    BY <1>3 DEF Ordered
  <2>2. ASSUME k \in Pipes, k \in Ends(proc[q])
        PROVE  r.stage = proc[q].stage + 1 /\ Along(proc[q], r)
    <3>1. k \in Ends(proc[p])
      BY DEF Ends
    <3> QED  BY <2>1, <2>2, <3>1 DEF Mates, Along
  <2> QED  BY <1>1, <2>2 DEF Mates
<1> QED  BY <1>2, <1>3 DEF Fits

LEMMA PipeChildOrdered ==
  ASSUME ShellInv, OrderInv, NEW p \in Pids, PipeChild(p)
  PROVE  OrderInv'
<1>1. PICK old : old = proc[p] /\ Process(old)
  BY RecordOf
<1>2. /\ old.do \in {"left", "right"} /\ old.do \in Piping /\ strays' = strays
      /\ Live(p) /\ proc[p].do \notin {"asked", "none"} /\ ~Reads(proc[p])
  BY <1>1 DEF PipeChild, Piping, Live, Reads
<1>3. ASSUME strays = 0
      PROVE  /\ Ordered /\ Proper(old.cmd) /\ old.cmd.type = "|" /\ old.out = 0
             /\ old.own = {old.p}
  <2>1. Placed(old) /\ Ordered
    BY <1>1, <1>2, <1>3, Acting
  <2> QED  BY <1>2, <2>1 DEF Placed
<1>4. PICK own : own = old.own \ {old.p}
  OBVIOUS
<1>5. PICK k : k = old.p
  OBVIOUS
<1>6. proc' = [proc EXCEPT ![p] =
          IF old.do = "left"
          THEN [old EXCEPT !.do = "run", !.cmd = old.cmd.left, !.out = k, !.own = own]
          ELSE [old EXCEPT !.do = "run", !.cmd = old.cmd.right, !.in = k, !.own = own,
                           !.stage = old.stage + 1]]
  BY <1>1, <1>4, <1>5, Zenon DEF PipeChild
<1>7. strays = 0 => own = {}
  BY <1>3, <1>4
<1>8. CASE old.do = "left"
  <2>1. PICK cmd : cmd = old.cmd.left
    OBVIOUS
  <2>2. PICK r : r = [old EXCEPT !.do = "run", !.cmd = cmd, !.out = k, !.own = own]
    OBVIOUS
  <2>3. proc' = [proc EXCEPT ![p] = r]
    BY <1>6, <1>8, <2>1, <2>2
  <2>4. /\ Process(r) /\ r.do = "run" /\ r.cmd = cmd /\ r.parent = old.parent
        /\ r.bg = old.bg /\ r.turn = old.turn /\ r.stage = old.stage
        /\ r.own = own /\ r.in = old.in /\ r.out = k
    BY <1>1, <2>2 DEF Process, Kept, Doings
  <2>5. ASSUME strays = 0 PROVE Placed(r) /\ Like(old, r)
    <3>1. Proper(cmd) /\ cmd.type \in Simple
      BY <1>3, <2>1, <2>5, ProperParts
    <3>2. Ready(r)
      BY <2>4, <3>1 DEF Ready, Simple, Arrows
    <3>3. Placed(r)
      BY <1>7, <2>4, <2>5, <3>2 DEF Placed, Piping
    <3>4. Ends(r) \subseteq Ends(old)
      BY <1>3, <1>5, <1>7, <2>4, <2>5 DEF Ends
    <3>5. Narrow(old, r)
      BY <2>4, <3>4 DEF Narrow, Along
    <3> QED  BY <3>3, <3>5 DEF Like
  <2> QED  BY <1>1, <1>2, <2>3, <2>4, <2>5, GoOrdered
<1>9. CASE old.do # "left"
  <2> SUFFICES ASSUME strays = 0 PROVE Ordered'
    BY <1>2 DEF OrderInv
  <2>1. PICK cmd : cmd = old.cmd.right
    OBVIOUS
  <2>2. PICK stage : stage = old.stage + 1
    OBVIOUS
  <2>3. PICK r : r = [old EXCEPT !.do = "run", !.cmd = cmd, !.in = k, !.own = own,
                                 !.stage = stage]
    OBVIOUS
  <2>4. proc' = [proc EXCEPT ![p] = r]
    BY <1>6, <1>9, <2>1, <2>2, <2>3
  <2>5. /\ Process(r) /\ r.do = "run" /\ r.cmd = cmd /\ r.parent = old.parent
        /\ r.bg = old.bg /\ r.turn = old.turn /\ r.stage = stage
        /\ r.own = own /\ r.in = k /\ r.out = old.out
    BY <1>1, <2>3 DEF Process, Kept, Doings
  <2>6. Proper(cmd) /\ cmd.type \in Piped
    BY <1>3, <2>1, ProperParts
  <2>7. Ready(r)
    BY <1>3, <2>5, <2>6 DEF Ready, Piped, Simple, Arrows
  <2>8. Placed(r)
    BY <1>7, <2>5, <2>7 DEF Placed, Piping
  <2>9. Fits(p, r)
    <3>1. k \in proc[p].own /\ r.own = {} /\ r.in = k /\ r.out = 0
      BY <1>1, <1>3, <1>5, <1>7, <2>5
    <3>2. r.stage = proc[p].stage + 1 /\ Along(proc[p], r)
      BY <1>1, <2>2, <2>5 DEF Along
    <3> QED  BY <1>2, <1>3, <3>1, <3>2, ReadEndFits
  <2>10. Goes(p, r)
    BY <1>1, <2>4, <2>5 DEF Goes
  <2>11. ShellTypeOK /\ strays' \in Nat
    BY <1>2, TypeParts DEF ShellInv
  <2> QED  BY <1>1, <1>2, <1>3, <2>5, <2>8, <2>9, <2>10, <2>11, GoesOrdered
<1> QED  BY <1>8, <1>9

LEMMA ProgramOrdered ==
  ASSUME ShellInv, OrderInv, NEW p \in Pids, Name(p) # "none", strays' = strays,
         proc' = Ended({p}) \/ \E full : proc' = [proc EXCEPT ![p].full = full]
  PROVE  OrderInv'
<1>1. /\ proc[p].do = "program" /\ Live(p) /\ proc[p].do \notin {"asked", "none"}
      /\ ~Reads(proc[p])
  BY DEF Name, Live, Reads
<1>2. CASE proc' = Ended({p})
  BY <1>1, <1>2, EndOrdered
<1>3. ASSUME NEW full, proc' = [proc EXCEPT ![p].full = full] PROVE OrderInv'
  <2>1. PICK old : old = proc[p] /\ Process(old)
    BY RecordOf
  <2>2. PICK r : r = [old EXCEPT !.full = full]
    OBVIOUS
  <2>3. proc' = [proc EXCEPT ![p] = r]
    BY <1>3, <2>1, <2>2, RecordOf
  <2>4. /\ Process(r) /\ r.do = "program" /\ r.parent = old.parent
        /\ r.bg = old.bg /\ r.turn = old.turn /\ r.stage = old.stage
        /\ r.own = old.own /\ r.in = old.in /\ r.out = old.out
    BY <1>1, <2>1, <2>2 DEF Process, Kept
  <2>5. ASSUME strays = 0 PROVE Placed(r) /\ Like(old, r)
    <3>1. Placed(old) /\ old.do = "program"
      BY <1>1, <2>1, <2>5, Acting
    <3> QED  BY <2>4, <3>1 DEF Placed, Piping, Like, Narrow, Along, Ends
  <2> QED  BY <1>1, <2>1, <2>3, <2>4, <2>5, GoOrdered
<1> QED  BY <1>2, <1>3

LEMMA ProgramsOrdered ==
  ASSUME ShellInv, OrderInv, NEW p \in Pids, Read(p) \/ Write(p) \/ NoProgram(p)
  PROVE  OrderInv'
<1>1. ASSUME Read(p) PROVE OrderInv'
  <2>1. Name(p) # "none" /\ strays' = strays
    BY <1>1 DEF Read
  <2>2. proc' = Ended({p}) \/ proc' = [proc EXCEPT ![p].full = TRUE]
    BY <1>1 DEF Read
  <2> QED  BY <2>1, <2>2, ProgramOrdered
<1>2. ASSUME Write(p) PROVE OrderInv'
  <2>1. Name(p) # "none" /\ strays' = strays
    BY <1>2 DEF Write
  <2>2. proc' = Ended({p}) \/ proc' = [proc EXCEPT ![p].full = FALSE]
    BY <1>2 DEF Write
  <2> QED  BY <2>1, <2>2, ProgramOrdered
<1>3. ASSUME NoProgram(p) PROVE OrderInv'
  <2>1. Name(p) # "none" /\ strays' = strays /\ proc' = Ended({p})
    BY <1>3 DEF NoProgram, Exit
  <2> QED  BY <2>1, ProgramOrdered
<1> QED  BY <1>1, <1>2, <1>3

LEMMA CtrlCOrdered ==
  ASSUME ShellInv, OrderInv, NEW p \in Pids, ctrl_c(p)
  PROVE  OrderInv'
<1>1. proc[p].do = "asked" /\ Live(p) /\ ShellTypeOK /\ strays \in Nat
  BY TypeParts DEF ctrl_c, Live, ShellInv
<1>2. CASE strays' = strays + 1
  BY <1>1, <1>2 DEF OrderInv
<1>3. CASE Exit(p)
  <2>1. proc' = Ended({p}) /\ strays' = strays
    BY <1>3 DEF Exit
  <2> SUFFICES ASSUME strays = 0 PROVE AllAsked'
    BY <2>1 DEF OrderInv
  <2>2. AllAsked
    BY <1>1 DEF ShellInv, Attended, LeftBehind
  <2>3. {p} \in SUBSET Pids /\ (\A q \in {p} : Live(q)) /\ strays' \in Nat
    BY <1>1, <2>1
  <2>4. ASSUME NEW q \in Pids, Live(q)' PROVE proc'[q].do = "asked"
    <3>1. Live(q) /\ q \notin {p}
      BY <1>1, <2>1, <2>3, <2>4, EndedIs
    <3>2. proc'[q] = proc[q] \/ proc'[q] = [proc[q] EXCEPT !.parent = 0]
      BY <1>1, <2>1, <2>3, <3>1, EndedIs
    <3>3. PICK old : old = proc[q] /\ Process(old)
      BY RecordOf
    <3>4. PICK r : r = [old EXCEPT !.parent = 0]
      OBVIOUS
    <3>5. r.do = old.do
      BY <3>3, <3>4 DEF Process, Kept
    <3>6. old.do = "asked"
      BY <2>2, <3>1, <3>3 DEF AllAsked
    <3> QED  BY <3>2, <3>3, <3>4, <3>5, <3>6
  <2> QED  BY <2>4 DEF AllAsked
<1> QED  BY <1>2, <1>3 DEF ctrl_c

-----------------------------------------------------------------------------
LEMMA OrderStarts == Init => OrderInv
<1> SUFFICES ASSUME Init PROVE Ordered
  BY DEF OrderInv
<1>1. PICK first : first = [None EXCEPT !.do = "prompt"]
  OBVIOUS
<1>2. /\ first.do = "prompt" /\ first.own = {} /\ first.in = 0 /\ first.out = 0
  BY <1>1 DEF None
<1>3. proc = [p \in Pids |-> IF p = Root THEN first ELSE None]
  BY <1>1 DEF Init
<1>4. proc[Root] = first /\ \A p \in Pids : p # Root => ~Live(p)
  BY <1>3, PidsAre, NoneIs DEF Live
<1>5. Placed(first) /\ Bare(first)
  BY <1>2 DEF Placed, Bare, Piping
<1>6. Mates(first, first)
  BY <1>5, ShellAssumption DEF Bare, Mates, Ends, Pipes
<1>7. Foreground = {}
  BY <1>4 DEF Foreground
<1> QED  BY <1>4, <1>5, <1>6, <1>7 DEF Ordered

LEMMA OrderIdle == OrderInv /\ UNCHANGED vars => OrderInv'
<1> SUFFICES ASSUME OrderInv, proc' = proc, strays' = strays PROVE OrderInv'
  BY DEF vars
<1>1. \A p : Live(p)' = Live(p)
  BY DEF Live
<1>2. Foreground' = Foreground
  BY <1>1 DEF Foreground
<1> QED  BY <1>1, <1>2 DEF OrderInv, Ordered, AllAsked

LEMMA OrderSteps == ShellInv /\ OrderInv /\ [Next]_vars => OrderInv'
<1> SUFFICES ASSUME ShellInv, OrderInv, [Next]_vars PROVE OrderInv'
  OBVIOUS
<1>1. CASE UNCHANGED vars
  BY <1>1, OrderIdle
<1>2. CASE Interrupt
  BY <1>2, InterruptStep DEF OrderInv
<1>3. ASSUME NEW p \in Pids, main(p) \/ ctrl_c(p) PROVE OrderInv'
  BY <1>3, MainOrdered, CtrlCOrdered
<1>4. ASSUME NEW p \in Pids, Step(p) PROVE OrderInv'
  <2>1. ASSUME runcmd(p) PROVE OrderInv'
    <3>1. proc[p].do = "run"
      BY <2>1 DEF runcmd
    <3> QED  BY <2>1, <3>1, RunProgramOrdered, RunRedirectedOrdered, RunListOrdered,
                RunBackgroundOrdered, RunPipeOrdered DEF runcmd
  <2>2. ASSUME child(p) \/ wait(p) \/ waited(p) PROVE OrderInv'
    BY <2>2, ChildOrdered, WaitOrdered, WaitedOrdered
  <2>3. ASSUME PipeForks(p) \/ PipeChild(p) PROVE OrderInv'
    BY <2>3, PipeForksOrdered, PipeChildOrdered
  <2>4. ASSUME Read(p) \/ Write(p) \/ NoProgram(p) PROVE OrderInv'
    BY <2>4, ProgramsOrdered
  <2> QED  BY <1>4, <2>1, <2>2, <2>3, <2>4 DEF Step
<1> QED  BY <1>1, <1>2, <1>3, <1>4 DEF Next

\* However lines nest and whoever ends first: each process has the pipes and the
\* place in its line that runcmd gave it, and those of the foreground are of one
\* part of a list (unless all ask since a ctrl-c, or one was answered with no).
THEOREM LinesAreInOrder == Spec => []OrderInv
<1>1. ShellInv /\ [Next]_vars => ShellInv'
  BY ShellSteps
<1> QED  BY OrderStarts, OrderSteps, ShellHolds, <1>1, PTL DEF Spec

\* Programs before a ";" have ended when those behind it run: runcmd's list waits
\* for its left side, and each pipe for both of its programs; as long as there is
\* one shell only.
THEOREM ListsRunInTurn == Spec => []InTurn
<1>1. ShellInv /\ OrderInv => InTurn
  <2> SUFFICES ASSUME OrderInv, strays = 0, NEW p \in Foreground, NEW q \in Foreground,
                      Name(p) # "none", Name(q) # "none"
               PROVE  proc[p].turn = proc[q].turn
    BY DEF InTurn
  <2>1. ~AllAsked
    BY DEF AllAsked, Foreground, Name
  <2> QED  BY <2>1 DEF OrderInv, Ordered
<1> QED  BY <1>1, LinesAreInOrder, ShellHolds, PTL

\* A pipe joins a program with the next one of the same line and no other: the
\* children of runcmd's pipe keep one end each, the parent none, and a pipe is
\* used again only when nobody has it; as long as there is one shell only.
THEOREM PipesJoinNeighbours == Spec => []Wired
<1>1. OrderInv => Wired
  <2> SUFFICES ASSUME OrderInv, strays = 0, NEW p \in Pids, NEW q \in Pids, NEW k \in Pipes,
                      Name(p) # "none", Name(q) # "none", proc[p].out = k, proc[q].in = k
               PROVE  /\ proc[q].stage = proc[p].stage + 1
                      /\ proc[q].turn = proc[p].turn /\ proc[q].bg = proc[p].bg
    BY DEF Wired
  <2>1. Live(p) /\ Live(q) /\ proc[p].do # "asked"
    BY DEF Live, Name
  <2>2. ~AllAsked
    BY <2>1 DEF AllAsked
  <2>3. Mates(proc[p], proc[q])
    BY <2>1, <2>2 DEF OrderInv, Ordered
  <2>4. k \in Ends(proc[p])
    BY DEF Ends
  <2> QED  BY <2>3, <2>4 DEF Mates, Along
<1> QED  BY <1>1, LinesAreInOrder, PTL

-----------------------------------------------------------------------------
\* Which lines the parser accepts: the tokens it parses and those between programs.

Separators == {";", "|", "&"}
Tokens == Words \cup {"<", ">", "&", "|", ";"}

LEMMA TokensAre ==
  /\ "end" \notin Tokens /\ Words \cap Separators = {} /\ Words \cap Arrows = {}
  /\ Arrows \cap Separators = {} /\ Tokens = Words \cup Arrows \cup Separators
  /\ "end" \notin Words /\ "end" \notin Separators
BY WordsAssumption DEF Tokens, Separators, Arrows

LEMMA PartsAre ==
  ASSUME NEW s, NEW S, Len(s) \in Nat
  PROVE  At(s, S) = StageOf("at", [of |-> s, at |-> S], <<>>, Len(s))
<1>1. \A k, v : Stage("at", [of |-> s, at |-> S], k, v)
                  = IF k \in S THEN Append(v, s[k]) ELSE v
  BY DEF Stage
<1>2. \A w : StageStep("at", [of |-> s, at |-> S], <<>>, Len(s), w)
               = [k \in 0 .. Len(s) |->
                    IF k = 0 THEN <<>>
                    ELSE IF k \in S THEN Append(w[k - 1], s[k]) ELSE w[k - 1]]
  BY <1>1 DEF StageStep
<1> QED  BY <1>2, Zenon DEF At, StageOf

\* v holds what there is at the positions R.
Filled(v, R, T) == v \in Seq(T) /\ IsFiniteSet(R) /\ Len(v) = Cardinality(R)

\* The part of a line at positions S has as many tokens as S has positions.
LEMMA PartLength ==
  ASSUME NEW T, NEW s \in Seq(T), NEW S \in SUBSET DOMAIN s
  PROVE  At(s, S) \in Seq(T) /\ Len(At(s, S)) = Cardinality(S) /\ IsFiniteSet(S)
<1>1. PICK n : n = Len(s) /\ n \in Nat /\ DOMAIN s = 1 .. n
  BY LenProperties
<1>2. PICK f : /\ f[n] = At(s, S) /\ f[0] = <<>>
               /\ \A k \in 1 .. n : f[k] = Stage("at", [of |-> s, at |-> S], k, f[k - 1])
  <2>1. At(s, S) = StageOf("at", [of |-> s, at |-> S], <<>>, n)
    BY <1>1, PartsAre, Zenon
  <2>2. PICK g : /\ g[n] = StageOf("at", [of |-> s, at |-> S], <<>>, n) /\ g[0] = <<>>
                 /\ \A k \in 1 .. n : g[k] = Stage("at", [of |-> s, at |-> S], k, g[k - 1])
    BY <1>1, StagesAre
  <2> QED  BY <2>1, <2>2, Zenon
<1>3. PICK K : K = {k \in 0 .. n : Filled(f[k], S \cap (1 .. k), T)}
  OBVIOUS
<1>4. ASSUME NEW k \in 1 .. n, k - 1 \in K PROVE k \in K
  <2>1. PICK R : R = S \cap (1 .. k - 1)
    OBVIOUS
  <2>2. Filled(f[k - 1], R, T)
    BY <1>3, <1>4, <2>1
  <2>0. k \in 0 .. n
    BY <1>1
  <2>3. f[k] = IF k \in S THEN Append(f[k - 1], s[k]) ELSE f[k - 1]
    BY <1>2 DEF Stage
  <2>4. CASE k \in S
    <3>1. S \cap (1 .. k) = R \cup {k} /\ k \notin R
      BY <1>1, <2>1, <2>4
    <3>2. Cardinality(R \cup {k}) = Cardinality(R) + 1 /\ IsFiniteSet(R \cup {k})
      BY <2>2, <3>1, FS_AddElement DEF Filled
    <3>3. s[k] \in T
      BY <1>1, ElementOfSeq
    <3>4. f[k] = Append(f[k - 1], s[k])
      BY <2>3, <2>4
    <3>5. f[k] \in Seq(T) /\ Len(f[k]) = Cardinality(R) + 1
      BY <2>2, <3>3, <3>4, AppendProperties DEF Filled
    <3>6. Filled(f[k], R \cup {k}, T)
      BY <3>2, <3>5 DEF Filled
    <3> QED  BY <1>3, <2>0, <3>1, <3>6
  <2>5. CASE k \notin S
    <3>1. S \cap (1 .. k) = R
      BY <1>1, <2>1, <2>5
    <3>2. f[k] = f[k - 1]
      BY <2>3, <2>5
    <3> QED  BY <1>3, <2>0, <2>2, <3>1, <3>2
  <2> QED  BY <2>4, <2>5
<1>5. 0 \in K
  <2>1. S \cap (1 .. 0) = {} /\ f[0] = <<>> /\ <<>> \in Seq(T) /\ Len(<<>>) = 0
    BY <1>2
  <2>2. IsFiniteSet({}) /\ Cardinality({}) = 0
    BY FS_EmptySet
  <2>3. Filled(f[0], S \cap (1 .. 0), T)
    BY <2>1, <2>2 DEF Filled
  <2> QED  BY <1>1, <1>3, <2>3
<1>6. n \in K
  BY <1>1, <1>4, <1>5, Climb, Zenon
<1>7. S \cap (1 .. n) = S
  BY <1>1
<1> QED  BY <1>2, <1>3, <1>6, <1>7 DEF Filled

-----------------------------------------------------------------------------
\* One program of a line, from m up to e, where the next separator is.
ArgsIn(line, m, e) ==
    {k \in m .. e - 1 : line[k] \in Words /\ k - 1 \notin ArrowsOf(line)}

PartGood(line, m, e) ==
    /\ \A k \in m .. e - 1 : line[k] \in Arrows => Token(line, k + 1) \in Words
    /\ Cardinality(ArgsIn(line, m, e)) < MAXARGS

LEMMA SliceIs ==
  ASSUME NEW T, NEW line \in Seq(T), NEW m \in 1 .. Len(line) + 1, NEW e \in m .. Len(line) + 1
  PROVE  /\ SubSeq(line, m, e - 1) \in Seq(T) /\ Len(SubSeq(line, m, e - 1)) = e - m
         /\ DOMAIN SubSeq(line, m, e - 1) = 1 .. e - m
         /\ \A k \in 1 .. e - m : SubSeq(line, m, e - 1)[k] = line[k + m - 1]
<1>1. Len(line) \in Nat /\ m \in Nat \ {0} /\ e \in Nat /\ m <= e /\ e <= Len(line) + 1
  BY LenProperties
<1>2. PICK s : s = SubSeq(line, m, e - 1)
  OBVIOUS
<1>3. s = [k \in 1 .. e - m |-> line[k + m - 1]]
  BY <1>1, <1>2
<1>4. e - m \in Nat /\ \A k \in 1 .. e - m : k + m - 1 \in 1 .. Len(line)
  BY <1>1
<1>5. \A k \in 1 .. e - m : line[k + m - 1] \in T
  BY <1>4, ElementOfSeq
<1>6. s \in Seq(T)
  BY <1>3, <1>4, <1>5, IsASeq
<1> QED  BY <1>2, <1>3, <1>4, <1>6

\* Its arguments are as many, wherever the part begins.
LEMMA ShiftedAsMany ==
  ASSUME NEW S \in SUBSET Nat, NEW R \in SUBSET Nat, IsFiniteSet(S), NEW d \in Nat,
         \A k \in Nat : k + d \in R <=> k \in S, \A k \in R : k >= d
  PROVE  IsFiniteSet(R) /\ Cardinality(R) = Cardinality(S)
<1>1. PICK f : f = [k \in S |-> k + d]
  OBVIOUS
<1>2. f \in [S -> R]
  BY <1>1
<1>3. \A i, j \in S : f[i] = f[j] => i = j
  BY <1>1
<1>4. \A r \in R : \E k \in S : f[k] = r
  <2>1. ASSUME NEW r \in R PROVE \E k \in S : f[k] = r
    <3>1. r - d \in Nat /\ r = (r - d) + d
      OBVIOUS
    <3>2. r - d \in S
      BY <3>1
    <3> QED  BY <1>1, <3>1, <3>2
  <2> QED  BY <2>1
<1>5. ExistsBijection(S, R)
  BY <1>2, <1>3, <1>4 DEF ExistsBijection, Bijection, Injection, IsInjective, Surjection
<1> QED  BY <1>5, FS_Bijection

\* The tokens of the part are those of the line, as far as parseexec looks at them.
IsPart(line, m, e, s) ==
    /\ e \in m .. Len(line) + 1 /\ s \in Seq(Words \cup Arrows) /\ Len(s) = e - m
    /\ DOMAIN s = 1 .. e - m /\ \A k \in 1 .. e - m : s[k] = line[k + m - 1]
    /\ \A k \in 1 .. e - m : Token(s, k + 1) \in Words <=> Token(line, k + m) \in Words

LEMMA PartTokens ==
  ASSUME NEW line \in Seq(Tokens), NEW m \in 1 .. Len(line) + 1,
         NEW e, e = Until(line, m, Separators), NEW s, s = SubSeq(line, m, e - 1)
  PROVE  IsPart(line, m, e, s)
<1>1. Len(line) \in Nat /\ DOMAIN line = 1 .. Len(line) /\ m \in Nat \ {0}
  BY LenProperties
<1>2. /\ e \in m .. Len(line) + 1 /\ Token(line, e) \in Separators \cup {"end"}
      /\ \A k \in m .. e - 1 : line[k] \notin Separators
  BY <1>1, UntilIs
<1>3. /\ s \in Seq(Tokens) /\ Len(s) = e - m /\ DOMAIN s = 1 .. e - m
      /\ \A k \in 1 .. e - m : s[k] = line[k + m - 1]
  BY <1>2, SliceIs
<1>4. s \in Seq(Words \cup Arrows)
  <2>1. ASSUME NEW k \in 1 .. Len(s) PROVE s[k] \in Words \cup Arrows
    <3>1. s[k] = line[k + m - 1] /\ k + m - 1 \in m .. e - 1 /\ k + m - 1 \in 1 .. Len(line)
      BY <1>1, <1>2, <1>3
    <3>2. line[k + m - 1] \in Tokens
      BY <3>1, ElementOfSeq
    <3> QED  BY <1>2, <3>1, <3>2, TokensAre
  <2>2. PICK n \in Nat : n = Len(s)
    BY <1>3, LenProperties
  <2>3. s \in [1 .. n -> Words \cup Arrows]
    BY <1>3, <2>1, <2>2, LenProperties
  <2>4. \E l \in Nat : s \in [1 .. l -> Words \cup Arrows]
    BY <2>2, <2>3
  <2>5. PICK U : U = Words \cup Arrows
    OBVIOUS
  <2>6. s \in UNION {[1 .. l -> U] : l \in Nat}
    BY <2>4, <2>5, Zenon
  <2>7. s \in Seq(U)
    BY <2>6, SeqDef, Zenon
  <2> QED  BY <2>5, <2>7
<1>5. ASSUME NEW k \in 1 .. e - m
      PROVE  Token(s, k + 1) \in Words <=> Token(line, k + m) \in Words
  <2>1. CASE k + 1 \in 1 .. e - m
    <3>1. s[k + 1] = line[k + m] /\ k + m \in DOMAIN line
      BY <1>1, <1>2, <1>3, <2>1
    <3> QED  BY <1>3, <2>1, <3>1 DEF Token
  <2>2. CASE k + 1 \notin 1 .. e - m
    <3>1. k + m = e
      <4>1. e \in Nat /\ m \in Nat /\ k \in 1 .. e - m
        BY <1>1, <1>2
      <4> QED  BY <2>2, <4>1
    <3>2. Token(s, k + 1) = "end"
      BY <1>3, <2>2 DEF Token
    <3> QED  BY <1>2, <3>1, <3>2, TokensAre
  <2> QED  BY <2>1, <2>2
<1> QED  BY <1>2, <1>3, <1>4, <1>5 DEF IsPart

LEMMA ExecAccepts ==
  ASSUME NEW line \in Seq(Tokens), NEW m \in 1 .. Len(line) + 1, m - 1 \notin ArrowsOf(line)
  PROVE  parseexec(line, m) # Error <=> PartGood(line, m, Until(line, m, Separators))
<1>1. PICK e : e = Until(line, m, Separators)
  OBVIOUS
<1>2. PICK s : s = SubSeq(line, m, e - 1)
  OBVIOUS
<1>3. /\ e \in m .. Len(line) + 1 /\ s \in Seq(Words \cup Arrows) /\ Len(s) = e - m
      /\ DOMAIN s = 1 .. e - m /\ \A k \in 1 .. e - m : s[k] = line[k + m - 1]
      /\ \A k \in 1 .. e - m : Token(s, k + 1) \in Words <=> Token(line, k + m) \in Words
  <2>1. IsPart(line, m, e, s)
    BY <1>1, <1>2, PartTokens
  <2> QED  BY <2>1 DEF IsPart
<1>4. Len(line) \in Nat /\ DOMAIN line = 1 .. Len(line) /\ m \in Nat \ {0} /\ e \in Nat
  BY <1>3, LenProperties
<1>5. PICK S : S = DOMAIN s \ (ArrowsOf(s) \cup FilesOf(s))
  OBVIOUS
<1>6. (\E k \in ArrowsOf(s) : Token(s, k + 1) \notin Words)
        <=> ~\A k \in m .. e - 1 : line[k] \in Arrows => Token(line, k + 1) \in Words
  <2>1. ASSUME NEW k \in ArrowsOf(s), Token(s, k + 1) \notin Words
        PROVE  /\ k + m - 1 \in m .. e - 1 /\ line[k + m - 1] \in Arrows
               /\ Token(line, (k + m - 1) + 1) \notin Words
    <3>1. k \in 1 .. e - m /\ s[k] \in Arrows
      BY <1>3, <2>1 DEF ArrowsOf
    <3>2. (k + m - 1) + 1 = k + m /\ k + m - 1 \in m .. e - 1
      BY <1>4, <3>1
    <3> QED  BY <1>3, <2>1, <3>1, <3>2
  <2>2. ASSUME NEW j \in m .. e - 1, line[j] \in Arrows, Token(line, j + 1) \notin Words
        PROVE  j - m + 1 \in ArrowsOf(s) /\ Token(s, (j - m + 1) + 1) \notin Words
    <3>1. PICK k : k = j - m + 1
      OBVIOUS
    <3>2. k \in 1 .. e - m /\ j = k + m - 1 /\ j + 1 = k + m
      BY <1>4, <3>1
    <3>3. s[k] = line[j] /\ Token(s, k + 1) \notin Words
      BY <1>3, <2>2, <3>2
    <3> QED  BY <1>3, <2>2, <3>1, <3>2, <3>3 DEF ArrowsOf
  <2> QED  BY <2>1, <2>2
<1>7. Len(At(s, S)) = Cardinality(ArgsIn(line, m, e))
  <2>1. S \in SUBSET DOMAIN s
    BY <1>5
  <2>2. Len(At(s, S)) = Cardinality(S) /\ IsFiniteSet(S)
    BY <1>3, <2>1, PartLength
  <2>3. \A k \in 1 .. e - m : k \in S <=> s[k] \notin Arrows /\ k - 1 \notin ArrowsOf(s)
    BY <1>3, <1>5 DEF ArrowsOf, FilesOf
  <2>4. ASSUME NEW k \in 1 .. e - m PROVE k \in S <=> k + (m - 1) \in ArgsIn(line, m, e)
    <3>1. k + (m - 1) \in m .. e - 1 /\ s[k] = line[k + (m - 1)]
      BY <1>3, <1>4
    <3>2. s[k] \notin Arrows <=> line[k + (m - 1)] \in Words
      <4>1. s[k] \in Words \cup Arrows
        BY <1>3, ElementOfSeq
      <4> QED  BY <3>1, <4>1, TokensAre
    <3>3. k - 1 \in ArrowsOf(s) <=> k + (m - 1) - 1 \in ArrowsOf(line)
      <4>1. CASE k = 1
        <5>1. k - 1 \notin ArrowsOf(s)
          BY <1>3, <4>1 DEF ArrowsOf
        <5>2. k + (m - 1) - 1 = m - 1
          BY <1>4, <4>1
        <5> QED  BY <5>1, <5>2
      <4>2. CASE k # 1
        <5>1. k - 1 \in 1 .. e - m /\ (k - 1) + m - 1 = k + (m - 1) - 1
              /\ k + (m - 1) - 1 \in 1 .. Len(line)
          BY <1>3, <1>4, <4>2
        <5>2. s[k - 1] = line[k + (m - 1) - 1]
          BY <1>3, <5>1
        <5> QED  BY <1>3, <1>4, <5>1, <5>2 DEF ArrowsOf
      <4> QED  BY <4>1, <4>2
    <3> QED  BY <2>3, <3>1, <3>2, <3>3 DEF ArgsIn
  <2>5. ASSUME NEW k \in Nat PROVE k + (m - 1) \in ArgsIn(line, m, e) <=> k \in S
    <3>1. CASE k \in 1 .. e - m
      BY <2>4, <3>1
    <3>2. CASE k \notin 1 .. e - m
      <4>1. k \notin S
        BY <1>3, <2>1, <3>2
      <4>2. k + (m - 1) \notin m .. e - 1
        BY <1>4, <3>2
      <4> QED  BY <4>1, <4>2 DEF ArgsIn
    <3> QED  BY <3>1, <3>2
  <2>6. S \in SUBSET Nat /\ ArgsIn(line, m, e) \in SUBSET Nat /\ m - 1 \in Nat
        /\ \A k \in ArgsIn(line, m, e) : k >= m - 1
    BY <1>3, <1>4, <2>1 DEF ArgsIn
  <2>7. Cardinality(ArgsIn(line, m, e)) = Cardinality(S)
    BY <2>2, <2>5, <2>6, ShiftedAsMany
  <2> QED  BY <2>2, <2>7
<1>8. PICK argv : argv = At(s, S)
  OBVIOUS
<1>9. parseredirs(execcmd(argv), s) # Error
  <2>1. Len(s) \in Nat
    BY <1>3, LenProperties
  <2>2. parseredirs(execcmd(argv), s).type \in Simple
    BY <2>1, ProgramProper, RedirsProper
  <2>3. Error.type \notin Simple
    BY DEF Error, Simple, Arrows
  <2> QED  BY <2>2, <2>3
<1>10. parseexec(line, m) = IF \/ \E k \in ArrowsOf(s) : Token(s, k + 1) \notin Words
                               \/ Len(argv) >= MAXARGS
                            THEN Error ELSE parseredirs(execcmd(argv), s)
  BY <1>1, <1>2, <1>5, <1>8 DEF parseexec, Separators
<1>11. Len(argv) >= MAXARGS <=> ~(Cardinality(ArgsIn(line, m, e)) < MAXARGS)
  <2>1. Len(argv) \in Nat /\ MAXARGS \in Nat
    <3>1. At(s, S) \in Seq(Words \cup Arrows)
      BY <1>3, <1>5, PartLength
    <3> QED  BY <1>8, <3>1, LenProperties, WordsAssumption
  <2> QED  BY <1>7, <1>8, <2>1
<1> QED  BY <1>1, <1>6, <1>9, <1>10, <1>11 DEF PartGood

-----------------------------------------------------------------------------
\* What a join covers: where the commands it joins begin, between i and n.
Starts(line, tok, i, n) == {i} \cup {k + 1 : k \in {m \in i .. n - 1 : line[m] = tok}}

Covered(line, lefts, tok, i, n, k) ==
    \/ line[k] = tok
    \/ \E j \in Starts(line, tok, i, n) :
          /\ k \in j .. lefts[j].next - 1
          /\ lefts[j].next = n \/ Token(line, lefts[j].next) = tok

Covers(line, lefts, tok, c, i, n) ==
    /\ n \in i .. Len(line) + 1 /\ Token(line, n) # tok
    /\ c # Error <=> \A j \in Starts(line, tok, i, n) : lefts[j].cmd # Error
    /\ \E j \in Starts(line, tok, i, n) : lefts[j].next = n
    /\ \A k \in i .. n - 1 : Covered(line, lefts, tok, i, n, k)

\* What is joined has none of the joining tokens in it.
Unjoined(line, lefts, tok) ==
    \A j \in 1 .. Len(line) + 1 : \A k \in j .. lefts[j].next - 1 : line[k] # tok

LEMMA JoinEnds ==
  ASSUME NEW line, Len(line) \in Nat, DOMAIN line = 1 .. Len(line), NEW lefts, NEW tok,
         Onward(line, lefts), Unjoined(line, lefts, tok), NEW i \in 1 .. Len(line) + 1,
         Token(line, lefts[i].next) # tok
  PROVE  Covers(line, lefts, tok, lefts[i].cmd, i, lefts[i].next)
<1>1. PICK n : n = lefts[i].next
  OBVIOUS
<1>2. n \in i .. Len(line) + 1 /\ \A k \in i .. n - 1 : line[k] # tok
  BY <1>1 DEF Onward, Unjoined
<1>3. Starts(line, tok, i, n) = {i}
  BY <1>2 DEF Starts
<1>4. \A k \in i .. n - 1 : Covered(line, lefts, tok, i, n, k)
  BY <1>1, <1>3 DEF Covered
<1> QED  BY <1>1, <1>2, <1>3, <1>4 DEF Covers

Free(line, tok, i, l) == \A k \in i .. l - 1 : line[k] # tok

LEMMA StartsGo ==
  ASSUME NEW line, NEW tok, NEW i \in Nat, NEW l \in Nat, i <= l, line[l] = tok,
         Free(line, tok, i, l), NEW n \in Nat, l + 1 <= n
  PROVE  Starts(line, tok, i, n) = {i} \cup Starts(line, tok, l + 1, n)
<1>1. ASSUME NEW k \in i .. n - 1, line[k] = tok
      PROVE  k + 1 \in Starts(line, tok, l + 1, n)
  <2>1. k >= l
    BY <1>1 DEF Free
  <2>2. CASE k = l
    BY <2>2 DEF Starts
  <2>3. CASE k # l
    <3>1. k \in l + 1 .. n - 1
      BY <2>1, <2>3
    <3> QED  BY <1>1, <3>1 DEF Starts
  <2> QED  BY <2>2, <2>3
<1>2. Starts(line, tok, i, n) \subseteq {i} \cup Starts(line, tok, l + 1, n)
  BY <1>1 DEF Starts
<1>3. ASSUME NEW j \in Starts(line, tok, l + 1, n) PROVE j \in Starts(line, tok, i, n)
  <2>1. CASE j = l + 1
    <3>1. l \in i .. n - 1
      OBVIOUS
    <3> QED  BY <2>1, <3>1 DEF Starts
  <2>2. ASSUME NEW k \in l + 1 .. n - 1, line[k] = tok, j = k + 1
        PROVE  j \in Starts(line, tok, i, n)
    <3>1. k \in i .. n - 1
      OBVIOUS
    <3> QED  BY <2>2, <3>1 DEF Starts
  <2> QED  BY <1>3, <2>1, <2>2 DEF Starts
<1>4. i \in Starts(line, tok, i, n)
  BY DEF Starts
<1> QED  BY <1>2, <1>3, <1>4

LEMMA JoinGoes ==
  ASSUME NEW line, Len(line) \in Nat, DOMAIN line = 1 .. Len(line), NEW lefts, NEW tok,
         tok # "end", tok # "error",
         Onward(line, lefts), Unjoined(line, lefts, tok), NEW i \in 1 .. Len(line) + 1,
         NEW l \in Nat, lefts[i].next = l, Token(line, l) = tok,
         NEW c, NEW n \in Nat, Covers(line, lefts, tok, c, l + 1, n),
         NEW d, d = IF Error \in {lefts[i].cmd, c} THEN Error
                    ELSE [type |-> tok, left |-> lefts[i].cmd, right |-> c]
  PROVE  Covers(line, lefts, tok, d, i, n)
<1>1. l \in i .. Len(line) + 1 /\ \A k \in i .. l - 1 : line[k] # tok
  BY DEF Onward, Unjoined
<1>2. l \in Nat /\ i \in Nat /\ i <= l /\ line[l] = tok /\ l + 1 <= Len(line) + 1
  BY <1>1 DEF Token
<1>3. n \in l + 1 .. Len(line) + 1 /\ Token(line, n) # tok /\ n \in Nat
  BY <1>2 DEF Covers
<1>4. Starts(line, tok, i, n) = {i} \cup Starts(line, tok, l + 1, n)
  <2>1. l + 1 <= n /\ n \in Nat
    BY <1>2, <1>3
  <2>2. l \in Nat /\ i \in Nat /\ i <= l /\ line[l] = tok /\ Free(line, tok, i, l)
    BY <1>1, <1>2 DEF Free
  <2> QED  BY <2>1, <2>2, StartsGo
<1>5. d # Error <=> \A j \in Starts(line, tok, i, n) : lefts[j].cmd # Error
  <2>1. [type |-> tok, left |-> lefts[i].cmd, right |-> c] # Error
    <3>1. [type |-> tok, left |-> lefts[i].cmd, right |-> c].type = tok
      OBVIOUS
    <3>2. Error.type = "error"
      BY DEF Error
    <3> QED  BY <3>1, <3>2
  <2>2. d # Error <=> lefts[i].cmd # Error /\ c # Error
    BY <2>1
  <2> QED  BY <1>4, <2>2 DEF Covers
<1>6. \E j \in Starts(line, tok, i, n) : lefts[j].next = n
  BY <1>4 DEF Covers
<1>7. ASSUME NEW k \in i .. n - 1 PROVE Covered(line, lefts, tok, i, n, k)
  <2>1. CASE k < l
    <3>1. k \in i .. l - 1 /\ i \in Starts(line, tok, i, n)
      BY <1>2, <1>4, <2>1
    <3> QED  BY <3>1 DEF Covered
  <2>2. CASE k = l
    BY <1>2, <2>2 DEF Covered
  <2>3. CASE k > l
    <3>1. k \in l + 1 .. n - 1
      BY <1>2, <1>3, <2>3
    <3>2. Covered(line, lefts, tok, l + 1, n, k)
      BY <3>1 DEF Covers
    <3> QED  BY <1>4, <3>2 DEF Covered
  <2>4. k < l \/ k = l \/ k > l
    BY <1>2, <1>3
  <2> QED  BY <2>1, <2>2, <2>3, <2>4
<1>8. n \in i .. Len(line) + 1
  BY <1>2, <1>3
<1> QED  BY <1>3, <1>5, <1>6, <1>7, <1>8 DEF Covers

LEMMA JoinCovers ==
  ASSUME NEW line, Len(line) \in Nat, DOMAIN line = 1 .. Len(line), NEW lefts, NEW tok,
         tok # "end", tok # "error", Onward(line, lefts), Unjoined(line, lefts, tok),
         NEW i \in 1 .. Len(line) + 1
  PROVE  Covers(line, lefts, tok, JoinOf(line, lefts, tok)[i].cmd, i,
                JoinOf(line, lefts, tok)[i].next)
<1>1. PICK f : f = JoinOf(line, lefts, tok)
  OBVIOUS
<1>2. f = JoinStep(line, lefts, tok, f)
  <2>1. PICK g : g = JoinStep(line, lefts, tok, g)
    BY JoinExists
  <2> QED  BY <1>1, <2>1 DEF JoinOf
<1>3. PICK n : n = Len(line) + 1 /\ n \in Nat
  OBVIOUS
<1>4. PICK K : K = {k \in 1 .. n : Covers(line, lefts, tok, f[k].cmd, k, f[k].next)}
  OBVIOUS
<1>5. ASSUME NEW k \in 1 .. n, \A j \in k + 1 .. n : j \in K PROVE k \in K
  <2>1. PICK l : l = lefts[k].next
    OBVIOUS
  <2>2. f[k] = JoinAt(line, lefts, tok, f, k) /\ k \in 1 .. Len(line) + 1
    BY <1>2, <1>3 DEF JoinStep
  <2>3. CASE Token(line, l) # tok
    <3>1. f[k] = lefts[k]
      BY <2>1, <2>2, <2>3 DEF JoinAt
    <3>2. Covers(line, lefts, tok, lefts[k].cmd, k, lefts[k].next)
      BY <2>1, <2>2, <2>3, JoinEnds
    <3> QED  BY <1>4, <3>1, <3>2
  <2>4. CASE Token(line, l) = tok
    <3>1. l + 1 \in k + 1 .. n
      <4>1. l \in k .. Len(line) + 1
        BY <2>1, <2>2 DEF Onward
      <4> QED  BY <1>3, <2>2, <2>4, <4>1, TokenInside
    <3>2. Covers(line, lefts, tok, f[l + 1].cmd, l + 1, f[l + 1].next)
      BY <1>4, <1>5, <3>1
    <3>3. PICK d : d = IF Error \in {lefts[k].cmd, f[l + 1].cmd} THEN Error
                       ELSE [type |-> tok, left |-> lefts[k].cmd, right |-> f[l + 1].cmd]
      OBVIOUS
    <3>4. f[k] = [cmd |-> d, next |-> f[l + 1].next]
      BY <2>1, <2>2, <2>4, <3>3, Zenon DEF JoinAt
    <3>5. Covers(line, lefts, tok, d, k, f[l + 1].next)
      <4>1. l + 1 \in Nat /\ f[l + 1].next \in l + 1 .. n
        BY <1>3, <3>1, <3>2 DEF Covers
      <4>2. l \in Nat /\ f[l + 1].next \in Nat
        <5>1. l \in k .. Len(line) + 1
          BY <2>1, <2>2 DEF Onward
        <5> QED  BY <2>2, <4>1, <5>1
      <4> QED  BY <2>1, <2>2, <2>4, <3>2, <3>3, <4>2, JoinGoes
    <3>6. f[k].cmd = d /\ f[k].next = f[l + 1].next
      BY <3>4
    <3> QED  BY <1>4, <3>5, <3>6
  <2> QED  BY <2>3, <2>4
<1>6. i \in K
  <2>1. i \in 1 .. n
    BY <1>3
  <2> QED  BY <1>3, <1>5, <2>1, Descend, Zenon
<1> QED  BY <1>1, <1>4, <1>6

-----------------------------------------------------------------------------
\* The parser's joins.
LEMMA TokensAreChars ==
  ASSUME NEW line \in Seq(Tokens)
  PROVE  line \in Seq(Chars) /\ Len(line) \in Nat /\ DOMAIN line = 1 .. Len(line)
<1>1. Tokens \subseteq Chars
  BY DEF Tokens, Chars
<1> QED  BY <1>1, LenProperties, SeqMonotonic

LEMMA PipeCovers ==
  ASSUME NEW line \in Seq(Tokens), NEW i \in 1 .. Len(line) + 1
  PROVE  Covers(line, ExecsOf(line), "|", parsepipe(line)[i].cmd, i, parsepipe(line)[i].next)
<1>1. Len(line) \in Nat /\ DOMAIN line = 1 .. Len(line)
  BY TokensAreChars
<1>2. PICK lefts : lefts = ExecsOf(line)
  OBVIOUS
<1>3. ASSUME NEW m \in 1 .. Len(line) + 1
      PROVE  /\ lefts[m].next \in m .. Len(line) + 1
             /\ \A k \in m .. lefts[m].next - 1 : line[k] # "|"
  <2>1. lefts[m].next = Until(line, m, Separators)
    BY <1>2 DEF ExecsOf, ExecAt, Separators
  <2>2. /\ Until(line, m, Separators) \in m .. Len(line) + 1
        /\ \A k \in m .. Until(line, m, Separators) - 1 : line[k] \notin Separators
    BY <1>1, UntilIs
  <2> QED  BY <2>1, <2>2 DEF Separators
<1>4. Onward(line, lefts) /\ Unjoined(line, lefts, "|")
  BY <1>3 DEF Onward, Unjoined
<1>5. parsepipe(line) = JoinOf(line, lefts, "|")
  BY <1>2, PipesAre
<1> QED  BY <1>1, <1>2, <1>4, <1>5, JoinCovers

\* A pipe with what follows it: the pipe from j up to p, then "&" up to q.
Segment(line, j, p, q) ==
    /\ p \in j .. q /\ q \in j .. Len(line) + 1
    /\ Token(line, p) \in {";", "&", "end"} /\ Token(line, q) # "&"
    /\ \A k \in p .. q - 1 : line[k] = "&"
    /\ \A k \in j .. p - 1 :
          \/ line[k] = "|"
          \/ \E m \in Starts(line, "|", j, p) : k \in m .. Until(line, m, Separators) - 1

LEMMA StartsInside ==
  ASSUME NEW line, Len(line) \in Nat, NEW tok, NEW i \in 1 .. Len(line) + 1,
         NEW n \in i .. Len(line) + 1, NEW j \in Starts(line, tok, i, n)
  PROVE  /\ j \in 1 .. Len(line) + 1
         /\ j = i \/ (j - 1 \in 1 .. Len(line) /\ line[j - 1] = tok)
<1>1. CASE j = i
  BY <1>1
<1>2. ASSUME NEW k \in i .. n - 1, line[k] = tok, j = k + 1
      PROVE  j \in 1 .. Len(line) + 1 /\ j - 1 \in 1 .. Len(line) /\ line[j - 1] = tok
  <2>1. k \in 1 .. Len(line) /\ j - 1 = k
    BY <1>2
  <2> QED  BY <1>2, <2>1
<1> QED  BY <1>1, <1>2 DEF Starts

LEMMA SegmentIs ==
  ASSUME NEW line \in Seq(Tokens), NEW j \in 1 .. Len(line) + 1
  PROVE  /\ Segment(line, j, parsepipe(line)[j].next, PipesOf(line)[j].next)
         /\ PipesOf(line)[j].cmd # Error <=> parsepipe(line)[j].cmd # Error
<1>1. line \in Seq(Chars) /\ Len(line) \in Nat /\ DOMAIN line = 1 .. Len(line)
  BY TokensAreChars
<1>2. PICK r : r = parsepipe(line)[j]
  OBVIOUS
<1>3. r.next \in j .. Len(line) + 1 /\ Sound(r.cmd, Piped)
  BY <1>1, <1>2, PipeSound
<1>4. PICK p \in 1 .. Len(line) + 1 : p = r.next
  BY <1>1, <1>3
<1>5. PICK q : q = Beyond(line, p, {"&"})
  OBVIOUS
<1>6. /\ q \in p .. Len(line) + 1 /\ Token(line, q) # "&"
      /\ \A k \in p .. q - 1 : line[k] = "&"
  BY <1>1, <1>5, BeyondIs
<1>7. PipesOf(line)[j] = [cmd |-> InBackground(r.cmd, q - p), next |-> q]
  BY <1>2, <1>4, <1>5 DEF PipesOf, Backed
<1>8. p \in j .. q /\ q \in j .. Len(line) + 1 /\ q - p \in Nat
  BY <1>1, <1>3, <1>4, <1>6
<1>9. Covers(line, ExecsOf(line), "|", r.cmd, j, p)
  BY <1>2, <1>4, PipeCovers
<1>10. ASSUME NEW m \in Starts(line, "|", j, p)
       PROVE  /\ ExecsOf(line)[m].next = Until(line, m, Separators)
              /\ Token(line, Until(line, m, Separators)) \in Separators \cup {"end"}
  <2>1. m \in 1 .. Len(line) + 1
    BY <1>1, <1>3, <1>4, StartsInside
  <2> QED  BY <1>1, <2>1, UntilIs DEF ExecsOf, ExecAt, Separators
<1>11. Token(line, p) \in {";", "&", "end"}
  BY <1>9, <1>10 DEF Covers, Separators
<1>12. ASSUME NEW k \in j .. p - 1
       PROVE  \/ line[k] = "|"
              \/ \E m \in Starts(line, "|", j, p) : k \in m .. Until(line, m, Separators) - 1
  BY <1>9, <1>10 DEF Covers, Covered
<1>13. InBackground(r.cmd, q - p) # Error <=> r.cmd # Error
  <2>1. ASSUME r.cmd # Error PROVE InBackground(r.cmd, q - p) # Error
    <3>1. Proper(r.cmd) /\ r.cmd.type \in Behind
      BY <1>3, <2>1 DEF Sound, Behind
    <3>2. InBackground(r.cmd, q - p).type \in Behind
      BY <1>8, <2>1, <3>1, BackgroundProper
    <3>3. Error.type \notin Behind
      BY DEF Error, Behind, Piped, Simple, Arrows
    <3> QED  BY <3>2, <3>3
  <2> QED  BY <2>1 DEF InBackground
<1>14. Segment(line, j, p, q)
  BY <1>6, <1>8, <1>11, <1>12 DEF Segment
<1> QED  BY <1>2, <1>4, <1>7, <1>13, <1>14

LEMMA LineCovers ==
  ASSUME NEW line \in Seq(Tokens), NEW i \in 1 .. Len(line) + 1
  PROVE  Covers(line, PipesOf(line), ";", parseline(line)[i].cmd, i, parseline(line)[i].next)
<1>1. Len(line) \in Nat /\ DOMAIN line = 1 .. Len(line)
  BY TokensAreChars
<1>2. PICK lefts : lefts = PipesOf(line)
  OBVIOUS
<1>3. ASSUME NEW j \in 1 .. Len(line) + 1
      PROVE  /\ lefts[j].next \in j .. Len(line) + 1
             /\ \A k \in j .. lefts[j].next - 1 : line[k] # ";"
  <2>1. PICK p, q : p = parsepipe(line)[j].next /\ q = lefts[j].next
    OBVIOUS
  <2>2. Segment(line, j, p, q)
    BY <1>2, <2>1, SegmentIs
  <2>3. p \in j .. q /\ q \in j .. Len(line) + 1
    BY <2>2 DEF Segment
  <2>4. ASSUME NEW k \in j .. q - 1 PROVE line[k] # ";"
    <3>1. CASE k \in p .. q - 1
      BY <2>2, <3>1 DEF Segment
    <3>2. CASE k \in j .. p - 1
      <4>1. ASSUME NEW m \in Starts(line, "|", j, p), k \in m .. Until(line, m, Separators) - 1
            PROVE  line[k] # ";"
        <5>1. p \in j .. Len(line) + 1
          BY <1>1, <2>3
        <5>2. m \in 1 .. Len(line) + 1
          BY <1>1, <5>1, StartsInside
        <5>3. \A l \in m .. Until(line, m, Separators) - 1 : line[l] \notin Separators
          BY <1>1, <5>2, UntilIs
        <5> QED  BY <4>1, <5>3 DEF Separators
      <4> QED  BY <2>2, <3>2, <4>1 DEF Segment
    <3>3. k \in p .. q - 1 \/ k \in j .. p - 1
      BY <1>1, <2>3
    <3> QED  BY <3>1, <3>2, <3>3
  <2> QED  BY <2>1, <2>3, <2>4
<1>4. Onward(line, lefts) /\ Unjoined(line, lefts, ";")
  BY <1>3 DEF Onward, Unjoined
<1>5. parseline(line) = JoinOf(line, lefts, ";")
  BY <1>2, LinesAre
<1> QED  BY <1>1, <1>2, <1>4, <1>5, JoinCovers

-----------------------------------------------------------------------------
\* What parsecmd begins with, and where what is joined by ";" up to n begins.
Whole(line) == parseline(line)[1]
Heads(line, n) == Starts(line, ";", 1, n)

\* The programs of a line up to n, by where they begin; its first n - 1 tokens.
Programs(line, n) ==
    {m \in 1 .. Len(line) + 1 : \E j \in Heads(line, n) :
        m \in Starts(line, "|", j, parsepipe(line)[j].next)}

InProgram(line, n, k) ==
    \E m \in Programs(line, n) : k \in m .. Until(line, m, Separators) - 1

ProgramsGood(line, n) ==
    \A m \in Programs(line, n) : PartGood(line, m, Until(line, m, Separators))

ReadTo(line, n) ==
    /\ n \in 1 .. Len(line) + 1
    /\ n # Len(line) + 1 => /\ n - 1 \in 1 .. Len(line) /\ line[n - 1] = "&"
                            /\ Token(line, n) \notin {"&", ";", "end"}
    /\ \A k \in 1 .. n - 1 :
          \/ line[k] \in {";", "|"}
          \/ line[k] = "&" /\ (k + 1 = n \/ Token(line, k + 1) \in {"&", ";"})
          \/ InProgram(line, n, k)
    /\ \A m \in Programs(line, n) : m - 1 \notin ArrowsOf(line)

LEMMA StartIsInside ==
  ASSUME NEW line \in Seq(Tokens), NEW i \in 1 .. Len(line) + 1,
         NEW n \in i .. Len(line) + 1, NEW j \in Starts(line, ";", i, n)
  PROVE  /\ j \in 1 .. Len(line) + 1
         /\ i - 1 \in DOMAIN line \/ j - 1 \notin ArrowsOf(line)
<1>1. Len(line) \in Nat
  BY TokensAreChars
<1>2. \A k \in Starts(line, ";", i, n) :
         k \in 1 .. Len(line) + 1 /\ (k = i \/ (k - 1 \in 1 .. Len(line) /\ line[k - 1] = ";"))
  BY <1>1, StartsInside
<1>3. j \in 1 .. Len(line) + 1 /\ (j = i \/ (j - 1 \in 1 .. Len(line) /\ line[j - 1] = ";"))
  BY <1>2, Zenon
<1> QED  BY <1>3 DEF ArrowsOf, Arrows

LEMMA FirstPlace ==
  ASSUME NEW line \in Seq(Tokens)
  PROVE  1 \in 1 .. Len(line) + 1 /\ 1 - 1 \notin DOMAIN line
<1>1. PICK l \in Nat : l = Len(line)
  BY TokensAreChars
<1>2. 1 \in 1 .. l + 1 /\ 1 - 1 \notin 1 .. l
  OBVIOUS
<1> QED  BY <1>1, <1>2, TokensAreChars

LEMMA StartInLine ==
  ASSUME NEW line \in Seq(Tokens), NEW n \in 1 .. Len(line) + 1, NEW j \in Heads(line, n)
  PROVE  j \in 1 .. Len(line) + 1 /\ j - 1 \notin ArrowsOf(line)
BY FirstPlace, StartIsInside, Zenon DEF Heads

LEMMA PieceInLine ==
  ASSUME NEW line \in Seq(Tokens), NEW j \in 1 .. Len(line) + 1, j - 1 \notin ArrowsOf(line),
         NEW m \in Starts(line, "|", j, parsepipe(line)[j].next)
  PROVE  m \in 1 .. Len(line) + 1 /\ m - 1 \notin ArrowsOf(line)
<1>1. Len(line) \in Nat /\ DOMAIN line = 1 .. Len(line)
  BY TokensAreChars
<1>2. PICK p : p = parsepipe(line)[j].next
  OBVIOUS
<1>3. p \in j .. Len(line) + 1
  <2>1. Covers(line, ExecsOf(line), "|", parsepipe(line)[j].cmd, j, p)
    BY <1>2, PipeCovers
  <2> QED  BY <2>1 DEF Covers
<1>4. m \in 1 .. Len(line) + 1 /\ (m = j \/ (m - 1 \in 1 .. Len(line) /\ line[m - 1] = "|"))
  BY <1>1, <1>2, <1>3, StartsInside
<1> QED  BY <1>1, <1>4 DEF ArrowsOf, Arrows

\* A pipe is accepted when its programs are.
LEMMA PipeAccepts ==
  ASSUME NEW line \in Seq(Tokens), NEW j \in 1 .. Len(line) + 1, j - 1 \notin ArrowsOf(line)
  PROVE  PipesOf(line)[j].cmd # Error
           <=> \A m \in Starts(line, "|", j, parsepipe(line)[j].next) :
                  PartGood(line, m, Until(line, m, Separators))
<1>1. PICK p : p = parsepipe(line)[j].next
  OBVIOUS
<1>2. ASSUME NEW m \in Starts(line, "|", j, p)
      PROVE  ExecsOf(line)[m].cmd # Error <=> PartGood(line, m, Until(line, m, Separators))
  <2>1. m \in 1 .. Len(line) + 1 /\ m - 1 \notin ArrowsOf(line)
    BY <1>1, PieceInLine
  <2>2. ExecsOf(line)[m].cmd = parseexec(line, m)
    BY <2>1 DEF ExecsOf, ExecAt
  <2> QED  BY <2>1, <2>2, ExecAccepts
<1>3. Covers(line, ExecsOf(line), "|", parsepipe(line)[j].cmd, j, p)
  BY <1>1, PipeCovers
<1>4. PipesOf(line)[j].cmd # Error <=> parsepipe(line)[j].cmd # Error
  BY SegmentIs
<1> QED  BY <1>1, <1>2, <1>3, <1>4 DEF Covers

\* The line is read up to n, pipe by pipe, as a command or an error c.
PipesRead(line, n, c) ==
    /\ n \in 1 .. Len(line) + 1 /\ Token(line, n) # ";"
    /\ c # Error <=> \A j \in Heads(line, n) : PipesOf(line)[j].cmd # Error
    /\ \E j \in Heads(line, n) : PipesOf(line)[j].next = n
    /\ \A k \in 1 .. n - 1 :
          \/ line[k] = ";"
          \/ \E j \in Heads(line, n) :
                /\ k \in j .. PipesOf(line)[j].next - 1
                /\ PipesOf(line)[j].next = n \/ Token(line, PipesOf(line)[j].next) = ";"

LEMMA PipesReadFrom ==
  ASSUME NEW line, NEW i, NEW n, NEW c, Covers(line, PipesOf(line), ";", c, i, n), i = 1
  PROVE  PipesRead(line, n, c)
<1>1. Heads(line, n) = Starts(line, ";", i, n)
  BY DEF Heads
<1>2. \A k \in i .. n - 1 : Covered(line, PipesOf(line), ";", i, n, k)
  BY DEF Covers
<1> QED  BY <1>1, <1>2, Zenon DEF Covers, Covered, PipesRead

LEMMA WholeRead ==
  ASSUME NEW line \in Seq(Tokens)
  PROVE  PipesRead(line, Whole(line).next, Whole(line).cmd)
<1>1. Covers(line, PipesOf(line), ";", Whole(line).cmd, 1, Whole(line).next)
  BY FirstPlace, LineCovers, Zenon DEF Whole
<1> QED  BY <1>1, PipesReadFrom, Zenon

LEMMA LineRead ==
  ASSUME NEW line \in Seq(Tokens), NEW n \in Nat, NEW c, PipesRead(line, n, c)
  PROVE  ReadTo(line, n) /\ (c # Error <=> ProgramsGood(line, n))
<1>1. Len(line) \in Nat /\ DOMAIN line = 1 .. Len(line)
  BY TokensAreChars
<1>2. n \in 1 .. Len(line) + 1 /\ Token(line, n) # ";"
  BY DEF PipesRead
<1>3. ASSUME NEW j \in Heads(line, n)
      PROVE  /\ j \in 1 .. Len(line) + 1 /\ j - 1 \notin ArrowsOf(line)
             /\ \A m \in Starts(line, "|", j, parsepipe(line)[j].next) :
                   m \in Programs(line, n) /\ m - 1 \notin ArrowsOf(line)
             /\ Segment(line, j, parsepipe(line)[j].next, PipesOf(line)[j].next)
  <2>1. j \in 1 .. Len(line) + 1 /\ j - 1 \notin ArrowsOf(line)
    BY <1>2, StartInLine
  <2>2. \A m \in Starts(line, "|", j, parsepipe(line)[j].next) :
           m \in 1 .. Len(line) + 1 /\ m - 1 \notin ArrowsOf(line)
    BY <2>1, PieceInLine
  <2> QED  BY <2>1, <2>2, SegmentIs DEF Programs
<1>4. c # Error <=> ProgramsGood(line, n)
  <2>1. \A j \in Heads(line, n) :
           PipesOf(line)[j].cmd # Error
             <=> \A m \in Starts(line, "|", j, parsepipe(line)[j].next) :
                    PartGood(line, m, Until(line, m, Separators))
    BY <1>3, PipeAccepts
  <2>2. c # Error <=> \A j \in Heads(line, n) : PipesOf(line)[j].cmd # Error
    BY DEF PipesRead
  <2>3. ProgramsGood(line, n)
          <=> \A j \in Heads(line, n) :
                 \A m \in Starts(line, "|", j, parsepipe(line)[j].next) :
                    PartGood(line, m, Until(line, m, Separators))
    BY <1>3 DEF ProgramsGood, Programs
  <2> QED  BY <2>1, <2>2, <2>3
<1>5. \A m \in Programs(line, n) : m - 1 \notin ArrowsOf(line)
  BY <1>3 DEF Programs
<1>6. ASSUME NEW k \in 1 .. n - 1
      PROVE  \/ line[k] \in {";", "|"}
             \/ line[k] = "&" /\ (k + 1 = n \/ Token(line, k + 1) \in {"&", ";"})
             \/ InProgram(line, n, k)
  <2>1. CASE line[k] = ";"
    BY <2>1
  <2>2. ASSUME NEW j \in Heads(line, n), k \in j .. PipesOf(line)[j].next - 1,
               PipesOf(line)[j].next = n \/ Token(line, PipesOf(line)[j].next) = ";"
        PROVE  \/ line[k] \in {";", "|"}
               \/ line[k] = "&" /\ (k + 1 = n \/ Token(line, k + 1) \in {"&", ";"})
               \/ InProgram(line, n, k)
    <3>1. PICK p, q : p = parsepipe(line)[j].next /\ q = PipesOf(line)[j].next
      OBVIOUS
    <3>2. Segment(line, j, p, q) /\ j \in 1 .. Len(line) + 1
      BY <1>3, <3>1
    <3>3. p \in j .. q /\ q \in j .. Len(line) + 1 /\ k \in j .. q - 1
      BY <2>2, <3>1, <3>2 DEF Segment
    <3>4. CASE k \in p .. q - 1
      <4>1. line[k] = "&"
        BY <3>2, <3>4 DEF Segment
      <4>2. CASE k + 1 = q
        BY <2>2, <3>1, <4>1, <4>2
      <4>3. CASE k + 1 \in p .. q - 1
        <5>1. line[k + 1] = "&"
          BY <3>2, <4>3 DEF Segment
        <5>2. k + 1 \in 1 .. Len(line)
          BY <1>1, <3>2, <3>3, <4>3
        <5> QED  BY <1>1, <4>1, <5>1, <5>2 DEF Token
      <4>4. k + 1 = q \/ k + 1 \in p .. q - 1
        BY <1>1, <3>2, <3>3, <3>4
      <4> QED  BY <4>2, <4>3, <4>4
    <3>5. CASE k \in j .. p - 1
      <4>1. \/ line[k] = "|"
            \/ \E m \in Starts(line, "|", j, p) : k \in m .. Until(line, m, Separators) - 1
        BY <3>2, <3>5 DEF Segment
      <4> QED  BY <1>3, <3>1, <4>1 DEF InProgram
    <3>6. k \in p .. q - 1 \/ k \in j .. p - 1
      BY <1>1, <3>2, <3>3
    <3> QED  BY <3>4, <3>5, <3>6
  <2> QED  BY <2>1, <2>2 DEF PipesRead
<1>7. n \in 1 .. Len(line) \/ n = Len(line) + 1
  <2>1. PICK l \in Nat : l = Len(line)
    BY <1>1
  <2>2. n \in 1 .. l + 1
    BY <1>2, <2>1
  <2>3. n \in 1 .. l \/ n = l + 1
    BY <2>2
  <2> QED  BY <2>1, <2>3
<1>8. ASSUME n # Len(line) + 1
      PROVE  /\ n - 1 \in 1 .. Len(line) /\ line[n - 1] = "&"
             /\ Token(line, n) \notin {"&", ";", "end"}
  <2>1. PICK j \in Heads(line, n) : PipesOf(line)[j].next = n
    BY DEF PipesRead
  <2>2. PICK p : p = parsepipe(line)[j].next
    OBVIOUS
  <2>3. Segment(line, j, p, n) /\ j \in 1 .. Len(line) + 1
    BY <1>3, <2>1, <2>2
  <2>4. n \in DOMAIN line /\ Token(line, n) \in Tokens
    <3>1. n \in 1 .. Len(line)
      BY <1>8, <1>7
    <3>2. line[n] \in Tokens
      BY <3>1, ElementOfSeq
    <3> QED  BY <1>1, <3>1, <3>2 DEF Token
  <2>5. Token(line, n) \notin {"&", ";", "end"}
    BY <1>2, <2>3, <2>4, TokensAre DEF Segment
  <2>6. p # n
    BY <2>3, <2>5 DEF Segment
  <2>7. p \in j .. n
    BY <2>3 DEF Segment
  <2>8. n - 1 \in p .. n - 1 /\ n - 1 \in 1 .. Len(line)
    <3>1. PICK l \in Nat : l = Len(line)
      BY <1>1
    <3>2. n \in Nat /\ n \in 1 .. l + 1 /\ j \in 1 .. l + 1 /\ p \in j .. n /\ p # n
      BY <1>2, <2>3, <2>6, <2>7, <3>1
    <3>3. n - 1 \in p .. n - 1 /\ n - 1 \in 1 .. l
      BY <3>2
    <3> QED  BY <3>1, <3>3
  <2>9. line[n - 1] = "&"
    BY <2>3, <2>8 DEF Segment
  <2> QED  BY <2>5, <2>8, <2>9
<1> QED  BY <1>2, <1>4, <1>5, <1>6, <1>8 DEF ReadTo

-----------------------------------------------------------------------------
\* A stretch of a line without separators, and the arguments in it.
Plain(line, i, j) == \A k \in i .. j : line[k] \notin Separators
ArgsAmong(line, i, j) == {k \in i .. j : line[k] \in Words /\ k - 1 \notin ArrowsOf(line)}

SymbolsGood(line) ==
    \A k \in DOMAIN line :
        /\ line[k] \in Arrows => Token(line, k + 1) \in Words
        /\ line[k] = "&" => Token(line, k + 1) \in {"&", ";", "end"}

LEMMA WellFormedIs ==
  ASSUME NEW line
  PROVE  WellFormed(line)
           <=> /\ SymbolsGood(line)
               /\ \A i, j \in DOMAIN line :
                     Plain(line, i, j) => Cardinality(ArgsAmong(line, i, j)) < MAXARGS
<1>1. {"|", ";", "&"} = Separators
  BY DEF Separators
<1> QED  BY <1>1, Zenon DEF WellFormed, SymbolsGood, Plain, ArgsAmong

LEMMA NoArgs == MAXARGS \in Nat /\ Cardinality({}) < MAXARGS
<1>1. MAXARGS \in Nat \ {0}
  BY WordsAssumption
<1>2. MAXARGS \in Nat /\ 0 < MAXARGS
  BY <1>1
<1>3. Cardinality({}) = 0
  BY FS_EmptySet
<1> QED  BY <1>2, <1>3

\* A stretch without separators is inside one program.
LEMMA PlainInside ==
  ASSUME NEW line \in Seq(Tokens), NEW m \in 1 .. Len(line) + 1,
         NEW i \in DOMAIN line, NEW j \in DOMAIN line, i <= j, Plain(line, i, j),
         i \in m .. Until(line, m, Separators) - 1
  PROVE  j \in m .. Until(line, m, Separators) - 1
<1>1. PICK l \in Nat : l = Len(line) /\ DOMAIN line = 1 .. l
  BY TokensAreChars
<1>2. Until(line, m, Separators) \in m .. Len(line) + 1
      /\ Token(line, Until(line, m, Separators)) \in Separators \cup {"end"}
  BY <1>1, UntilIs
<1>3. PICK e \in m .. l + 1 : e = Until(line, m, Separators)
  BY <1>1, <1>2
<1>4. i \in m .. e - 1 /\ i \in 1 .. l /\ j \in 1 .. l /\ m \in 1 .. l + 1
  BY <1>1, <1>3
<1>5. ~(e <= j)
  <2>1. SUFFICES ASSUME e <= j PROVE FALSE
    OBVIOUS
  <2>2. e \in i .. j /\ e \in 1 .. l
    BY <1>4, <2>1
  <2>3. Token(line, e) = line[e] /\ line[e] \in Tokens
    <3>1. e \in 1 .. Len(line) /\ e \in DOMAIN line
      BY <1>1, <2>2
    <3> QED  BY <3>1, ElementOfSeq DEF Token
  <2>4. line[e] \notin Separators
    BY <2>2 DEF Plain
  <2> QED  BY <1>2, <1>3, <2>3, <2>4, TokensAre
<1>6. j \in m .. e - 1
  BY <1>4, <1>5
<1> QED  BY <1>3, <1>6

LEMMA AcceptedWellFormed ==
  ASSUME NEW line \in Seq(Tokens), NEW n \in Nat, n = Len(line) + 1, ReadTo(line, n),
         ProgramsGood(line, n)
  PROVE  WellFormed(line)
<1>1. Len(line) \in Nat /\ DOMAIN line = 1 .. Len(line)
  BY TokensAreChars
<1>2. ASSUME NEW k \in DOMAIN line
      PROVE  /\ \/ line[k] \in {";", "|"}
                \/ line[k] = "&" /\ (k + 1 = n \/ Token(line, k + 1) \in {"&", ";"})
                \/ InProgram(line, n, k)
             /\ k \in 1 .. n - 1
  <2>1. k \in 1 .. n - 1
    BY <1>1
  <2> QED  BY <2>1 DEF ReadTo
<1>3. ASSUME NEW k, InProgram(line, n, k)
      PROVE  \E m \in 1 .. Len(line) + 1 :
                /\ k \in m .. Until(line, m, Separators) - 1
                /\ \A l \in m .. Until(line, m, Separators) - 1 : line[l] \notin Separators
                /\ PartGood(line, m, Until(line, m, Separators))
  <2>1. PICK m \in Programs(line, n) : k \in m .. Until(line, m, Separators) - 1
    BY <1>3 DEF InProgram
  <2>2. m \in 1 .. Len(line) + 1 /\ PartGood(line, m, Until(line, m, Separators))
    BY <2>1 DEF Programs, ProgramsGood
  <2>3. \A l \in m .. Until(line, m, Separators) - 1 : line[l] \notin Separators
    BY <1>1, <2>2, UntilIs
  <2> QED  BY <2>1, <2>2, <2>3
<1>4. SymbolsGood(line)
  <2>1. ASSUME NEW k \in DOMAIN line
        PROVE  /\ line[k] \in Arrows => Token(line, k + 1) \in Words
               /\ line[k] = "&" => Token(line, k + 1) \in {"&", ";", "end"}
    <3>1. CASE line[k] \in {";", "|"}
      BY <3>1 DEF Arrows
    <3>2. CASE line[k] = "&" /\ (k + 1 = n \/ Token(line, k + 1) \in {"&", ";"})
      <4>1. n \notin DOMAIN line
        BY <1>1
      <4>2. Token(line, n) = "end"
        BY <4>1 DEF Token
      <4> QED  BY <3>2, <4>2 DEF Arrows
    <3>3. CASE InProgram(line, n, k)
      BY <1>3, <3>3 DEF PartGood, Separators
    <3> QED  BY <1>2, <3>1, <3>2, <3>3
  <2> QED  BY <2>1 DEF SymbolsGood
<1>5. ASSUME NEW i \in DOMAIN line, NEW j \in DOMAIN line, Plain(line, i, j)
      PROVE  Cardinality(ArgsAmong(line, i, j)) < MAXARGS
  <2>0. i \in Nat /\ j \in Nat
    BY <1>1
  <2>1. CASE i > j
    <3>1. ArgsAmong(line, i, j) = {}
      BY <2>0, <2>1 DEF ArgsAmong
    <3> QED  BY <3>1, NoArgs
  <2>2. CASE i <= j
    <3>1. InProgram(line, n, i)
      <4>1. line[i] \notin Separators
        BY <1>5, <2>0, <2>2 DEF Plain
      <4> QED  BY <1>2, <4>1 DEF Separators
    <3>2. PICK m \in 1 .. Len(line) + 1 :
             /\ i \in m .. Until(line, m, Separators) - 1
             /\ PartGood(line, m, Until(line, m, Separators))
      BY <1>3, <3>1
    <3>3. j \in m .. Until(line, m, Separators) - 1
      BY <1>5, <2>2, <3>2, PlainInside
    <3>4. PICK e : e = Until(line, m, Separators)
      OBVIOUS
    <3>5. e \in m .. Len(line) + 1
      BY <1>1, <3>2, <3>4, UntilIs
    <3>6. ArgsAmong(line, i, j) \subseteq ArgsIn(line, m, e)
      <4>1. \A k \in i .. j : k \in m .. e - 1
        <5>1. i \in m .. e - 1 /\ j \in m .. e - 1 /\ m \in Nat /\ e \in Int
          BY <1>1, <3>2, <3>3, <3>4, <3>5
        <5> QED  BY <5>1
      <4> QED  BY <4>1 DEF ArgsAmong, ArgsIn
    <3>7. IsFiniteSet(ArgsIn(line, m, e)) /\ Cardinality(ArgsIn(line, m, e)) < MAXARGS
      <4>1. m \in Int /\ e - 1 \in Int
        BY <1>1, <3>5
      <4>2. IsFiniteSet(m .. e - 1)
        BY <4>1, FS_Interval
      <4>3. IsFiniteSet(ArgsIn(line, m, e))
        BY <4>2, FS_Subset DEF ArgsIn
      <4> QED  BY <3>2, <3>4, <4>3 DEF PartGood
    <3>8. /\ IsFiniteSet(ArgsAmong(line, i, j))
          /\ Cardinality(ArgsAmong(line, i, j)) <= Cardinality(ArgsIn(line, m, e))
      BY <3>6, <3>7, FS_Subset
    <3>9. Cardinality(ArgsAmong(line, i, j)) \in Nat /\ Cardinality(ArgsIn(line, m, e)) \in Nat
      BY <3>7, <3>8, FS_CardinalityType
    <3> QED  BY <3>7, <3>8, <3>9, NoArgs
  <2> QED  BY <2>0, <2>1, <2>2
<1> QED  BY <1>4, <1>5, WellFormedIs

LEMMA WellFormedAccepted ==
  ASSUME NEW line \in Seq(Tokens), NEW n \in Nat, ReadTo(line, n), WellFormed(line)
  PROVE  n = Len(line) + 1 /\ ProgramsGood(line, n)
<1>1. Len(line) \in Nat /\ DOMAIN line = 1 .. Len(line)
  BY TokensAreChars
<1>2. /\ SymbolsGood(line)
      /\ \A i, j \in DOMAIN line :
            Plain(line, i, j) => Cardinality(ArgsAmong(line, i, j)) < MAXARGS
  BY WellFormedIs
<1>3. n = Len(line) + 1
  <2>1. SUFFICES ASSUME n # Len(line) + 1 PROVE FALSE
    OBVIOUS
  <2>2. /\ n - 1 \in DOMAIN line /\ line[n - 1] = "&"
        /\ Token(line, n) \notin {"&", ";", "end"}
    BY <1>1, <2>1 DEF ReadTo
  <2>3. Token(line, (n - 1) + 1) \in {"&", ";", "end"}
    BY <1>2, <2>2 DEF SymbolsGood
  <2>4. (n - 1) + 1 = n
    OBVIOUS
  <2> QED  BY <2>2, <2>3, <2>4
<1>4. ASSUME NEW m \in Programs(line, n), NEW e, e = Until(line, m, Separators)
      PROVE  PartGood(line, m, e)
  <2>1. m \in 1 .. Len(line) + 1
    BY DEF Programs
  <2>2. e \in m .. Len(line) + 1 /\ \A k \in m .. e - 1 : line[k] \notin Separators
    BY <1>1, <1>4, <2>1, UntilIs
  <2>3. PICK l \in Nat : l = Len(line) /\ DOMAIN line = 1 .. l
    BY <1>1
  <2>4. PICK j \in Int : j = e - 1
    BY <2>1, <2>2, <2>3
  <2>5. m \in 1 .. l + 1 /\ j \in m - 1 .. l
    BY <2>1, <2>2, <2>3, <2>4
  <2>6. Plain(line, m, j) /\ ArgsIn(line, m, e) = ArgsAmong(line, m, j)
    BY <2>2, <2>4 DEF Plain, ArgsIn, ArgsAmong
  <2>7. \A k \in m .. j : k \in DOMAIN line
    BY <2>3, <2>5
  <2>8. \A k \in m .. e - 1 : line[k] \in Arrows => Token(line, k + 1) \in Words
    BY <1>2, <2>4, <2>7 DEF SymbolsGood
  <2>9. Cardinality(ArgsIn(line, m, e)) < MAXARGS
    <3>1. CASE m <= j
      <4>1. m \in DOMAIN line /\ j \in DOMAIN line
        BY <2>3, <2>5, <3>1
      <4> QED  BY <1>2, <2>6, <4>1
    <3>2. CASE m > j
      <4>1. ArgsAmong(line, m, j) = {}
        BY <2>5, <3>2 DEF ArgsAmong
      <4> QED  BY <2>6, <4>1, NoArgs
    <3> QED  BY <2>5, <3>1, <3>2
  <2> QED  BY <2>8, <2>9 DEF PartGood
<1> QED  BY <1>3, <1>4 DEF ProgramsGood

\* The parser (parsecmd down to parseredirs) accepts exactly the lines a reader
\* would call commands, whatever their length: a file after each arrow, after an "&"
\* only another, ";" or the end, and no program with too many arguments.
\* Every other line is refused with a message.
THEOREM AcceptsWellFormed ==
  \A line \in Seq(Tokens) : parsecmd(line) # Error <=> WellFormed(line)
<1> SUFFICES ASSUME NEW line \in Seq(Tokens)
             PROVE  parsecmd(line) # Error <=> WellFormed(line)
  OBVIOUS
<1>1. PICK n, c : n = Whole(line).next /\ c = Whole(line).cmd
  OBVIOUS
<1>2. PipesRead(line, n, c)
  BY <1>1, WholeRead
<1>3. n \in Nat
  <2>1. n \in 1 .. Len(line) + 1 /\ Len(line) \in Nat
    BY <1>2, TokensAreChars DEF PipesRead
  <2> QED  BY <2>1
<1>4. ReadTo(line, n) /\ (c # Error <=> ProgramsGood(line, n))
  BY <1>2, <1>3, LineRead
<1>5. parsecmd(line) = IF n = Len(line) + 1 THEN c ELSE Error
  BY <1>1, Zenon DEF parsecmd, Whole
<1>6. ASSUME parsecmd(line) # Error PROVE WellFormed(line)
  <2>1. n = Len(line) + 1 /\ c # Error
    BY <1>5, <1>6
  <2> QED  BY <1>3, <1>4, <2>1, AcceptedWellFormed
<1>7. ASSUME WellFormed(line) PROVE parsecmd(line) # Error
  <2>1. n = Len(line) + 1 /\ c # Error
    BY <1>3, <1>4, <1>7, WellFormedAccepted
  <2> QED  BY <1>5, <2>1
<1> QED  BY <1>6, <1>7

-----------------------------------------------------------------------------
\* How often c is in a line, and where between two places.
Ats(d, m, n, c) == {k \in m .. n : d[k] = c}
Count(d, c) == Many(d, Len(d), c)

LEMMA AtsFinite ==
  ASSUME NEW d, NEW m \in Int, NEW n \in Int, NEW c
  PROVE  IsFiniteSet(Ats(d, m, n, c)) /\ Cardinality(Ats(d, m, n, c)) \in Nat
<1>1. IsFiniteSet(m .. n)
  BY FS_Interval
<1>2. Ats(d, m, n, c) \subseteq m .. n
  BY DEF Ats
<1> QED  BY <1>1, <1>2, FS_Subset, FS_CardinalityType

LEMMA CountIs ==
  ASSUME NEW d, NEW n \in Nat, n = Len(d), NEW c
  PROVE  Count(d, c) = Cardinality(Ats(d, 1, n, c)) /\ Count(d, c) \in Nat
<1>1. Count(d, c) = Cardinality(Ats(d, 1, n, c))
  BY Zenon DEF Count, Many, Ats
<1>2. 1 \in Int /\ n \in Int
  OBVIOUS
<1>3. Cardinality(Ats(d, 1, n, c)) \in Nat
  BY <1>2, AtsFinite, Zenon
<1> QED  BY <1>1, <1>3, Zenon

LEMMA ManyIs ==
  ASSUME NEW d, NEW k \in Int, NEW c
  PROVE  Many(d, k, c) = Cardinality(Ats(d, 1, k, c)) /\ Many(d, k, c) \in Nat
<1>1. Many(d, k, c) = Cardinality(Ats(d, 1, k, c))
  BY Zenon DEF Many, Ats
<1>2. 1 \in Int
  OBVIOUS
<1>3. Cardinality(Ats(d, 1, k, c)) \in Nat
  BY <1>2, AtsFinite, Zenon
<1> QED  BY <1>1, <1>3, Zenon

\* None at all.
LEMMA CountNone ==
  ASSUME NEW d, NEW n \in Nat, n = Len(d), NEW c, \A k \in 1 .. n : d[k] # c
  PROVE  Count(d, c) = 0
<1>1. Ats(d, 1, n, c) = {}
  BY DEF Ats
<1> QED  BY <1>1, CountIs, FS_EmptySet

LEMMA CountSome ==
  ASSUME NEW d, NEW n \in Nat, n = Len(d), NEW c, Count(d, c) = 0
  PROVE  \A k \in 1 .. n : d[k] # c
<1>1. Cardinality(Ats(d, 1, n, c)) = 0
  BY CountIs
<1>2. 1 \in Int /\ n \in Int
  OBVIOUS
<1>3. IsFiniteSet(Ats(d, 1, n, c))
  BY <1>2, AtsFinite, Zenon
<1>4. Ats(d, 1, n, c) = {}
  BY <1>1, <1>3, FS_EmptySet
<1> QED  BY <1>4 DEF Ats

\* What is behind the first l of a line is as often there.
GoesOnAs(s, d, l, n) == \A k \in 1 .. n : d[k + l] = s[k]

LEMMA ShiftedAts ==
  ASSUME NEW s, NEW d, NEW l \in Nat, NEW n \in Nat, NEW c,
         GoesOnAs(s, d, l, n)
  PROVE  Cardinality(Ats(d, l + 1, l + n, c)) = Many(s, n, c)
<1>1. PICK S, R : S = Ats(s, 1, n, c) /\ R = Ats(d, l + 1, l + n, c)
  OBVIOUS
<1>2. S \in SUBSET Nat /\ R \in SUBSET Nat /\ \A k \in R : k >= l
  BY <1>1 DEF Ats
<1>3. ASSUME NEW k \in Nat PROVE k + l \in R <=> k \in S
  <2>1. k + l \in l + 1 .. l + n <=> k \in 1 .. n
    OBVIOUS
  <2>2. k + l \in R <=> (k + l \in l + 1 .. l + n /\ d[k + l] = c)
    BY <1>1 DEF Ats
  <2>3. k \in S <=> (k \in 1 .. n /\ s[k] = c)
    BY <1>1 DEF Ats
  <2> QED  BY <2>1, <2>2, <2>3 DEF GoesOnAs
<1>4. IsFiniteSet(S)
  <2>1. 1 \in Int /\ n \in Int
    OBVIOUS
  <2> QED  BY <1>1, <2>1, AtsFinite, Zenon
<1>5. Cardinality(R) = Cardinality(S)
  BY <1>2, <1>3, <1>4, ShiftedAsMany
<1>6. Many(s, n, c) = Cardinality(S)
  BY <1>1, Zenon DEF Many, Ats
<1> QED  BY <1>1, <1>5, <1>6

LEMMA ShiftedEverywhere ==
  \A u, v, c : \A l, n \in Nat :
     GoesOnAs(u, v, l, n) => Cardinality(Ats(v, l + 1, l + n, c)) = Many(u, n, c)
BY ShiftedAts

LEMMA SameMany ==
  ASSUME NEW s, NEW d, NEW n \in Nat, NEW c, \A k \in 1 .. n : d[k] = s[k]
  PROVE  Many(d, n, c) = Many(s, n, c)
<1>1. {i \in 1 .. n : d[i] = c} = {i \in 1 .. n : s[i] = c}
  OBVIOUS
<1> QED  BY <1>1, Zenon DEF Many

\* Two stretches of a line, one behind the other.
LEMMA TwoAts ==
  ASSUME NEW d, NEW m \in Int, NEW l \in Int, NEW n \in Int, m <= l + 1, l <= n, NEW c
  PROVE  Cardinality(Ats(d, m, n, c))
           = Cardinality(Ats(d, m, l, c)) + Cardinality(Ats(d, l + 1, n, c))
<1>1. PICK S, R : S = Ats(d, m, l, c) /\ R = Ats(d, l + 1, n, c)
  OBVIOUS
<1>2. S \cap R = {} /\ S \cup R = Ats(d, m, n, c)
  BY <1>1 DEF Ats
<1>3. IsFiniteSet(S) /\ IsFiniteSet(R) /\ Cardinality(S) \in Nat /\ Cardinality(R) \in Nat
  BY <1>1, AtsFinite
<1>4. Cardinality(S \cup R) = Cardinality(S) + Cardinality(R) - Cardinality(S \cap R)
  BY <1>3, FS_Union
<1>5. Cardinality({}) = 0
  BY FS_EmptySet
<1>6. PICK a \in Nat, b \in Nat : a = Cardinality(S) /\ b = Cardinality(R)
  BY <1>3
<1>7. Cardinality(S \cup R) = a + b - 0
  BY <1>2, <1>4, <1>5, <1>6, Zenon
<1>8. a + b - 0 = a + b
  OBVIOUS
<1>9. Cardinality(S \cup R) = Cardinality(S) + Cardinality(R)
  BY <1>6, <1>7, <1>8, Zenon
<1> QED  BY <1>1, <1>2, <1>9, Zenon

\* The first l of a line, and what follows.
LEMMA ManyFurther ==
  ASSUME NEW d, NEW l \in Nat, NEW n \in Nat, l <= n, NEW c
  PROVE  Many(d, n, c) = Many(d, l, c) + Cardinality(Ats(d, l + 1, n, c))
<1>1. PICK m \in Int : m = 1 /\ m <= l + 1
  OBVIOUS
<1>2. l \in Int /\ n \in Int
  OBVIOUS
<1>3. Cardinality(Ats(d, m, n, c))
        = Cardinality(Ats(d, m, l, c)) + Cardinality(Ats(d, l + 1, n, c))
  BY <1>1, <1>2, TwoAts
<1> QED  BY <1>1, <1>2, <1>3, ManyIs, Zenon

LEMMA CountConcat ==
  ASSUME NEW T, NEW s \in Seq(T), NEW t \in Seq(T), NEW c
  PROVE  Count(s \o t, c) = Count(s, c) + Count(t, c)
<1>1. PICK l \in Nat, n \in Nat : l = Len(s) /\ n = Len(t)
  BY LenProperties
<1>2. PICK d : d = s \o t
  OBVIOUS
<1>3. Len(d) = l + n /\ \A k \in 1 .. l + n : d[k] = IF k <= l THEN s[k] ELSE t[k - l]
  BY <1>1, <1>2, ConcatProperties
<1>4. \A k \in 1 .. l : d[k] = s[k]
  BY <1>3
<1>5. GoesOnAs(t, d, l, n)
  <2>1. ASSUME NEW k \in 1 .. n PROVE d[k + l] = t[k]
    <3>1. k + l \in 1 .. l + n /\ ~(k + l <= l) /\ (k + l) - l = k
      OBVIOUS
    <3> QED  BY <1>3, <3>1
  <2> QED  BY <2>1 DEF GoesOnAs
<1>6. l + n \in Nat /\ l <= l + n
  OBVIOUS
<1>7. Many(d, l + n, c) = Many(d, l, c) + Cardinality(Ats(d, l + 1, l + n, c))
  BY <1>6, ManyFurther, Zenon
<1>8. Many(d, l, c) = Many(s, l, c)
  BY <1>4, SameMany
<1>9. Cardinality(Ats(d, l + 1, l + n, c)) = Many(t, n, c)
  BY <1>5, ShiftedEverywhere, Zenon
<1> QED  BY <1>1, <1>2, <1>3, <1>7, <1>8, <1>9, Zenon DEF Count

LEMMA CountMark ==
  ASSUME NEW x, NEW c, x # c
  PROVE  Count(<<x>>, c) = 0
<1>1. PICK s : s = <<x>>
  OBVIOUS
<1>2. PICK n \in Nat : n = 1 /\ n = Len(s)
  BY <1>1
<1>3. \A k \in 1 .. n : s[k] # c
  BY <1>1, <1>2
<1>4. Count(s, c) = 0
  BY <1>2, <1>3, CountNone
<1> QED  BY <1>1, <1>4

LiesAt(s, d, m, n, l, e) == l + 1 = m /\ l + e = n /\ Len(s) = e /\ GoesOnAs(s, d, l, e)
AsMany(s, d, m, n, c) == Count(s, c) = Cardinality(Ats(d, m, n, c))

LEMMA PartAts ==
  ASSUME NEW s, NEW d, NEW l \in Nat, NEW e \in Nat, NEW m, NEW n, NEW c,
         LiesAt(s, d, m, n, l, e)
  PROVE  AsMany(s, d, m, n, c)
<1>1. l + 1 = m /\ l + e = n /\ Len(s) = e
  BY Zenon DEF LiesAt
<1>2. Cardinality(Ats(d, l + 1, l + e, c)) = Many(s, e, c)
  <2>1. GoesOnAs(s, d, l, e)
    BY Zenon DEF LiesAt
  <2> QED  BY <2>1, ShiftedEverywhere, Zenon
<1>3. Cardinality(Ats(d, m, n, c)) = Many(s, Len(s), c)
  BY <1>1, <1>2, Zenon
<1> QED  BY <1>3, Zenon DEF AsMany, Count

CutFrom(s, d, m, n) == Len(s) = n - m + 1 /\ \A i \in 1 .. n - m + 1 : s[i] = d[m + i - 1]

LEMMA CutGoesOn ==
  ASSUME NEW s, NEW d, NEW m \in Nat \ {0}, NEW n \in Nat, m <= n, CutFrom(s, d, m, n)
  PROVE  \E l, e \in Nat : LiesAt(s, d, m, n, l, e)
<1>1. PICK l \in Nat, e \in Nat : l + 1 = m /\ l + e = n
  <2>1. m - 1 \in Nat /\ n - (m - 1) \in Nat /\ (m - 1) + 1 = m /\ (m - 1) + (n - (m - 1)) = n
    OBVIOUS
  <2> QED  BY <2>1
<1>2. Len(s) = e
  BY <1>1 DEF CutFrom
<1>3. GoesOnAs(s, d, l, e)
  <2>1. ASSUME NEW k \in 1 .. e PROVE d[k + l] = s[k]
    <3>1. k \in 1 .. n - m + 1 /\ m + k - 1 = k + l
      BY <1>1
    <3>2. s[k] = d[m + k - 1]
      BY <3>1 DEF CutFrom
    <3> QED  BY <3>1, <3>2
  <2> QED  BY <2>1 DEF GoesOnAs
<1> QED  BY <1>1, <1>2, <1>3 DEF LiesAt

LEMMA CountPart ==
  ASSUME NEW d \in Seq(Chars), NEW m \in Nat \ {0}, NEW n \in Nat, m <= n, n <= Len(d), NEW c
  PROVE  /\ Count(SubSeq(d, m, n), c) = Cardinality(Ats(d, m, n, c))
         /\ Len(SubSeq(d, m, n)) = n - m + 1
<1>1. PICK s : s = SubSeq(d, m, n)
  OBVIOUS
<1>2. \A i \in m .. n : d[i] \in Chars
  <2>1. \A i \in m .. n : i \in 1 .. Len(d)
    BY LenProperties
  <2> QED  BY <2>1, ElementOfSeq
<1>3. m \in Int /\ n \in Int
  OBVIOUS
<1>4. /\ s \in Seq(Chars) /\ Len(s) = IF m <= n THEN n - m + 1 ELSE 0
      /\ \A i \in 1 .. n - m + 1 : s[i] = d[m + i - 1]
  BY <1>1, <1>2, <1>3, SubSeqProperties
<1>5. CutFrom(s, d, m, n)
  BY <1>4 DEF CutFrom
<1>6. PICK l \in Nat, e \in Nat : LiesAt(s, d, m, n, l, e)
  BY <1>5, CutGoesOn
<1>7. AsMany(s, d, m, n, c)
  BY <1>6, PartAts, Zenon
<1> QED  BY <1>1, <1>4, <1>7 DEF AsMany

\* A part of a line has no more of c than the stretch it is cut from.
LEMMA PartCounts ==
  ASSUME NEW d \in Seq(Chars), NEW a \in Nat \ {0}, NEW b \in Nat, a <= b + 1, b <= Len(d),
         NEW m \in Nat, NEW n \in Nat, a <= m, n <= b, NEW c
  PROVE  /\ Count(SubSeq(d, m, n), c) <= Cardinality(Ats(d, a, b, c))
         /\ Len(SubSeq(d, m, n)) <= b - a + 1
<1>1. PICK s : s = SubSeq(d, m, n)
  OBVIOUS
<1>2. PICK x \in Nat : x = Cardinality(Ats(d, a, b, c)) /\ IsFiniteSet(Ats(d, a, b, c))
  BY AtsFinite
<1>3. CASE m <= n
  <2>1. m \in Nat \ {0} /\ n <= Len(d)
    BY LenProperties
  <2>2. Count(s, c) = Cardinality(Ats(d, m, n, c)) /\ Len(s) = n - m + 1
    BY <1>1, <1>3, <2>1, CountPart
  <2>3. Ats(d, m, n, c) \subseteq Ats(d, a, b, c)
    BY DEF Ats
  <2>4. Cardinality(Ats(d, m, n, c)) <= Cardinality(Ats(d, a, b, c))
    BY <1>2, <2>3, FS_Subset
  <2> QED  BY <1>1, <2>2, <2>4
<1>4. CASE ~(m <= n)
  <2>1. \A i \in m .. n : d[i] \in Chars
    BY <1>4
  <2>2. s \in Seq(Chars) /\ Len(s) = IF m <= n THEN n - m + 1 ELSE 0
    BY <1>1, <2>1, SubSeqProperties, m \in Int, n \in Int
  <2>3. PICK e \in Nat : e = 0 /\ e = Len(s)
    BY <1>4, <2>2
  <2>4. Count(s, c) = 0
    BY <2>3, CountNone
  <2> QED  BY <1>1, <1>2, <2>3, <2>4
<1> QED  BY <1>3, <1>4

LEMMA OneAt ==
  ASSUME NEW d, NEW l \in Int, NEW c
  PROVE  Cardinality(Ats(d, l, l, c)) = IF d[l] = c THEN 1 ELSE 0
<1>1. l .. l = {l}
  OBVIOUS
<1>2. CASE d[l] = c
  <2>1. Ats(d, l, l, c) = {l}
    BY <1>1, <1>2 DEF Ats
  <2> QED  BY <1>2, <2>1, FS_Singleton
<1>3. CASE d[l] # c
  <2>1. Ats(d, l, l, c) = {}
    BY <1>1, <1>3 DEF Ats
  <2> QED  BY <1>3, <2>1, FS_EmptySet
<1> QED  BY <1>2, <1>3

\* One character further.
LEMMA ManyStep ==
  ASSUME NEW d, NEW k \in Nat \ {0}, NEW c
  PROVE  /\ Many(d, k, c) = Many(d, k - 1, c) + IF d[k] = c THEN 1 ELSE 0
         /\ Many(d, k, c) \in Nat /\ Many(d, k - 1, c) \in Nat
<1>1. PICK l \in Nat : l = k - 1 /\ l + 1 = k /\ l <= k
  OBVIOUS
<1>2. Many(d, k, c) = Many(d, l, c) + Cardinality(Ats(d, l + 1, k, c))
  BY <1>1, ManyFurther
<1>3. Cardinality(Ats(d, k, k, c)) = IF d[k] = c THEN 1 ELSE 0
  BY OneAt
<1>4. Many(d, k, c) \in Nat /\ Many(d, l, c) \in Nat
  BY ManyIs, k \in Int, l \in Int
<1> QED  BY <1>1, <1>2, <1>3, <1>4

LEMMA DepthStep ==
  ASSUME NEW d, NEW k \in Nat \ {0}
  PROVE  /\ Depth(d, k) \in Int /\ Depth(d, k - 1) \in Int
         /\ d[k] = "(" => Depth(d, k) = Depth(d, k - 1) + 1
         /\ d[k] = ")" => Depth(d, k) = Depth(d, k - 1) - 1
         /\ d[k] \notin {"(", ")"} => Depth(d, k) = Depth(d, k - 1)
<1>1. PICK o, c : o = "(" /\ c = ")"
  OBVIOUS
<1>2. PICK a \in Nat, b \in Nat, x \in Nat, y \in Nat :
         /\ a = Many(d, k - 1, o) /\ b = Many(d, k, o)
         /\ x = Many(d, k - 1, c) /\ y = Many(d, k, c)
  BY ManyStep
<1>3. b = a + (IF d[k] = o THEN 1 ELSE 0) /\ y = x + (IF d[k] = c THEN 1 ELSE 0)
  BY <1>2, ManyStep
<1>4. Depth(d, k) = b - y /\ Depth(d, k - 1) = a - x
  BY <1>1, <1>2, Zenon DEF Depth
<1>5. o # c
  BY <1>1
<1> QED  BY <1>1, <1>3, <1>4, <1>5

\* A ")" at depth 0 has a "(" at depth 0 before it.
LEMMA ClosesOne ==
  ASSUME NEW d, NEW r \in Nat \ {0}, d[r] = ")", Depth(d, r) = 0
  PROVE  \E k \in 1 .. r : d[k] = "(" /\ Depth(d, k - 1) = 0
<1>1. SUFFICES ASSUME \A k \in 1 .. r : d[k] = "(" => Depth(d, k - 1) # 0
               PROVE  FALSE
  OBVIOUS
<1>2. PICK m \in Nat : m = r - 1
  OBVIOUS
<1>3. PICK K : K = {k \in 0 .. m : Depth(d, k) <= 0}
  OBVIOUS
<1>4. 0 \in K
  <2>1. {i \in 1 .. 0 : d[i] = "("} = {} /\ {i \in 1 .. 0 : d[i] = ")"} = {}
    OBVIOUS
  <2>2. Depth(d, 0) = 0
    BY <2>1, FS_EmptySet DEF Depth, Many
  <2> QED  BY <1>3, <2>2
<1>5. ASSUME NEW k \in 1 .. m, k - 1 \in K PROVE k \in K
  <2>1. k \in Nat \ {0} /\ k \in 1 .. r
    BY <1>2
  <2>2. Depth(d, k - 1) \in Int /\ Depth(d, k - 1) <= 0
    BY <1>3, <1>5, <2>1, DepthStep
  <2>3. Depth(d, k) <= 0
    BY <1>1, <2>1, <2>2, DepthStep
  <2> QED  BY <1>3, <2>3
<1>6. m \in K
  BY <1>4, <1>5, Climb, Zenon
<1>7. Depth(d, r - 1) <= 0 /\ Depth(d, r - 1) \in Int /\ Depth(d, r) = Depth(d, r - 1) - 1
  BY <1>2, <1>3, <1>6, DepthStep
<1> QED  BY <1>7

\* Where the first group is, if there is a "(": it begins with a "(" or is the
\* whole line.
LEMMA GroupIs ==
  ASSUME NEW d \in Seq(Chars), \E k \in DOMAIN d : d[k] = "("
  PROVE  /\ Left(d) \in 1 .. Right(d) /\ Right(d) \in 1 .. Len(d)
         /\ Right(d) = Len(d) \/ d[Right(d)] = ")"
         /\ d[Left(d)] = "(" \/ (Left(d) = 1 /\ Right(d) = Len(d))
         /\ Many(d, Right(d), "(") > 0
<1>1. PICK n \in Nat : n = Len(d) /\ DOMAIN d = 1 .. n
  BY LenProperties
<1>2. PICK o \in 1 .. n : d[o] = "("
  BY <1>1
<1>3. PICK r : r = Right(d)
  OBVIOUS
<1>4. PICK R : R = {k \in 1 .. n : d[k] = ")" /\ Depth(d, k) = 0}
  OBVIOUS
<1>5. PICK L : L = {k \in 1 .. r : d[k] = "(" /\ Depth(d, k - 1) = 0}
  OBVIOUS
<1>6. r \in 1 .. n /\ (r = n \/ r \in R)
  <2>1. CASE R = {}
    <3>1. r = n
      BY <1>1, <1>3, <1>4, <2>1 DEF Right, FirstOf
    <3> QED  BY <1>2, <3>1
  <2>2. CASE R # {}
    <3>1. R \in SUBSET Nat
      BY <1>4
    <3>2. Min(R) \in R
      BY <2>2, <3>1, MinIn
    <3>3. r = Min(R)
      BY <1>1, <1>3, <1>4, <2>2 DEF Right, FirstOf
    <3> QED  BY <1>4, <3>2, <3>3
  <2> QED  BY <2>1, <2>2
<1>7. r \in Nat \ {0}
  BY <1>6
<1>8. r = n \/ d[r] = ")"
  BY <1>4, <1>6
<1>9. ASSUME NEW k \in 1 .. r, d[k] = "(" PROVE Many(d, r, "(") > 0
  <2>1. PICK S : S = {i \in 1 .. r : d[i] = "("}
    OBVIOUS
  <2>2. S # {} /\ S \subseteq 1 .. r
    BY <1>9, <2>1
  <2>3. IsFiniteSet(S)
    <3>1. 1 \in Int /\ r \in Int
      BY <1>7
    <3>2. IsFiniteSet(1 .. r)
      BY <3>1, FS_Interval, Zenon
    <3> QED  BY <2>2, <3>2, FS_Subset, Zenon
  <2>4. Cardinality(S) \in Nat /\ Cardinality(S) # 0
    BY <2>2, <2>3, FS_CardinalityType, FS_EmptySet
  <2>5. Many(d, r, "(") = Cardinality(S)
    BY <2>1, Zenon DEF Many
  <2> QED  BY <2>4, <2>5
<1>10. CASE L # {}
  <2>1. L \in SUBSET Nat
    BY <1>5
  <2>2. Min(L) \in L
    BY <1>10, <2>1, MinIn
  <2>3. Left(d) = Min(L)
    BY <1>3, <1>5, <1>10 DEF Left, FirstOf
  <2>4. Left(d) \in 1 .. r /\ d[Left(d)] = "("
    BY <1>5, <2>2, <2>3
  <2>5. Many(d, r, "(") > 0
    BY <1>9, <2>4
  <2> QED  BY <1>1, <1>3, <1>6, <1>8, <2>4, <2>5
<1>11. CASE L = {}
  <2>1. Left(d) = 1
    BY <1>3, <1>5, <1>11 DEF Left, FirstOf
  <2>2. r \notin R
    <3>1. SUFFICES ASSUME r \in R PROVE FALSE
      OBVIOUS
    <3>2. \E k \in 1 .. r : d[k] = "(" /\ Depth(d, k - 1) = 0
      BY <1>4, <1>7, <3>1, ClosesOne
    <3> QED  BY <1>5, <1>11, <3>2
  <2>3. r = n
    BY <1>6, <2>2
  <2>4. Many(d, r, "(") > 0
    BY <1>2, <1>9, <2>3
  <2> QED  BY <1>1, <1>3, <1>7, <2>1, <2>3, <2>4
<1> QED  BY <1>10, <1>11

\* What changesequence puts together is no longer than the line, and has only the
\* "(" outside the place of the group's own.
LEMMA InnerCounts ==
  ASSUME NEW d \in Seq(Chars), NEW l \in Nat \ {0}, NEW r \in Nat, l < r, r <= Len(d),
         l = Left(d), r = Right(d), Many(d, Right(d), "(") > 0, NEW c
  PROVE  /\ Count(Inner(d), c) <= Cardinality(Ats(d, l + 1, r - 1, c))
         /\ Len(Inner(d)) <= r - l - 1
<1>1. PICK a \in Nat \ {0}, b \in Nat : a = l + 1 /\ b = r - 1
  <2>1. l + 1 \in Nat \ {0} /\ r - 1 \in Nat
    OBVIOUS
  <2> QED  BY <2>1
<1>2. Inner(d) = SubSeq(d, a, b)
  BY <1>1 DEF Inner
<1>3. a <= b + 1 /\ b <= Len(d) /\ a <= a /\ b <= b /\ b - a + 1 = r - l - 1
  BY <1>1, LenProperties
<1>4. /\ Count(SubSeq(d, a, b), c) <= Cardinality(Ats(d, a, b, c))
      /\ Len(SubSeq(d, a, b)) <= b - a + 1
  BY <1>3, PartCounts
<1> QED  BY <1>1, <1>2, <1>3, <1>4, Zenon

\* A character that ends a word and is not put between the parts.
Apart(c) == c \notin Words /\ c \notin {";", "|"}

\* A mark and a part of a line.
LEMMA MarkedCounts ==
  ASSUME NEW x \in Chars, NEW c, x # c, NEW s \in Seq(Chars)
  PROVE  Count(<<x>> \o s, c) = Count(s, c) /\ Len(<<x>> \o s) = Len(s) + 1
<1>1. PICK m : m = <<x>> /\ m \in Seq(Chars) /\ Len(m) = 1
  <2>1. <<x>> \in Seq(Chars) /\ Len(<<x>>) = 1
    OBVIOUS
  <2> QED  BY <2>1, Zenon
<1>2. Count(m, c) = 0
  BY <1>1, CountMark
<1>3. Count(m \o s, c) = Count(m, c) + Count(s, c)
  BY <1>1, CountConcat
<1>4. Count(s, c) \in Nat
  BY CountIs, LenProperties
<1>5. Len(m \o s) = Len(m) + Len(s) /\ Len(s) \in Nat
  BY <1>1, ConcatProperties, LenProperties
<1> QED  BY <1>1, <1>2, <1>3, <1>4, <1>5

LEMMA BeforeCounts ==
  ASSUME NEW d \in Seq(Chars), NEW l \in Nat \ {0}, l <= Len(d), l = Left(d),
         l = 1 \/ d[l] \notin Words, Before(d) # Fault, NEW c, Apart(c)
  PROVE  Count(Before(d), c) <= Cardinality(Ats(d, 1, l - 1, c)) /\ Len(Before(d)) <= l
<1>1. PICK n \in Nat : n = Len(d)
  BY LenProperties
<1>2. PICK y \in Nat : y = Cardinality(Ats(d, 1, l - 1, c))
  BY AtsFinite, 1 \in Int, l - 1 \in Int
<1>3. CASE l = 1
  <2>1. PICK e : e = <<>> /\ Before(d) = e
    BY <1>3 DEF Before
  <2>2. Count(e, c) = 0 /\ Len(e) = 0
    <3>1. PICK m \in Nat : m = 0 /\ m = Len(e)
      BY <2>1
    <3> QED  BY <3>1, CountNone
  <2> QED  BY <1>2, <2>1, <2>2
<1>4. CASE l # 1
  <2>1. PICK W : W = WordsIn(d, 1, l)
    OBVIOUS
  <2>2. W # {} /\ Before(d) = <<";">> \o SubSeq(d, Min(WordsIn(d, 1, n)), Max(W))
    BY <1>1, <1>4, <2>1 DEF Before
  <2>3. PICK a, b : a = Min(WordsIn(d, 1, n)) /\ b = Max(W)
    OBVIOUS
  <2>4. a \in 1 .. n /\ b \in 1 .. l
    <3>1. W \subseteq WordsIn(d, 1, n)
      BY <1>1, <2>1 DEF WordsIn
    <3>2. WordsIn(d, 1, n) # {} /\ WordsIn(d, 1, l) # {}
      BY <2>1, <2>2, <3>1
    <3>3. 1 \in Nat \ {0} /\ l \in Nat
      OBVIOUS
    <3> QED  BY <2>1, <2>3, <3>2, <3>3, WordBounds, Zenon
  <2>5. b \in W
    <3>1. W \in SUBSET (1 .. l)
      BY <2>1 DEF WordsIn
    <3> QED  BY <2>2, <2>3, <3>1, MaxIn
  <2>6. b # l
    <3>1. d[b] \in Words
      BY <2>1, <2>5 DEF WordsIn
    <3>2. d[l] \notin Words
      BY <1>4
    <3> QED  BY <3>1, <3>2
  <2>7. PICK e \in Nat, i \in Nat \ {0} : e = l - 1 /\ i = 1
    OBVIOUS
  <2>8. PICK s : s = SubSeq(d, a, b)
    OBVIOUS
  <2>9. s \in Seq(Chars)
    BY <1>1, <2>4, <2>8, PartIsLine
  <2>10. Count(s, c) <= y /\ Len(s) <= e
    <3>1. i <= e + 1 /\ e <= Len(d) /\ i <= a /\ b <= e /\ a \in Nat /\ b \in Nat
          /\ e - i + 1 = e
      BY <1>1, <2>4, <2>6, <2>7
    <3>2. Count(s, c) <= Cardinality(Ats(d, i, e, c)) /\ Len(s) <= e - i + 1
      BY <2>8, <3>1, PartCounts
    <3> QED  BY <1>2, <2>7, <3>1, <3>2
  <2>11. PICK x \in Chars : x = ";" /\ x # c
    BY DEF Chars, Apart
  <2>12. Count(<<x>> \o s, c) = Count(s, c) /\ Len(<<x>> \o s) = Len(s) + 1
    BY <2>9, <2>11, MarkedCounts
  <2>13. Before(d) = <<x>> \o s
    BY <2>2, <2>3, <2>8, <2>11
  <2>14. Len(s) \in Nat
    BY <2>9, LenProperties
  <2> QED  BY <1>2, <2>7, <2>10, <2>12, <2>13, <2>14
<1> QED  BY <1>3, <1>4

LEMMA FromWordCounts ==
  ASSUME NEW d \in Seq(Chars), NEW n \in Nat, n = Len(d), NEW r \in Nat \ {0}, r <= n,
         WordsIn(d, r, n) # {}, d[r] \notin Words, NEW last \in 1 .. n,
         NEW x \in Chars, NEW c, x # c
  PROVE  /\ Count(<<x>> \o SubSeq(d, Min(WordsIn(d, r, n)), last), c)
              <= Cardinality(Ats(d, r + 1, n, c))
         /\ Len(<<x>> \o SubSeq(d, Min(WordsIn(d, r, n)), last)) <= n - r + 1
<1>1. PICK W : W = WordsIn(d, r, n)
  OBVIOUS
<1>2. PICK m : m = Min(W)
  OBVIOUS
<1>3. m \in W /\ m \in r .. n
  <2>1. W \subseteq r .. n
    BY <1>1, Zenon DEF WordsIn
  <2>2. W \in SUBSET Nat
    BY <2>1
  <2>3. m \in W
    BY <1>1, <1>2, <2>2, MinIn, Zenon
  <2> QED  BY <2>1, <2>3
<1>4. m # r
  <2>1. d[m] \in Words
    BY <1>1, <1>3 DEF WordsIn
  <2> QED  BY <2>1
<1>5. PICK s : s = SubSeq(d, m, last)
  OBVIOUS
<1>6. PICK a \in Nat \ {0} : a = r + 1 /\ a <= n + 1 /\ n - a + 1 = n - r
  <2>1. r + 1 \in Nat \ {0} /\ r + 1 <= n + 1 /\ n - (r + 1) + 1 = n - r
    OBVIOUS
  <2> QED  BY <2>1
<1>7. Count(s, c) <= Cardinality(Ats(d, a, n, c)) /\ Len(s) <= n - a + 1
  <2>1. m \in Nat /\ last \in Nat /\ a <= m /\ last <= n /\ n <= Len(d)
    BY <1>3, <1>4, <1>6
  <2> QED  BY <1>5, <1>6, <2>1, PartCounts
<1>8. s \in Seq(Chars)
  <2>1. m \in Nat \ {0} /\ last \in Int /\ last <= Len(d)
    BY <1>3
  <2> QED  BY <1>5, <2>1, PartIsLine
<1>9. Count(<<x>> \o s, c) = Count(s, c) /\ Len(<<x>> \o s) = Len(s) + 1
  BY <1>8, MarkedCounts
<1>10. PICK k \in Nat : k = Len(s)
  BY <1>8, LenProperties
<1>11. k + 1 <= n - r + 1
  BY <1>6, <1>7, <1>10
<1> QED  BY <1>1, <1>2, <1>5, <1>6, <1>7, <1>9, <1>10, <1>11, Zenon

LEMMA AfterCounts ==
  ASSUME NEW d \in Seq(Chars), NEW r \in Nat \ {0}, r <= Len(d), r = Right(d),
         r = Len(d) \/ d[r] \notin Words, After(d) # Fault, NEW c, Apart(c)
  PROVE  /\ Count(After(d), c) <= Cardinality(Ats(d, r + 1, Len(d), c))
         /\ Len(After(d)) <= Len(d) - r + 1
<1>1. PICK n \in Nat : n = Len(d)
  BY LenProperties
<1>2. PICK y \in Nat : y = Cardinality(Ats(d, r + 1, n, c))
  BY AtsFinite, r + 1 \in Int, n \in Int
<1>3. PICK W, V, last : W = WordsIn(d, r, n) /\ V = WordsIn(d, 1, n) /\ last = Max(V)
  OBVIOUS
<1>4. PICK e : e = Min({last + 1, n})
  OBVIOUS
<1>5. PICK a \in Nat \ {0} : a = r + 1 /\ a <= n + 1 /\ n - a + 1 = n - r
  <2>1. r + 1 \in Nat \ {0} /\ r + 1 <= n + 1 /\ n - (r + 1) + 1 = n - r
    BY <1>1
  <2> QED  BY <2>1
<1>6. ASSUME NEW m \in Nat, NEW b \in Nat, a <= m, b <= n
      PROVE  /\ Count(SubSeq(d, m, b), c) <= y /\ Len(SubSeq(d, m, b)) <= n - r
             /\ SubSeq(d, m, b) \in Seq(Chars)
  <2>1. /\ Count(SubSeq(d, m, b), c) <= Cardinality(Ats(d, a, n, c))
        /\ Len(SubSeq(d, m, b)) <= n - a + 1
    <3>1. n <= Len(d)
      BY <1>1
    <3> QED  BY <1>5, <1>6, <3>1, PartCounts
  <2>2. SubSeq(d, m, b) \in Seq(Chars)
    BY <1>1, <1>5, <1>6, PartIsLine
  <2> QED  BY <1>2, <1>5, <2>1, <2>2
<1>7. \/ After(d) = <<>>
      \/ V # {} /\ (\/ After(d) = SubSeq(d, a, n)
                    \/ After(d) = SubSeq(d, a, e)
                    \/ /\ W # {} /\ r # n
                       /\ \E x \in {"|", ";"} : After(d) = <<x>> \o SubSeq(d, Min(W), last))
  BY <1>1, <1>3, <1>4, <1>5 DEF After
<1>8. ASSUME V # {} PROVE last \in 1 .. n /\ e \in Nat /\ e <= n
  <2>1. last \in 1 .. n
    BY <1>3, <1>8, WordBounds, 1 \in Nat \ {0}, Zenon
  <2>2. {last + 1, n} \in SUBSET Nat /\ {last + 1, n} # {}
    BY <2>1
  <2>3. e \in {last + 1, n} /\ \A k \in {last + 1, n} : e <= k
    BY <1>4, <2>2, MinIn, Zenon
  <2> QED  BY <2>1, <2>3
<1>9. CASE After(d) = <<>>
  <2>1. PICK t : t = <<>> /\ After(d) = t
    BY <1>9
  <2>2. Count(t, c) = 0 /\ Len(t) = 0
    <3>1. PICK m \in Nat : m = 0 /\ m = Len(t)
      BY <2>1
    <3> QED  BY <3>1, CountNone
  <2> QED  BY <1>1, <1>2, <2>1, <2>2
<1>10. CASE V # {} /\ After(d) = SubSeq(d, a, n)
  <2>1. a \in Nat /\ a <= a /\ n <= n
    OBVIOUS
  <2>2. Count(SubSeq(d, a, n), c) <= y /\ Len(SubSeq(d, a, n)) <= n - r
        /\ Len(SubSeq(d, a, n)) \in Nat
    BY <1>6, <2>1, LenProperties
  <2> QED  BY <1>1, <1>2, <1>10, <2>2
<1>11. CASE V # {} /\ After(d) = SubSeq(d, a, e)
  <2>1. a \in Nat /\ a <= a /\ e \in Nat /\ e <= n
    BY <1>8, <1>11
  <2>2. PICK s : s = SubSeq(d, a, e) /\ s = After(d)
    BY <1>11
  <2>3. Count(s, c) <= y /\ Len(s) <= n - r /\ s \in Seq(Chars)
    BY <1>6, <2>1, <2>2
  <2>4. Len(s) \in Nat
    BY <2>3, LenProperties
  <2> QED  BY <1>1, <1>2, <2>2, <2>3, <2>4
<1>12. ASSUME V # {}, W # {}, r # n, NEW x \in {"|", ";"},
              After(d) = <<x>> \o SubSeq(d, Min(W), last)
       PROVE  Count(After(d), c) <= y /\ Len(After(d)) <= n - r + 1
  <2>1. x \in Chars /\ x # c
    BY DEF Chars, Apart
  <2>2. d[r] \notin Words
    BY <1>1, <1>12, Zenon
  <2>3. last \in 1 .. n
    BY <1>8, <1>12, Zenon
  <2>4. /\ Count(<<x>> \o SubSeq(d, Min(W), last), c) <= y
        /\ Len(<<x>> \o SubSeq(d, Min(W), last)) <= n - r + 1
    BY <1>1, <1>2, <1>3, <1>12, <2>1, <2>2, <2>3, FromWordCounts, Zenon
  <2> QED  BY <1>12, <2>4, Zenon
<1> QED  BY <1>1, <1>2, <1>7, <1>9, <1>10, <1>11, <1>12

\* A line from its first place to its last, around the two ends of its group.
LEMMA AroundGroup ==
  ASSUME NEW d, NEW n \in Nat, n = Len(d), NEW l \in Nat \ {0}, NEW r \in Nat, l < r, r <= n, NEW c
  PROVE  Count(d, c) >= Cardinality(Ats(d, 1, l - 1, c)) + (IF d[l] = c THEN 1 ELSE 0)
                          + Cardinality(Ats(d, l + 1, r - 1, c)) + Cardinality(Ats(d, r + 1, n, c))
<1>1. PICK k \in Nat, m \in Nat : k = l - 1 /\ k + 1 = l /\ m = r - 1 /\ m + 1 = r
  <2>1. l - 1 \in Nat /\ r - 1 \in Nat /\ (l - 1) + 1 = l /\ (r - 1) + 1 = r
    OBVIOUS
  <2> QED  BY <2>1
<1>2. PICK a \in Nat, b \in Nat, e \in Nat, f \in Nat, g \in Nat :
         /\ a = Cardinality(Ats(d, 1, k, c)) /\ b = Cardinality(Ats(d, l, l, c))
         /\ e = Cardinality(Ats(d, l + 1, m, c)) /\ f = Cardinality(Ats(d, r, r, c))
         /\ g = Cardinality(Ats(d, r + 1, n, c))
  <2>1. 1 \in Int /\ k \in Int /\ l \in Int /\ l + 1 \in Int /\ m \in Int /\ r \in Int
        /\ r + 1 \in Int /\ n \in Int
    OBVIOUS
  <2> QED  BY <2>1, AtsFinite
<1>3. Many(d, l, c) = a + b
  <2>1. Many(d, l, c) = Many(d, k, c) + Cardinality(Ats(d, k + 1, l, c))
    <3>1. k <= l
      BY <1>1
    <3> QED  BY <3>1, ManyFurther
  <2>2. Many(d, k, c) = Cardinality(Ats(d, 1, k, c))
    BY ManyIs, k \in Int
  <2> QED  BY <1>1, <1>2, <2>1, <2>2
<1>4. Many(d, m, c) = a + b + e
  <2>1. Many(d, m, c) = Many(d, l, c) + Cardinality(Ats(d, l + 1, m, c))
    BY <1>1, ManyFurther, l <= m
  <2> QED  BY <1>2, <1>3, <2>1
<1>5. Many(d, r, c) = a + b + e + f
  <2>1. Many(d, r, c) = Many(d, m, c) + Cardinality(Ats(d, m + 1, r, c))
    BY <1>1, ManyFurther, m <= r
  <2> QED  BY <1>1, <1>2, <1>4, <2>1
<1>6. Many(d, n, c) = a + b + e + f + g
  <2>1. Many(d, n, c) = Many(d, r, c) + Cardinality(Ats(d, r + 1, n, c))
    BY ManyFurther, r <= n
  <2> QED  BY <1>2, <1>5, <2>1
<1>7. b = IF d[l] = c THEN 1 ELSE 0
  BY <1>2, OneAt, l \in Int
<1>8. Count(d, c) = Many(d, n, c)
  BY Zenon DEF Count
<1>9. a = Cardinality(Ats(d, 1, l - 1, c)) /\ e = Cardinality(Ats(d, l + 1, r - 1, c))
  BY <1>1, <1>2, Zenon
<1>10. Count(d, c) = a + b + e + f + g
  BY <1>6, <1>8, Zenon
<1>11. a + b + e + f + g >= a + b + e + g
  OBVIOUS
<1> QED  BY <1>2, <1>7, <1>9, <1>10, <1>11, Zenon

\* Each "(" counts twice: a round takes one away, or two other characters.
Weight(d) == 2 * Count(d, "(") + Len(d)

LEMMA WeightIs == \A d \in Seq(Chars) : Weight(d) \in Nat
<1> SUFFICES ASSUME NEW d \in Seq(Chars) PROVE Weight(d) \in Nat
  OBVIOUS
<1>1. Count(d, "(") \in Nat /\ Len(d) \in Nat
  BY CountIs, LenProperties
<1> QED  BY <1>1 DEF Weight

LEMMA WeightFalls ==
  ASSUME NEW d \in Seq(Chars), \E k \in DOMAIN d : d[k] = "(", Changed(d) # Fault
  PROVE  Weight(Changed(d)) + 2 <= Weight(d)
<1>1. PICK n \in Nat : n = Len(d)
  BY LenProperties
<1>2. PICK c : c = "("
  OBVIOUS
<1>3. Apart(c)
  BY <1>2, LettersAssumption DEF Apart
<1>4. PICK l \in Nat \ {0}, r \in Nat \ {0} :
         /\ l = Left(d) /\ r = Right(d) /\ l <= r /\ r <= n
         /\ r = n \/ d[r] = ")"
         /\ d[l] = c \/ (l = 1 /\ r = n)
         /\ Many(d, Right(d), "(") > 0
  <2>1. /\ Left(d) \in 1 .. Right(d) /\ Right(d) \in 1 .. Len(d)
        /\ Right(d) = Len(d) \/ d[Right(d)] = ")"
        /\ d[Left(d)] = "(" \/ (Left(d) = 1 /\ Right(d) = Len(d))
        /\ Many(d, Right(d), "(") > 0
    BY GroupIs, Zenon
  <2> QED  BY <1>1, <1>2, <2>1
<1>5. ~CutShort(d) /\ Before(d) # Fault /\ After(d) # Fault
      /\ Changed(d) = Inner(d) \o Before(d) \o After(d)
  BY Zenon DEF Changed
<1>6. l < r
  <2>1. Left(d) # Right(d)
    BY <1>4, <1>5, Zenon DEF CutShort
  <2> QED  BY <1>4, <2>1
<1>7. PICK i \in Seq(Chars), b \in Seq(Chars), a \in Seq(Chars) :
         i = Inner(d) /\ b = Before(d) /\ a = After(d)
  BY InnerIsLine, BeforeIsLine, AfterIsLine
<1>8. Count(i, c) <= Cardinality(Ats(d, l + 1, r - 1, c)) /\ Len(i) <= r - l - 1
  <2>1. r <= Len(d) /\ r \in Nat
    BY <1>1, <1>4
  <2> QED  BY <1>4, <1>6, <1>7, <2>1, InnerCounts, Zenon
<1>9. Count(b, c) <= Cardinality(Ats(d, 1, l - 1, c)) /\ Len(b) <= l
  <2>1. l <= Len(d)
    BY <1>1, <1>4
  <2>2. l = 1 \/ d[l] \notin Words
    BY <1>3, <1>4 DEF Apart
  <2> QED  BY <1>3, <1>4, <1>5, <1>7, <2>1, <2>2, BeforeCounts, Zenon
<1>10. Count(a, c) <= Cardinality(Ats(d, r + 1, n, c)) /\ Len(a) <= n - r + 1
  <2>1. r <= Len(d)
    BY <1>1, <1>4
  <2>2. r = Len(d) \/ d[r] \notin Words
    BY <1>1, <1>4, LettersAssumption
  <2> QED  BY <1>1, <1>3, <1>4, <1>5, <1>7, <2>1, <2>2, AfterCounts, Zenon
<1>11. PICK e : e = i \o b \o a
  OBVIOUS
<1>12. Count(e, c) = Count(i, c) + Count(b, c) + Count(a, c) /\ Len(e) = Len(i) + Len(b) + Len(a)
  <2>1. i \o b \in Seq(Chars) /\ Len(i \o b) = Len(i) + Len(b)
    BY ConcatProperties
  <2>2. Len((i \o b) \o a) = Len(i \o b) + Len(a)
    BY <2>1, ConcatProperties
  <2>3. Count(i \o b, c) = Count(i, c) + Count(b, c)
    BY CountConcat
  <2>4. Count((i \o b) \o a, c) = Count(i \o b, c) + Count(a, c)
    BY <2>1, CountConcat
  <2> QED  BY <1>11, <2>1, <2>2, <2>3, <2>4, Zenon
<1>13. l = 1 /\ r = n => Len(b) = 0 /\ Len(a) = 0
  <2>1. SUFFICES ASSUME l = 1, r = n PROVE Len(b) = 0 /\ Len(a) = 0
    OBVIOUS
  <2>2. Before(d) = <<>> /\ After(d) = <<>>
    BY <1>1, <1>4, <2>1, Zenon DEF Before, After
  <2>3. PICK t : t = <<>> /\ Len(t) = 0
    OBVIOUS
  <2> QED  BY <1>7, <2>2, <2>3, Zenon
<1>14. PICK x \in Nat, y \in Nat, z \in Nat, u \in Nat, v \in Nat, w \in Nat, k \in Nat :
          /\ x = Cardinality(Ats(d, l + 1, r - 1, c)) /\ y = Cardinality(Ats(d, 1, l - 1, c))
          /\ z = Cardinality(Ats(d, r + 1, n, c))
          /\ u = Count(i, c) /\ v = Count(b, c) /\ w = Count(a, c) /\ k = Count(d, c)
  <2>1. 1 \in Int /\ l + 1 \in Int /\ r - 1 \in Int /\ l - 1 \in Int /\ r + 1 \in Int /\ n \in Int
    OBVIOUS
  <2>2. Count(i, c) \in Nat /\ Count(b, c) \in Nat /\ Count(a, c) \in Nat /\ Count(d, c) \in Nat
    BY CountIs, LenProperties
  <2> QED  BY <2>1, <2>2, AtsFinite
<1>15. k >= y + (IF d[l] = c THEN 1 ELSE 0) + x + z
  BY <1>1, <1>4, <1>6, <1>14, AroundGroup
<1>16. PICK li \in Nat, lb \in Nat, la \in Nat : li = Len(i) /\ lb = Len(b) /\ la = Len(a)
  BY LenProperties
<1>17. 2 * (u + v + w) + (li + lb + la) + 2 <= 2 * k + n
  <2>1. u <= x /\ v <= y /\ w <= z /\ li <= r - l - 1 /\ lb <= l /\ la <= n - r + 1
    BY <1>8, <1>9, <1>10, <1>14, <1>16
  <2>2. CASE d[l] = c
    BY <1>4, <1>15, <2>1, <2>2
  <2>3. CASE l = 1 /\ r = n
    <3>1. lb = 0 /\ la = 0
      BY <1>13, <1>16, <2>3
    <3>2. k >= y + x + z
      BY <1>15
    <3> QED  BY <2>1, <2>3, <3>1, <3>2
  <2> QED  BY <1>4, <2>2, <2>3
<1>18. Weight(e) = 2 * (u + v + w) + (li + lb + la) /\ Weight(d) = 2 * k + n
  BY <1>1, <1>2, <1>12, <1>14, <1>16, Zenon DEF Weight
<1>19. Changed(d) = e
  BY <1>5, <1>7, <1>11
<1> QED  BY <1>17, <1>18, <1>19

-----------------------------------------------------------------------------
\* Lines without parentheses: what changesequence makes of them.
CommasAsPipes(line) == [k \in DOMAIN line |-> IF line[k] = "," THEN "|" ELSE line[k]]

Blank == " "

\* The line d is the line with a space put at p.
SpacedAt(d, line, p) ==
    /\ Len(d) = Len(line) + 1 /\ DOMAIN d = 1 .. Len(line) + 1 /\ p \in 1 .. Len(line) + 1
    /\ d[p] = Blank
    /\ \A k \in 1 .. p - 1 : d[k] = line[k]
    /\ \A k \in p + 1 .. Len(line) + 1 : d[k] = line[k - 1]

Flat(line) == \A k \in DOMAIN line : line[k] \notin {"(", ")"}

LEMMA OneMore ==
  ASSUME NEW T, NEW s \in Seq(T), NEW c \in T, NEW n \in Nat, n = Len(s)
  PROVE  /\ Append(s, c) \in Seq(T) /\ Len(Append(s, c)) = n + 1
         /\ DOMAIN Append(s, c) = 1 .. n + 1 /\ Append(s, c)[n + 1] = c
         /\ \A k \in 1 .. n : Append(s, c)[k] = s[k]
<1>1. Append(s, c) \in Seq(T) /\ Len(Append(s, c)) = n + 1 /\ Append(s, c)[n + 1] = c
  BY AppendProperties
<1>2. \A k \in 1 .. n : Append(s, c)[k] = s[k]
  BY AppendProperties
<1>3. DOMAIN Append(s, c) = 1 .. n + 1
  BY <1>1, LenProperties
<1> QED  BY <1>1, <1>2, <1>3

LEMMA TwoMore ==
  ASSUME NEW T, NEW s \in Seq(T), NEW b \in T, NEW c \in T
  PROVE  s \o <<b, c>> = Append(Append(s, b), c)
<1>1. Append(s, b) = s \o <<b>> /\ Append(Append(s, b), c) = Append(s, b) \o <<c>>
  BY AppendIsConcat, OneMore, LenProperties
<1>2. <<b>> \in Seq(T) /\ <<c>> \in Seq(T)
  OBVIOUS
<1>3. <<b>> \o <<c>> = <<b, c>>
  <2>1. PICK u, v : u = <<b>> /\ v = <<c>> /\ u \in Seq(T) /\ v \in Seq(T)
    BY <1>2
  <2>2. Len(u) = 1 /\ Len(v) = 1 /\ u[1] = b /\ v[1] = c
    BY <2>1
  <2>3. u \o v \in Seq(T) /\ Len(u \o v) = 2 /\ (u \o v)[1] = b /\ (u \o v)[2] = c
    <3>1. u \o v \in Seq(T) /\ Len(u \o v) = 1 + 1
          /\ \A i \in 1 .. 1 + 1 : (u \o v)[i] = IF i <= 1 THEN u[i] ELSE v[i - 1]
      BY <2>1, <2>2, ConcatProperties
    <3> QED  BY <2>2, <3>1
  <2>4. PICK w : w = <<b, c>> /\ w \in Seq(T) /\ Len(w) = 2 /\ w[1] = b /\ w[2] = c
    <3>1. <<b, c>> \in Seq(T)
      OBVIOUS
    <3>2. Len(<<b, c>>) = 2
      OBVIOUS
    <3>3. <<b, c>>[1] = b /\ <<b, c>>[2] = c
      OBVIOUS
    <3> QED  BY <3>1, <3>2, <3>3, Zenon
  <2>5. PICK x : x = u \o v
    OBVIOUS
  <2>6. \A i \in 1 .. 2 : x[i] = w[i]
    BY <2>3, <2>4, <2>5
  <2>7. x = w
    BY <2>3, <2>4, <2>5, <2>6, SeqEqual
  <2> QED  BY <2>1, <2>4, <2>5, <2>7
<1>4. (s \o <<b>>) \o <<c>> = s \o (<<b>> \o <<c>>)
  BY <1>2, ConcatAssociative
<1> QED  BY <1>1, <1>3, <1>4

LEMMA ConvertSpaces ==
  ASSUME NEW line \in Seq(Chars)
  PROVE  \E p \in Nat : SpacedAt(convertalias(line), line, p)
<1>1. PICK n \in Nat : n = Len(line) /\ DOMAIN line = 1 .. n
  BY LenProperties
<1>2. PICK space \in Chars, comma \in Chars : space = Blank /\ comma = ","
  BY DEF Chars, Blank
<1>3. CASE line # <<>> /\ Last(line) = ","
  <2>1. n # 0
    BY <1>1, <1>3, EmptySeq
  <2>2. PICK m \in Nat : n = m + 1
    BY <2>1, n - 1 \in Nat
  <2>3. PICK f : f = Front(line)
    OBVIOUS
  <2>4. f \in Seq(Chars) /\ Len(f) = m /\ \A k \in 1 .. m : f[k] = line[k]
    <3>1. f = SubSeq(line, 1, m)
      BY <1>1, <2>2, <2>3 DEF Front
    <3>2. m \in 0 .. Len(line)
      BY <1>1, <2>2
    <3>3. f \in Seq(Chars) /\ Len(f) = m /\ \A k \in 1 .. m : f[k] = line[k]
      BY <1>1, <2>2, <3>1, LenProperties, ElementOfSeq, SubSeqProperties
    <3> QED  BY <3>3
  <2>5. convertalias(line) = Append(Append(f, space), comma)
    <3>1. convertalias(line) = f \o <<space, comma>>
      BY <1>2, <1>3, <2>3 DEF convertalias, Blank
    <3>2. f \o <<space, comma>> = Append(Append(f, space), comma)
      BY <2>4, TwoMore
    <3> QED  BY <3>1, <3>2
  <2>6. PICK g : g = Append(f, space)
    OBVIOUS
  <2>7. g \in Seq(Chars) /\ Len(g) = n /\ g[n] = space /\ \A k \in 1 .. m : g[k] = f[k]
    <3>1. /\ Append(f, space) \in Seq(Chars) /\ Len(Append(f, space)) = m + 1
          /\ DOMAIN Append(f, space) = 1 .. m + 1 /\ Append(f, space)[m + 1] = space
          /\ \A k \in 1 .. m : Append(f, space)[k] = f[k]
      BY <2>4, OneMore
    <3> QED  BY <2>2, <2>6, <3>1, Zenon
  <2>8. PICK d : d = Append(g, comma)
    OBVIOUS
  <2>9. /\ Len(d) = n + 1 /\ DOMAIN d = 1 .. n + 1 /\ d[n + 1] = comma
        /\ \A k \in 1 .. n : d[k] = g[k]
    <3>1. /\ Append(g, comma) \in Seq(Chars) /\ Len(Append(g, comma)) = n + 1
          /\ DOMAIN Append(g, comma) = 1 .. n + 1 /\ Append(g, comma)[n + 1] = comma
          /\ \A k \in 1 .. n : Append(g, comma)[k] = g[k]
      BY <2>7, OneMore
    <3> QED  BY <2>8, <3>1, Zenon
  <2>10. line[n] = comma
    BY <1>1, <1>2, <1>3 DEF Last
  <2>11. d[n] = space /\ d[n + 1] = line[n]
    <3>1. n \in 1 .. n
      BY <2>2
    <3> QED  BY <2>7, <2>9, <2>10, <3>1
  <2>12. \A k \in 1 .. n - 1 : d[k] = line[k]
    <3>1. \A k \in 1 .. n - 1 : k \in 1 .. m /\ k \in 1 .. n
      BY <2>2
    <3> QED  BY <2>4, <2>7, <2>9, <3>1
  <2>13. \A k \in n + 1 .. n + 1 : d[k] = line[k - 1]
    <3>1. \A k \in n + 1 .. n + 1 : k = n + 1 /\ k - 1 = n
      OBVIOUS
    <3> QED  BY <2>11, <3>1
  <2>14. n \in 1 .. n + 1
    BY <2>2
  <2>15. SpacedAt(d, line, n)
    BY <1>1, <1>2, <2>9, <2>11, <2>12, <2>13, <2>14 DEF SpacedAt
  <2> QED  BY <2>5, <2>6, <2>8, <2>15
<1>4. CASE ~(line # <<>> /\ Last(line) = ",")
  <2>1. convertalias(line) = Append(line, space)
    BY <1>2, <1>4 DEF convertalias, Blank
  <2>2. PICK d : d = Append(line, space)
    OBVIOUS
  <2>3. /\ Len(d) = n + 1 /\ DOMAIN d = 1 .. n + 1 /\ d[n + 1] = space
        /\ \A k \in 1 .. n : d[k] = line[k]
    <3>1. /\ Append(line, space) \in Seq(Chars) /\ Len(Append(line, space)) = n + 1
          /\ DOMAIN Append(line, space) = 1 .. n + 1 /\ Append(line, space)[n + 1] = space
          /\ \A k \in 1 .. n : Append(line, space)[k] = line[k]
      BY <1>1, OneMore
    <3> QED  BY <2>2, <3>1, Zenon
  <2>4. PICK p \in Nat : p = n + 1
    OBVIOUS
  <2>5. p \in 1 .. n + 1 /\ \A k \in 1 .. p - 1 : k \in 1 .. n
    BY <2>4
  <2>6. \A k \in p + 1 .. n + 1 : d[k] = line[k - 1]
    BY <2>4
  <2>7. SpacedAt(d, line, p)
    BY <1>1, <1>2, <2>3, <2>4, <2>5, <2>6 DEF SpacedAt
  <2> QED  BY <2>1, <2>2, <2>7
<1> QED  BY <1>3, <1>4

\* A line without a "(" is its own group, with its commas as pipes.
LEMMA NoOpenChanged ==
  ASSUME NEW d \in Seq(Chars), Len(d) > 0, \A k \in DOMAIN d : d[k] # "("
  PROVE  Changed(d) = CommasAsPipes(d)
<1>1. PICK n : n = Len(d) /\ n \in Nat \ {0} /\ DOMAIN d = 1 .. n
  BY LenProperties
<1>2. \A k \in 1 .. n : d[k] # "("
  BY <1>1
<1>3. Right(d) = n
  <2>1. ASSUME NEW k \in 1 .. n, d[k] = ")", Depth(d, k) = 0 PROVE FALSE
    <3>1. PICK j \in 1 .. k : d[j] = "("
      BY <2>1, ClosesOne, k \in Nat \ {0}
    <3>2. j \in 1 .. n
      BY <1>1
    <3> QED  BY <1>2, <3>1, <3>2
  <2>2. {k \in DOMAIN d : d[k] = ")" /\ Depth(d, k) = 0} = {}
    BY <1>1, <2>1
  <2> QED  BY <1>1, <2>2 DEF Right, FirstOf
<1>4. Left(d) = 1
  <2>1. {k \in 1 .. n : d[k] = "(" /\ Depth(d, k - 1) = 0} = {}
    BY <1>2
  <2> QED  BY <1>3, <2>1 DEF Left, FirstOf
<1>5. Many(d, n, "(") = 0
  <2>1. {i \in 1 .. n : d[i] = "("} = {}
    BY <1>2
  <2>2. Many(d, n, "(") = Cardinality({})
    BY <2>1 DEF Many
  <2> QED  BY <2>2, FS_EmptySet
<1>6. ~CutShort(d)
  BY <1>3, <1>5 DEF CutShort
<1>7. Before(d) = <<>> /\ After(d) = <<>>
  BY <1>1, <1>3, <1>4 DEF Before, After
<1>8. <<>> # Fault
  BY DEF Fault
<1>9. Inner(d) = CommasAsPipes(d)
  <2>1. ~(Many(d, Right(d), "(") > 0)
    BY <1>3, <1>5
  <2> QED  BY <2>1, Zenon DEF Inner, CommasAsPipes
<1>10. CommasAsPipes(d) \o <<>> \o <<>> = CommasAsPipes(d)
  <2>1. CommasAsPipes(d) \in Seq(Chars)
    BY <1>9, InnerIsLine
  <2> QED  BY <2>1, ConcatEmptySeq
<1> QED  BY <1>6, <1>7, <1>8, <1>9, <1>10 DEF Changed

LEMMA PipesAreChars ==
  ASSUME NEW line \in Seq(Chars)
  PROVE  /\ CommasAsPipes(line) \in Seq(Chars) /\ Len(CommasAsPipes(line)) = Len(line)
         /\ DOMAIN CommasAsPipes(line) = DOMAIN line
<1>1. PICK n \in Nat : n = Len(line) /\ DOMAIN line = 1 .. n
  BY LenProperties
<1>2. PICK e : e = CommasAsPipes(line)
  OBVIOUS
<1>3. "|" \in Chars /\ \A k \in 1 .. n : line[k] \in Chars
  BY <1>1, ElementOfSeq DEF Chars
<1>4. e \in [1 .. n -> Chars]
  BY <1>1, <1>2, <1>3 DEF CommasAsPipes
<1>5. e \in Seq(Chars) /\ Len(e) = n /\ DOMAIN e = 1 .. n
  BY <1>4
<1> QED  BY <1>1, <1>2, <1>5

LEMMA FlatSequence ==
  ASSUME NEW d \in Seq(Chars), Len(d) > 0, Flat(d)
  PROVE  changesequence(d) = CommasAsPipes(d)
<1>1. PICK n \in Nat : n = Len(d) + 1
  BY LenProperties
<1>2. PICK f : /\ f[n] = changesequence(d) /\ f[0] = d
               /\ \A k \in 1 .. n : f[k] = Stage("groups", d, k, f[k - 1])
  BY <1>1, GroupsAre, StagesAre, LenProperties
<1>3. PICK e : e = CommasAsPipes(d)
  OBVIOUS
<1>4. e \in Seq(Chars) /\ DOMAIN e = DOMAIN d
  BY <1>3, PipesAreChars
<1>5. {"(", ","} \cap ToSet(e) = {}
  <2>1. \A k \in DOMAIN d : e[k] \notin {"(", ","}
    BY <1>3 DEF CommasAsPipes, Flat
  <2> QED  BY <1>4, <2>1 DEF ToSet
<1>6. Changed(d) = e
  <2>1. \A k \in DOMAIN d : d[k] # "("
    BY DEF Flat
  <2> QED  BY <1>3, <2>1, NoOpenChanged
<1>7. PICK K : K = {k \in 0 .. n : k = 0 \/ f[k] = e}
  OBVIOUS
<1>8. ASSUME NEW k \in 1 .. n, k - 1 \in K PROVE k \in K
  <2>1. f[k] = IF {"(", ","} \cap ToSet(f[k - 1]) = {} /\ k > 1 THEN f[k - 1] ELSE Changed(f[k - 1])
    BY <1>2 DEF Stage
  <2>2. CASE k = 1
    <3>1. f[k - 1] = d /\ ~(k > 1)
      BY <1>2, <2>2
    <3> QED  BY <1>6, <1>7, <2>1, <3>1
  <2>3. CASE k > 1
    <3>1. k - 1 # 0
      BY <2>3
    <3>2. f[k - 1] = e
      BY <1>7, <1>8, <3>1
    <3>3. f[k] = e
      BY <1>5, <2>1, <2>3, <3>2
    <3> QED  BY <1>7, <3>3
  <2>4. k = 1 \/ k > 1
    OBVIOUS
  <2> QED  BY <2>2, <2>3, <2>4
<1>9. 0 \in K
  BY <1>1, <1>7
<1>10. n \in K
  BY <1>8, <1>9, Climb, Zenon
<1>11. n # 0
  BY <1>1, LenProperties
<1> QED  BY <1>2, <1>3, <1>7, <1>10, <1>11

LEMMA PipesSpaced ==
  ASSUME NEW line \in Seq(Chars), NEW d \in Seq(Chars), NEW p \in Nat, SpacedAt(d, line, p)
  PROVE  SpacedAt(CommasAsPipes(d), CommasAsPipes(line), p)
<1>1. PICK n \in Nat : n = Len(line) /\ DOMAIN line = 1 .. n
  BY LenProperties
<1>2. /\ Len(d) = n + 1 /\ DOMAIN d = 1 .. n + 1 /\ p \in 1 .. n + 1 /\ d[p] = Blank
      /\ \A k \in 1 .. p - 1 : d[k] = line[k]
      /\ \A k \in p + 1 .. n + 1 : d[k] = line[k - 1]
  BY <1>1 DEF SpacedAt
<1>3. PICK e, l : e = CommasAsPipes(d) /\ l = CommasAsPipes(line)
  OBVIOUS
<1>4. Len(e) = n + 1 /\ DOMAIN e = 1 .. n + 1 /\ Len(l) = n
  BY <1>1, <1>2, <1>3, PipesAreChars
<1>5. /\ \A k \in 1 .. n + 1 : e[k] = IF d[k] = "," THEN "|" ELSE d[k]
      /\ \A k \in 1 .. n : l[k] = IF line[k] = "," THEN "|" ELSE line[k]
  BY <1>1, <1>2, <1>3 DEF CommasAsPipes
<1>6. e[p] = Blank
  <2>1. Blank # ","
    BY DEF Blank
  <2> QED  BY <1>2, <1>5, <2>1
<1>7. ASSUME NEW k \in 1 .. p - 1 PROVE e[k] = l[k]
  <2>1. k \in 1 .. n /\ k \in 1 .. n + 1
    BY <1>2
  <2> QED  BY <1>2, <1>5, <2>1
<1>8. ASSUME NEW k \in p + 1 .. n + 1 PROVE e[k] = l[k - 1]
  <2>1. k - 1 \in 1 .. n /\ k \in 1 .. n + 1
    BY <1>2
  <2> QED  BY <1>2, <1>5, <2>1
<1>9. SpacedAt(e, l, p)
  BY <1>2, <1>4, <1>6, <1>7, <1>8 DEF SpacedAt
<1> QED  BY <1>3, <1>9

\* v is the line up to its place l.
UpTo(v, line, l) == v \in Seq(Chars) /\ Len(v) = l /\ \A i \in 1 .. l : v[i] = line[i]

LEMMA OneFurther ==
  ASSUME NEW line \in Seq(Chars), NEW l \in Nat, l < Len(line), NEW v, UpTo(v, line, l),
         NEW c, c = line[l + 1]
  PROVE  UpTo(Append(v, c), line, l + 1)
<1>1. PICK n \in Nat : n = Len(line)
  BY LenProperties
<1>2. l + 1 \in 1 .. Len(line)
  BY <1>1
<1>3. c \in Chars
  BY <1>2, ElementOfSeq
<1>4. /\ Append(v, c) \in Seq(Chars) /\ Len(Append(v, c)) = l + 1
      /\ Append(v, c)[l + 1] = c /\ \A k \in 1 .. l : Append(v, c)[k] = v[k]
  BY <1>3, OneMore DEF UpTo
<1>5. ASSUME NEW i \in 1 .. l + 1 PROVE Append(v, c)[i] = line[i]
  <2>1. i \in 1 .. l \/ i = l + 1
    OBVIOUS
  <2> QED  BY <1>4, <2>1 DEF UpTo
<1> QED  BY <1>4, <1>5 DEF UpTo

LEMMA Squeezed ==
  ASSUME NEW line \in Seq(Chars), NEW d \in Seq(Chars), NEW p \in Nat, SpacedAt(d, line, p),
         \A k \in DOMAIN line : line[k] # Blank
  PROVE  Unspaced(d) = line
<1>1. PICK n \in Nat : n = Len(line) /\ DOMAIN line = 1 .. n
  BY LenProperties
<1>2. /\ Len(d) = n + 1 /\ DOMAIN d = 1 .. n + 1 /\ p \in 1 .. n + 1 /\ d[p] = Blank
      /\ \A k \in 1 .. p - 1 : d[k] = line[k]
      /\ \A k \in p + 1 .. n + 1 : d[k] = line[k - 1]
  BY <1>1 DEF SpacedAt
<1>3. PICK m \in Nat : m = n + 1
  OBVIOUS
<1>4. PICK f : /\ f[m] = Unspaced(d) /\ f[0] = <<>>
               /\ \A k \in 1 .. m : f[k] = Stage("spaces", d, k, f[k - 1])
  <2>1. Len(d) \in Nat /\ Len(d) = m
    BY <1>2, <1>3
  <2>2. Unspaced(d) = StageOf("spaces", d, <<>>, m)
    BY <2>1, SpacesAre, Zenon
  <2>3. PICK g : /\ g[m] = StageOf("spaces", d, <<>>, m) /\ g[0] = <<>>
                 /\ \A k \in 1 .. m : g[k] = Stage("spaces", d, k, g[k - 1])
    BY StagesAre
  <2> QED  BY <2>2, <2>3, Zenon
<1>5. ASSUME NEW k \in 1 .. m
      PROVE  f[k] = IF d[k] = Blank THEN f[k - 1] ELSE Append(f[k - 1], d[k])
  BY <1>4 DEF Stage, Blank
<1>6. PICK K : K = {k \in 0 .. m : UpTo(f[k], line, IF k < p THEN k ELSE k - 1)}
  OBVIOUS
<1>7. ASSUME NEW k \in 1 .. m, k - 1 \in K PROVE k \in K
  <2>0. k \in 0 .. m /\ k \in Nat /\ p \in Nat
    BY <1>2, <1>3
  <2>1. CASE k < p
    <3>1. PICK l \in Nat : l = k - 1 /\ l < Len(line) /\ l + 1 = k
      BY <1>1, <1>2, <2>1
    <3>2. UpTo(f[k - 1], line, l)
      BY <1>6, <1>7, <2>0, <2>1, <3>1
    <3>3. k \in 1 .. p - 1 /\ k \in DOMAIN line
      BY <1>1, <1>2, <2>1
    <3>4. d[k] = line[l + 1] /\ d[k] # Blank
      BY <1>2, <3>1, <3>3
    <3>5. UpTo(Append(f[k - 1], d[k]), line, l + 1)
      BY <3>1, <3>2, <3>4, OneFurther
    <3>6. f[k] = Append(f[k - 1], d[k])
      BY <1>5, <3>4
    <3> QED  BY <1>6, <2>0, <2>1, <3>1, <3>5, <3>6
  <2>2. CASE k = p
    <3>1. f[k] = f[k - 1]
      BY <1>2, <1>5, <2>2
    <3>2. UpTo(f[k - 1], line, k - 1)
      <4>1. k - 1 < p
        BY <2>0, <2>2
      <4> QED  BY <1>6, <1>7, <4>1
    <3>3. ~(k < p)
      BY <2>0, <2>2
    <3> QED  BY <1>6, <2>0, <3>1, <3>2, <3>3
  <2>3. CASE k > p
    <3>1. PICK l \in Nat : l = k - 2 /\ l < Len(line) /\ l + 1 = k - 1
      BY <1>1, <1>2, <1>3, <2>3
    <3>2. UpTo(f[k - 1], line, l)
      <4>1. ~(k - 1 < p) /\ (k - 1) - 1 = l
        BY <2>0, <2>3, <3>1
      <4> QED  BY <1>6, <1>7, <4>1
    <3>3. k \in p + 1 .. n + 1 /\ k - 1 \in DOMAIN line
      BY <1>1, <1>2, <1>3, <2>3
    <3>4. d[k] = line[l + 1] /\ d[k] # Blank
      BY <1>2, <3>1, <3>3
    <3>5. UpTo(Append(f[k - 1], d[k]), line, l + 1)
      BY <3>1, <3>2, <3>4, OneFurther
    <3>6. f[k] = Append(f[k - 1], d[k])
      BY <1>5, <3>4
    <3>7. ~(k < p)
      BY <2>0, <2>3
    <3> QED  BY <1>6, <2>0, <3>1, <3>5, <3>6, <3>7
  <2> QED  BY <2>0, <2>1, <2>2, <2>3
<1>8. 0 \in K
  <2>1. 0 < p /\ 0 \in 0 .. m
    BY <1>2
  <2>2. UpTo(f[0], line, 0)
    <3>1. <<>> \in Seq(Chars) /\ Len(<<>>) = 0
      BY MarksAreLines
    <3>2. \A i \in 1 .. 0 : FALSE
      OBVIOUS
    <3> QED  BY <1>4, <3>1, <3>2 DEF UpTo
  <2> QED  BY <1>6, <2>1, <2>2
<1>9. m \in K
  BY <1>7, <1>8, Climb, Zenon
<1>10. UpTo(f[m], line, n)
  <2>1. ~(m < p) /\ m - 1 = n
    BY <1>2, <1>3
  <2> QED  BY <1>6, <1>9, <2>1
<1>11. f[m] = line
  BY <1>1, <1>10, SeqEqual DEF UpTo
<1> QED  BY <1>4, <1>11

\* changesequence and the space of convertalias leave a line without parentheses
\* as it was typed, except that a "," is a pipe.
THEOREM CommasArePipes ==
  \A line \in Lines : Flat(line) => Linear(line) = CommasAsPipes(line)
<1> SUFFICES ASSUME NEW line \in Lines, Flat(line)
             PROVE  Linear(line) = CommasAsPipes(line)
  OBVIOUS
<1>1. line \in Seq(Words \cup {"<", ">", "&", "|", ";", "(", ")", ","})
  BY LinesAssumption
<1>2. line \in Seq(Chars)
  <2>1. Words \cup {"<", ">", "&", "|", ";", "(", ")", ","} \subseteq Chars
    BY DEF Chars
  <2> QED  BY <1>1, <2>1, SeqMonotonic, Zenon
<1>3. PICK n \in Nat : n = Len(line) /\ DOMAIN line = 1 .. n
  BY <1>2, LenProperties
<1>4. PICK d : d = convertalias(line) /\ d \in Seq(Chars)
  BY <1>2, ConvertsToLine
<1>5. PICK p \in Nat : SpacedAt(d, line, p)
  BY <1>2, <1>4, ConvertSpaces
<1>6. /\ Len(d) = n + 1 /\ DOMAIN d = 1 .. n + 1 /\ p \in 1 .. n + 1 /\ d[p] = Blank
      /\ \A k \in 1 .. p - 1 : d[k] = line[k]
      /\ \A k \in p + 1 .. n + 1 : d[k] = line[k - 1]
  BY <1>3, <1>5 DEF SpacedAt
<1>7. Flat(d)
  <2>1. ASSUME NEW k \in 1 .. n + 1 PROVE d[k] \notin {"(", ")"}
    <3>1. CASE k \in 1 .. p - 1
      <4>1. k \in 1 .. n
        BY <1>6, <3>1
      <4> QED  BY <1>3, <1>6, <3>1, <4>1 DEF Flat
    <3>2. CASE k = p
      <4>1. Blank \notin {"(", ")"}
        BY DEF Blank
      <4> QED  BY <1>6, <3>2, <4>1
    <3>3. CASE k \in p + 1 .. n + 1
      <4>1. k - 1 \in 1 .. n
        BY <1>6, <3>3
      <4> QED  BY <1>3, <1>6, <3>3, <4>1 DEF Flat
    <3>4. k \in 1 .. p - 1 \/ k = p \/ k \in p + 1 .. n + 1
      BY <1>6
    <3> QED  BY <3>1, <3>2, <3>3, <3>4
  <2> QED  BY <1>6, <2>1 DEF Flat
<1>8. changesequence(d) = CommasAsPipes(d)
  BY <1>4, <1>6, <1>7, FlatSequence
<1>9. SpacedAt(CommasAsPipes(d), CommasAsPipes(line), p)
  BY <1>2, <1>4, <1>5, PipesSpaced
<1>10. CommasAsPipes(line) \in Seq(Chars) /\ CommasAsPipes(d) \in Seq(Chars)
       /\ DOMAIN CommasAsPipes(line) = DOMAIN line
  BY <1>2, <1>4, PipesAreChars
<1>11. \A k \in DOMAIN line : CommasAsPipes(line)[k] # Blank
  <2>1. Blank \notin Words \cup {"<", ">", "&", "|", ";", "(", ")", ","}
    BY LettersAssumption DEF Blank
  <2>2. \A k \in 1 .. Len(line) : line[k] \in Words \cup {"<", ">", "&", "|", ";", "(", ")", ","}
    BY <1>1, ElementOfSeq
  <2>3. \A k \in DOMAIN line : line[k] # Blank
    BY <1>3, <2>1, <2>2
  <2>4. Blank # "|"
    BY DEF Blank
  <2> QED  BY <2>3, <2>4 DEF CommasAsPipes
<1>12. Unspaced(CommasAsPipes(d)) = CommasAsPipes(line)
  BY <1>9, <1>10, <1>11, Squeezed
<1> QED  BY <1>4, <1>8, <1>12 DEF Linear

\* What main does with a line without parentheses: it is never taken for
\* unmatched, and it is parsed exactly when, with its commas as pipes, it is well
\* formed; so nothing is lost or added before the parser gets it.
THEOREM FlatLinesParsed ==
  \A line \in Lines : Flat(line) =>
     line \notin Unmatched /\ (Parsed[line] # Error <=> WellFormed(CommasAsPipes(line)))
<1> SUFFICES ASSUME NEW line \in Lines, Flat(line)
             PROVE  /\ line \notin Unmatched
                    /\ Parsed[line] # Error <=> WellFormed(CommasAsPipes(line))
  OBVIOUS
<1>1. line \in Seq(Words \cup {"<", ">", "&", "|", ";", "(", ")", ","})
  BY LinesAssumption
<1>2. PICK n \in Nat : n = Len(line) /\ DOMAIN line = 1 .. n
  BY <1>1, LenProperties
<1>3. \A k \in 1 .. n : line[k] # "(" /\ line[k] # ")"
  BY <1>2 DEF Flat
<1>4. ASSUME NEW k \in 0 .. n PROVE Depth(line, k) = 0
  <2>1. {i \in 1 .. k : line[i] = "("} = {} /\ {i \in 1 .. k : line[i] = ")"} = {}
    BY <1>3
  <2>2. Many(line, k, "(") = 0 /\ Many(line, k, ")") = 0
    BY <2>1, FS_EmptySet DEF Many
  <2> QED  BY <2>2 DEF Depth
<1>5. line \notin Unmatched
  <2>1. \A k \in 1 .. n : k \in 0 .. n
    OBVIOUS
  <2>2. n \in 0 .. n
    OBVIOUS
  <2>3. validateparenthes(line)
    BY <1>2, <1>4, <2>1, <2>2 DEF validateparenthes
  <2> QED  BY <2>3 DEF Unmatched
<1>6. PICK l : l = CommasAsPipes(line)
  OBVIOUS
<1>7. l \in Seq(Tokens)
  <2>1. ASSUME NEW k \in 1 .. n PROVE line[k] \in Tokens \cup {","}
    <3>1. line[k] \in Words \cup {"<", ">", "&", "|", ";", "(", ")", ","}
      BY <1>1, <1>2, ElementOfSeq
    <3> QED  BY <1>3, <3>1 DEF Tokens
  <2>2. "|" \in Tokens
    BY DEF Tokens
  <2>3. l \in [1 .. n -> Tokens]
    BY <1>2, <1>6, <2>1, <2>2 DEF CommasAsPipes
  <2> QED  BY <2>3
<1>8. Linear(line) = l
  BY <1>6, CommasArePipes
<1>9. Parsed[line] = parsecmd(l)
  BY <1>5, <1>8 DEF Parsed
<1>10. parsecmd(l) # Error <=> WellFormed(l)
  BY <1>7, AcceptsWellFormed
<1> QED  BY <1>5, <1>6, <1>9, <1>10

-----------------------------------------------------------------------------
\* changesequence stops at such a line.
Settled(d) == {"(", ","} \cap ToSet(d) = {}

LEMMA SettledIs ==
  ASSUME NEW d
  PROVE  Settled(d) <=> \A k \in DOMAIN d : d[k] \notin {"(", ","}
BY DEF Settled, ToSet

LEMMA PipesSettle ==
  ASSUME NEW d, \A k \in DOMAIN d : d[k] # "("
  PROVE  Settled(CommasAsPipes(d))
<1>1. PICK e : e = CommasAsPipes(d)
  OBVIOUS
<1>2. DOMAIN e = DOMAIN d /\ \A k \in DOMAIN d : e[k] = IF d[k] = "," THEN "|" ELSE d[k]
  BY <1>1 DEF CommasAsPipes
<1>3. \A k \in DOMAIN d : e[k] \notin {"(", ","}
  BY <1>2
<1> QED  BY <1>1, <1>2, <1>3, SettledIs

LEMMA FaultSettles == Settled(Fault)
<1>1. PICK e : e = Fault
  OBVIOUS
<1>2. PICK x : x = "fault" /\ x \notin {"(", ","}
  <2>1. "fault" # "(" /\ "fault" # ","
    OBVIOUS
  <2>2. "fault" \notin {"(", ","}
    BY <2>1, Zenon
  <2> QED  BY <2>2, Zenon
<1>3. DOMAIN e = {1} /\ e[1] = x
  <2>1. DOMAIN <<x>> = 1 .. 1 /\ <<x>>[1] = x
    OBVIOUS
  <2>2. 1 .. 1 = {1}
    OBVIOUS
  <2>3. e = <<x>>
    BY <1>1, <1>2, Zenon DEF Fault
  <2> QED  BY <2>1, <2>2, <2>3, Zenon
<1>4. \A k \in DOMAIN e : e[k] \notin {"(", ","}
  BY <1>2, <1>3, Zenon
<1> QED  BY <1>1, <1>4, SettledIs, Zenon

\* A round settles the line or takes from its weight.
LEMMA RoundSettles ==
  ASSUME NEW d \in Seq(Chars), Len(d) > 0
  PROVE  Settled(Changed(d)) \/ Weight(Changed(d)) + 2 <= Weight(d)
<1>1. CASE \A k \in DOMAIN d : d[k] # "("
  BY <1>1, NoOpenChanged, PipesSettle
<1>2. CASE \E k \in DOMAIN d : d[k] = "("
  <2>1. CASE Changed(d) = Fault
    BY <2>1, FaultSettles
  <2>2. CASE Changed(d) # Fault
    BY <1>2, <2>2, WeightFalls
  <2> QED  BY <2>1, <2>2
<1> QED  BY <1>1, <1>2

LEMMA EmptySettled ==
  ASSUME NEW d \in Seq(Chars), Len(d) = 0
  PROVE  Settled(d)
<1>1. DOMAIN d = {}
  <2>1. DOMAIN d = 1 .. 0
    BY LenProperties
  <2>2. 1 .. 0 = {}
    OBVIOUS
  <2> QED  BY <2>1, <2>2, Zenon
<1>2. \A k \in DOMAIN d : d[k] \notin {"(", ","}
  BY <1>1, Zenon
<1> QED  BY <1>2, SettledIs, Zenon

LEMMA SequenceSettles ==
  ASSUME NEW d \in Seq(Chars), Len(d) > 0, Weight(d) <= 2 * Len(d) + 1
  PROVE  Settled(changesequence(d))
<1>1. PICK l \in Nat, n \in Nat : l = Len(d) /\ n = l + 1
  BY LenProperties
<1>2. PICK f : /\ f[n] = changesequence(d) /\ f[0] = d
               /\ \A k \in 1 .. n : f[k] = Stage("groups", d, k, f[k - 1])
  BY <1>1, GroupsAre, StagesAre, LenProperties
<1>3. \A k \in 1 .. n : f[k] = IF Settled(f[k - 1]) /\ k > 1 THEN f[k - 1] ELSE Changed(f[k - 1])
  BY <1>2 DEF Stage, Settled
<1>4. PICK K : K = {k \in 0 .. n :
                      /\ f[k] \in Seq(Chars)
                      /\ (k > 0 /\ Settled(f[k])) \/ Weight(f[k]) + 2 * k <= 2 * l + 1}
  OBVIOUS
<1>5. ASSUME NEW k \in 1 .. n, k - 1 \in K PROVE k \in K
  <2>1. PICK e \in Seq(Chars) : e = f[k - 1]
    BY <1>4, <1>5
  <2>2. PICK g \in Seq(Chars) : g = Changed(e)
    BY ChangesToLine
  <2>3. CASE Settled(e) /\ k > 1
    <3>1. f[k] = e
      BY <1>3, <2>1, <2>3
    <3> QED  BY <1>4, <2>3, <3>1
  <2>4. CASE ~(Settled(e) /\ k > 1)
    <3>1. f[k] = g
      BY <1>3, <2>1, <2>2, <2>4
    <3>2. Len(e) > 0
      <4>1. CASE k = 1
        BY <1>2, <2>1, <4>1
      <4>2. CASE k > 1
        <5>1. Len(e) # 0
          BY <2>4, <4>2, EmptySettled
        <5>2. Len(e) \in Nat
          BY LenProperties
        <5> QED  BY <5>1, <5>2
      <4> QED  BY <4>1, <4>2
    <3>3. Settled(g) \/ Weight(g) + 2 <= Weight(e)
      BY <2>2, <3>2, RoundSettles
    <3>4. PICK a \in Nat, b \in Nat : a = Weight(e) /\ b = Weight(g)
      BY WeightIs
    <3>5. a + 2 * (k - 1) <= 2 * l + 1
      <4>1. ~(k - 1 > 0 /\ Settled(e))
        BY <2>4
      <4> QED  BY <1>4, <1>5, <2>1, <3>4, <4>1
    <3>6. Settled(g) \/ b + 2 * k <= 2 * l + 1
      BY <3>3, <3>4, <3>5
    <3> QED  BY <1>4, <3>1, <3>4, <3>6
  <2> QED  BY <2>3, <2>4
<1>6. 0 \in K
  <2>1. Weight(f[0]) + 2 * 0 <= 2 * l + 1
    BY <1>1, <1>2, WeightIs
  <2> QED  BY <1>2, <1>4, <2>1
<1>7. n \in K
  BY <1>5, <1>6, Climb, Zenon
<1>8. ~(Weight(f[n]) + 2 * n <= 2 * l + 1)
  <2>1. Weight(f[n]) \in Nat
    BY <1>4, <1>7, WeightIs
  <2> QED  BY <1>1, <2>1
<1> QED  BY <1>2, <1>4, <1>7, <1>8

\* A line with its parentheses matched has at most half as many "(" as characters.
LEMMA MatchedHalf ==
  ASSUME NEW line \in Seq(Chars), validateparenthes(line)
  PROVE  2 * Count(line, "(") <= Len(line)
<1>1. PICK n \in Nat : n = Len(line)
  BY LenProperties
<1>2. PICK o, c : o = "(" /\ c = ")" /\ o # c
  OBVIOUS
<1>3. PICK S, R : S = Ats(line, 1, n, o) /\ R = Ats(line, 1, n, c)
  OBVIOUS
<1>4. 1 \in Int /\ n \in Int
  OBVIOUS
<1>5. IsFiniteSet(S) /\ IsFiniteSet(R) /\ Cardinality(S) \in Nat /\ Cardinality(R) \in Nat
  BY <1>3, <1>4, AtsFinite
<1>6. Count(line, o) = Cardinality(S)
  BY <1>1, <1>3, CountIs
<1>7. Cardinality(S) = Cardinality(R)
  <2>1. Depth(line, n) = 0
    BY <1>1 DEF validateparenthes
  <2>2. Many(line, n, o) = Cardinality(S) /\ Many(line, n, c) = Cardinality(R)
    BY <1>3, <1>4, ManyIs
  <2>3. Cardinality(S) - Cardinality(R) = 0
    BY <1>2, <2>1, <2>2, Zenon DEF Depth
  <2> QED  BY <1>5, <2>3
<1>8. S \cap R = {} /\ S \cup R \subseteq 1 .. n
  BY <1>2, <1>3 DEF Ats
<1>9. Cardinality(S \cup R) = Cardinality(S) + Cardinality(R) - Cardinality(S \cap R)
  BY <1>5, FS_Union
<1>10. Cardinality({}) = 0
  BY FS_EmptySet
<1>11. IsFiniteSet(1 .. n) /\ Cardinality(1 .. n) = n
  BY <1>4, FS_Interval
<1>12. Cardinality(S \cup R) <= n
  BY <1>8, <1>11, FS_Subset
<1>13. PICK a \in Nat : a = Cardinality(S)
  BY <1>5
<1>14. Cardinality(S \cup R) = a + a - 0
  BY <1>7, <1>8, <1>9, <1>10, <1>13, Zenon
<1>15. 2 * a <= n
  BY <1>12, <1>14
<1> QED  BY <1>1, <1>2, <1>6, <1>13, <1>15, Zenon

LEMMA FirstWeight ==
  ASSUME NEW line \in Seq(Chars), validateparenthes(line)
  PROVE  /\ Len(convertalias(line)) = Len(line) + 1
         /\ Weight(convertalias(line)) <= 2 * Len(line) + 1
<1>1. PICK n \in Nat : n = Len(line)
  BY LenProperties
<1>2. PICK d \in Seq(Chars) : d = convertalias(line)
  BY ConvertsToLine
<1>3. Len(d) = n + 1
  <2>1. \E p \in Nat : SpacedAt(d, line, p)
    BY <1>2, ConvertSpaces
  <2> QED  BY <1>1, <2>1 DEF SpacedAt
<1>4. PICK c : c = "("
  OBVIOUS
<1>5. PICK x \in Chars, y \in Chars : x = Blank /\ y = "," /\ x # c /\ y # c
  <2>1. Blank \in Chars /\ "," \in Chars
    BY DEF Chars, Blank
  <2>2. Blank # "(" /\ "," # "("
    BY DEF Blank
  <2> QED  BY <1>4, <2>1, <2>2, Zenon
<1>6. PICK a \in Nat : a = Count(line, c)
  BY CountIs, LenProperties
<1>7. Count(<<x>>, c) = 0
  BY <1>5, CountMark
<1>8. Count(d, c) <= a
  <2>1. CASE line # <<>> /\ Last(line) = ","
    <3>1. d = Front(line) \o <<x, y>>
      BY <1>2, <1>5, <2>1, Zenon DEF convertalias, Blank
    <3>2. PICK e : e = Front(line)
      OBVIOUS
    <3>3. n # 0
      BY <1>1, <2>1, EmptySeq
    <3>4. PICK m \in Nat : m = n - 1
      BY <3>3, n - 1 \in Nat
    <3>5. e = SubSeq(line, 1, m)
      BY <1>1, <3>2, <3>4 DEF Front
    <3>6. e \in Seq(Chars)
      <4>1. 1 \in Nat \ {0} /\ m \in Int /\ m <= Len(line)
        BY <1>1, <3>4
      <4> QED  BY <3>5, <4>1, PartIsLine, Zenon
    <3>7. Count(e, c) <= a
      <4>1. PICK i \in Nat \ {0} : i = 1
        OBVIOUS
      <4>2. i <= n + 1 /\ n <= Len(line) /\ i \in Nat /\ i <= i /\ m <= n
        BY <1>1, <3>4, <4>1
      <4>3. Count(SubSeq(line, i, m), c) <= Cardinality(Ats(line, i, n, c))
        BY <4>2, PartCounts
      <4>4. Count(line, c) = Cardinality(Ats(line, 1, n, c))
        BY <1>1, CountIs
      <4> QED  BY <1>6, <3>5, <4>1, <4>3, <4>4, Zenon
    <3>8. PICK t : t = <<x, y>>
      OBVIOUS
    <3>9. t \in Seq(Chars) /\ Len(t) = 2 /\ t[1] = x /\ t[2] = y
      <4>1. <<x, y>> \in Seq(Chars)
        OBVIOUS
      <4>2. Len(<<x, y>>) = 2 /\ <<x, y>>[1] = x /\ <<x, y>>[2] = y
        OBVIOUS
      <4> QED  BY <3>8, <4>1, <4>2, Zenon
    <3>10. Count(t, c) = 0
      <4>1. PICK l \in Nat : l = 2
        OBVIOUS
      <4>2. \A k \in 1 .. l : k = 1 \/ k = 2
        BY <4>1
      <4>3. \A k \in 1 .. l : t[k] # c
        BY <1>5, <3>9, <4>2
      <4> QED  BY <3>9, <4>1, <4>3, CountNone
    <3>11. Count(e \o t, c) = Count(e, c) + Count(t, c)
      BY <3>6, <3>9, CountConcat
    <3>12. Count(e, c) \in Nat
      BY <3>6, CountIs, LenProperties
    <3>13. d = e \o t
      BY <3>1, <3>2, <3>8, Zenon
    <3> QED  BY <3>7, <3>10, <3>11, <3>12, <3>13
  <2>2. CASE ~(line # <<>> /\ Last(line) = ",")
    <3>1. d = Append(line, x)
      BY <1>2, <1>5, <2>2, Zenon DEF convertalias, Blank
    <3>2. Append(line, x) = line \o <<x>>
      BY AppendIsConcat
    <3>3. PICK t : t = <<x>> /\ t \in Seq(Chars)
      <4>1. <<x>> \in Seq(Chars)
        OBVIOUS
      <4> QED  BY <4>1, Zenon
    <3>4. Count(line \o t, c) = Count(line, c) + Count(t, c)
      BY <3>3, CountConcat
    <3>5. d = line \o t
      BY <3>1, <3>2, <3>3, Zenon
    <3> QED  BY <1>6, <1>7, <3>3, <3>4, <3>5
  <2> QED  BY <2>1, <2>2
<1>9. 2 * a <= n
  BY <1>1, <1>4, <1>6, MatchedHalf
<1>10. PICK b \in Nat : b = Count(d, c)
  BY CountIs, LenProperties
<1>11. Weight(d) = 2 * b + (n + 1)
  BY <1>3, <1>4, <1>10, Zenon DEF Weight
<1> QED  BY <1>1, <1>2, <1>3, <1>8, <1>9, <1>10, <1>11

\* changesequence comes to an end: on every line with matched parentheses, which is
\* what main hands it, the rounds allowed above (one more than convertalias left
\* characters) are enough for it to have no "(" and no "," left, which is what it calls
\* itself for; a ")" may be left.
THEOREM GroupsComeToAnEnd ==
  \A line \in Lines \ Unmatched : {"(", ","} \cap ToSet(changesequence(convertalias(line))) = {}
<1> SUFFICES ASSUME NEW line \in Lines, line \notin Unmatched
             PROVE  Settled(changesequence(convertalias(line)))
  BY DEF Settled
<1>1. line \in Seq(Chars)
  <2>1. line \in Seq(Words \cup {"<", ">", "&", "|", ";", "(", ")", ","})
    BY LinesAssumption
  <2>2. Words \cup {"<", ">", "&", "|", ";", "(", ")", ","} \subseteq Chars
    BY DEF Chars
  <2> QED  BY <2>1, <2>2, SeqMonotonic, Zenon
<1>2. validateparenthes(line)
  BY DEF Unmatched
<1>3. PICK d \in Seq(Chars) : d = convertalias(line)
  BY <1>1, ConvertsToLine
<1>4. Len(d) > 0 /\ Weight(d) <= 2 * Len(d) + 1
  <2>1. PICK n \in Nat, w \in Nat : n = Len(line) /\ w = Weight(d)
    BY <1>1, LenProperties, WeightIs
  <2>2. Len(d) = n + 1 /\ w <= 2 * n + 1
    BY <1>1, <1>2, <1>3, <2>1, FirstWeight
  <2> QED  BY <2>1, <2>2
<1> QED  BY <1>3, <1>4, SequenceSettles
=============================================================================

------------------------------ MODULE GroupProofs -----------------------------
(***************************************************************************)
(* Proofs about the group table, for any number of groups, items,          *)
(* processes and names: that the table of GroupMsg stays in order; that    *)
(* numGroups is off from the number of open groups by what the careless    *)
(* callers of GroupDiscipline did; and what the receivers of GroupHistory  *)
(* see, which is the unordered multicast of Multicast.                     *)
(***************************************************************************)
EXTENDS GroupHistory, GroupDiscipline, TLAPS, WellFoundedInduction, FiniteSetTheorems

LEMMA FirstIn ==
  ASSUME NEW S \in SUBSET Nat, S # {}
  PROVE  First(S) \in S /\ \A j \in S : First(S) <= j
<1> DEFINE Below == {0 .. i : i \in S}
<1>1. Below \subseteq FiniteSubsetsOf(Nat) /\ Below # {}
  <2>1. ASSUME NEW i \in S PROVE 0 .. i \in SUBSET Nat /\ IsFiniteSet(0 .. i)
    <3>1. IsFiniteSet(0 .. i)
      BY FS_Interval
    <3> QED  BY <3>1
  <2>2. Below \subseteq FiniteSubsetsOf(Nat)
    BY <2>1, Zenon DEF FiniteSubsetsOf
  <2>3. Below # {}
    OBVIOUS
  <2> QED  BY <2>2, <2>3
<1>2. PICK x \in Below : \A y \in Below : <<y, x>> \notin StrictSubsetOrdering(Nat)
  BY <1>1, FS_StrictSubsetOrderingWellFounded, WFMin
<1>3. PICK i \in S : x = 0 .. i
  OBVIOUS
<1>4. ASSUME NEW j \in S PROVE i <= j
  <2>1. SUFFICES ASSUME j < i PROVE FALSE
    OBVIOUS
  <2>2. 0 .. j \subseteq 0 .. i /\ 0 .. j # 0 .. i
    BY <2>1
  <2>3. 0 .. j \in Below /\ 0 .. j \in SUBSET Nat /\ 0 .. i \in SUBSET Nat
    OBVIOUS
  <2>4. <<0 .. j, 0 .. i>> \in StrictSubsetOrdering(Nat)
    BY <2>2, <2>3 DEF StrictSubsetOrdering
  <2> QED  BY <1>2, <1>3, <2>3, <2>4
<1> QED  BY <1>4 DEF First

-----------------------------------------------------------------------------
\* What appending does to the members of a list.
LEMMA AppendFacts ==
  ASSUME NEW S, NEW s \in Seq(S), NEW e \in S
  PROVE  /\ Append(s, e) \in Seq(S)
         /\ Len(Append(s, e)) = Len(s) + 1
         /\ Elems(Append(s, e)) = Elems(s) \cup {e}
         /\ e \notin Elems(s) /\ Distinct(s) => Distinct(Append(s, e))
<1> DEFINE t == Append(s, e)
<1>1. /\ t \in Seq(S) /\ Len(t) = Len(s) + 1 /\ Len(s) \in Nat
      /\ t[Len(s) + 1] = e /\ \A k \in 1 .. Len(s) : t[k] = s[k]
  OBVIOUS
<1> HIDE DEF t
<1>2. Elems(t) = Elems(s) \cup {e}
  BY <1>1 DEF Elems
<1>3. ASSUME e \notin Elems(s), Distinct(s) PROVE Distinct(t)
  BY <1>1, <1>3 DEF Elems, Distinct
<1> QED  BY <1>1, <1>2, <1>3 DEF t

\* The empty list has no members; a list without members is empty.
LEMMA EmptyFacts ==
  ASSUME NEW S, NEW s \in Seq(S)
  PROVE  Elems(s) = {} <=> s = <<>>
<1>1. s = <<>> => Elems(s) = {}
  BY DEF Elems
<1>2. s # <<>> => s[1] \in Elems(s)
  <2>1. s # <<>> => 1 \in 1 .. Len(s)
    OBVIOUS
  <2> QED  BY <2>1 DEF Elems
<1> QED  BY <1>1, <1>2

\* Marking items deleted keeps their type and leaves none that is live.
LEMMA DeletedFacts ==
  ASSUME NEW items \in [ItemSlots -> Item]
  PROVE  /\ Deleted(items) \in [ItemSlots -> Item]
         /\ \A j \in ItemSlots : Deleted(items)[j].deletedFlag
BY DEF Deleted, Item

\* A list of distinct members of a finite set is no longer than the set, and
\* shorter when a member of the set is not on it.
LEMMA DistinctFits ==
  ASSUME NEW S, IsFiniteSet(S), NEW s \in Seq(S), Distinct(s)
  PROVE  /\ Len(s) <= Cardinality(S)
         /\ \A e \in S : e \notin Elems(s) => Len(s) < Cardinality(S)
<1>1. IsFiniteSet(1 .. Len(s)) /\ Cardinality(1 .. Len(s)) = Len(s)
  <2>1. ASSUME NEW n \in Nat PROVE IsFiniteSet(1 .. n) /\ Cardinality(1 .. n) = n
    BY FS_Interval
  <2> QED  BY <2>1
<1>2. s \in Injection(1 .. Len(s), S)
  BY DEF Distinct, Injection, IsInjective
<1>3. Len(s) <= Cardinality(S) /\ (Len(s) = Cardinality(S) => s \in Surjection(1 .. Len(s), S))
  BY <1>1, <1>2, FS_Injection
<1>4. ASSUME NEW e \in S, e \notin Elems(s) PROVE s \notin Surjection(1 .. Len(s), S)
  BY <1>4 DEF Elems, Surjection
<1>5. Cardinality(S) \in Nat
  BY FS_CardinalityType
<1> QED  BY <1>3, <1>4, <1>5

-----------------------------------------------------------------------------
\* Each way in which a call changes a group keeps the group good.
LEMMA OpenedGood ==
  ASSUME NEW G \in Group, NEW name \in Names
  PROVE  LET H == [group_name |-> name, senders |-> <<>>, receivers |-> <<>>,
                   items |-> Deleted(G.items), openFlag |-> TRUE]
         IN  H \in Group /\ GoodGroup(H)
<1>1. G.items \in [ItemSlots -> Item]
  BY DEF Group
<1> QED  BY <1>1, DeletedFacts, SizesAssumption DEF Group, GoodGroup, Distinct

LEMMA ClosedGood ==
  ASSUME NEW G \in Group, GoodGroup(G)
  PROVE  LET H == [G EXCEPT !.openFlag = FALSE]
         IN  H \in Group /\ GoodGroup(H)
BY DEF Group, GoodGroup

LEMMA RecoveredGood ==
  ASSUME NEW G \in Group, GoodGroup(G)
  PROVE  LET H == [G EXCEPT !.items = Deleted(@), !.openFlag = TRUE]
         IN  H \in Group /\ GoodGroup(H) /\ H.group_name = G.group_name
<1>1. G.items \in [ItemSlots -> Item]
  BY DEF Group
<1> QED  BY <1>1, DeletedFacts DEF Group, GoodGroup

LEMMA SenderAddedGood ==
  ASSUME NEW G \in Group, GoodGroup(G),
         NEW s \in Senders, s \notin Elems(G.senders)
  PROVE  LET H == [G EXCEPT !.senders = Append(@, s)]
         IN  H \in Group /\ GoodGroup(H)
<1>1. /\ Append(G.senders, s) \in Seq(Senders)
      /\ Distinct(Append(G.senders, s))
  BY AppendFacts DEF Group, GoodGroup
<1> QED  BY <1>1 DEF Group, GoodGroup

\* A new receiver makes every item of the group wait for one more reader.
LEMMA ReceiverAddedGood ==
  ASSUME NEW G \in Group, GoodGroup(G), NEW r \in Receivers,
         r \notin Elems(G.receivers), Len(G.receivers) < MAX_RECEIVERS
  PROVE  LET H == [G EXCEPT !.receivers = Append(@, r)]
         IN  H \in Group /\ GoodGroup(H)
<1> DEFINE t == Append(G.receivers, r)
<1>1. /\ t \in Seq(Receivers) /\ Len(t) = Len(G.receivers) + 1
      /\ Elems(t) = Elems(G.receivers) \cup {r} /\ Distinct(t)
  BY AppendFacts DEF Group, GoodGroup
<1> HIDE DEF t
<1>2. ASSUME NEW item \in Item, GoodItem(item, G.receivers)
      PROVE  GoodItem(item, t)
  <2>1. item.readers \in Seq(Receivers) /\ G.receivers \in Seq(Receivers)
    BY DEF Item, Group
  <2>2. Len(item.readers) < Len(t)
    <3>1. CASE G.receivers = <<>>
      <4>1. Elems(G.receivers) = {} /\ Len(G.receivers) = 0
        BY <3>1, EmptyFacts DEF Group
      <4>2. item.readers = <<>>
        BY <1>2, <2>1, <4>1, EmptyFacts DEF GoodItem
      <4> QED  BY <1>1, <4>1, <4>2
    <3>2. CASE Len(item.readers) < Len(G.receivers)
      BY <1>1, <2>1, <3>2
    <3> QED  BY <1>2, <3>1, <3>2 DEF GoodItem
  <2> QED  BY <1>1, <1>2, <2>2 DEF GoodItem
<1>3. [G EXCEPT !.receivers = t] \in Group
  BY <1>1 DEF Group
<1>4. Len(t) <= MAX_RECEIVERS
  BY <1>1, SizesAssumption DEF Group
<1>5. G.items \in [ItemSlots -> Item]
  BY DEF Group
<1>6. GoodGroup([G EXCEPT !.receivers = t])
  BY <1>1, <1>2, <1>4, <1>5 DEF Group, GoodGroup
<1> QED  BY <1>3, <1>6 DEF t

\* A message that is stored has no readers yet.
LEMMA StoredGood ==
  ASSUME NEW G \in Group, GoodGroup(G), NEW j \in ItemSlots, NEW m \in Mesgs
  PROVE  LET H == [G EXCEPT !.items[j] =
                     StoredItem(@, m)]
         IN  H \in Group /\ GoodGroup(H)
<1> DEFINE item == StoredItem(G.items[j], m)
<1>1. item \in Item
  BY DEF Item, StoredItem
<1>2. G.receivers \in Seq(Receivers) /\ G.items \in [ItemSlots -> Item]
  BY DEF Group
<1>3. GoodItem(item, G.receivers)
  <2>1. G.receivers = <<>> \/ 0 < Len(G.receivers)
    BY <1>2
  <2> QED  BY <2>1 DEF GoodItem, Distinct, Elems, StoredItem
<1> HIDE DEF item
<1>4. [G EXCEPT !.items[j] = item] \in Group
  BY <1>1, <1>2 DEF Group
<1>5. GoodGroup([G EXCEPT !.items[j] = item])
  BY <1>1, <1>2, <1>3 DEF Group, GoodGroup
<1> QED  BY <1>4, <1>5 DEF item

\* One more reader deletes the item or leaves it short of a reader.
LEMMA ReadGood ==
  ASSUME NEW G \in Group, GoodGroup(G), G.openFlag, NEW j \in ItemSlots,
         ~G.items[j].deletedFlag,
         NEW r \in Elems(G.receivers), r \notin Elems(G.items[j].readers)
  PROVE  /\ [G EXCEPT !.items[j] = ReadBy(G, j, r)] \in Group
         /\ GoodGroup([G EXCEPT !.items[j] = ReadBy(G, j, r)])
         /\ Len(G.items[j].readers) < MAX_RECEIVERS
<1> DEFINE item == G.items[j]
           t == Append(item.readers, r)
           new == ReadBy(G, j, r)
<1>1. /\ G.receivers \in Seq(Receivers) /\ G.items \in [ItemSlots -> Item]
      /\ item \in Item /\ item.readers \in Seq(Receivers)
  BY DEF Group, Item
<1>2. GoodItem(item, G.receivers) /\ Len(G.receivers) <= MAX_RECEIVERS
  BY DEF GoodGroup
<1>3. r \in Receivers
  BY <1>1 DEF Elems
<1>4. /\ t \in Seq(Receivers) /\ Len(t) = Len(item.readers) + 1
      /\ Elems(t) = Elems(item.readers) \cup {r} /\ Distinct(t)
  BY <1>1, <1>2, <1>3, AppendFacts DEF GoodItem
<1>5. Len(item.readers) < Len(G.receivers)
  BY <1>1, <1>2, EmptyFacts DEF GoodItem
<1>6. /\ new \in Item /\ new.readers = t
      /\ new.deletedFlag = (Len(t) = Len(G.receivers))
  BY <1>1, <1>4 DEF ReadBy, Item
<1> HIDE DEF t, new
<1>7. ~new.deletedFlag => GoodItem(new, G.receivers)
  <2>1. Distinct(t) /\ Elems(t) \subseteq Elems(G.receivers)
    BY <1>2, <1>4 DEF GoodItem
  <2>2. Len(t) # Len(G.receivers) => Len(t) < Len(G.receivers)
    BY <1>1, <1>4, <1>5
  <2> QED  BY <1>6, <2>1, <2>2 DEF GoodItem
<1>8. [G EXCEPT !.items[j] = new] \in Group
  BY <1>1, <1>6 DEF Group
<1>9. GoodGroup([G EXCEPT !.items[j] = new])
  BY <1>1, <1>6, <1>7 DEF Group, GoodGroup
<1>10. Len(item.readers) < MAX_RECEIVERS
  BY <1>1, <1>2, <1>5, SizesAssumption
<1> QED  BY <1>8, <1>9, <1>10 DEF new

-----------------------------------------------------------------------------
\* A return that changes nothing preserves the invariant.
LEMMA ReturnStep ==
  ASSUME IInv, NEW code \in 0 .. 11, Return(code)
  PROVE  IInv'
BY DEF IInv, TypeOK, UniqueNames, ReadersFit, MembersFit, Return, Reply

\* So does one good group taking the place of another under a name of its own.
LEMMA ReplaceStep ==
  ASSUME IInv, NEW i \in Slots, NEW G \in Group, GoodGroup(G),
         groups' = [groups EXCEPT ![i] = G],
         \/ G.group_name = groups[i].group_name
         \/ \A k \in Slots : groups[k].group_name # G.group_name,
         numGroups' \in Int, reply' \in Reply, fault' = fault
  PROVE  IInv'
<1>1. TypeOK'
  BY DEF IInv, TypeOK
<1>2. UniqueNames'
  BY DEF IInv, TypeOK, UniqueNames
<1>3. \A k \in Slots : GoodGroup(groups'[k])
  BY DEF IInv, TypeOK
<1>4. ReadersFit' /\ MembersFit'
  BY DEF IInv, ReadersFit, MembersFit
<1> QED  BY <1>1, <1>2, <1>3, <1>4 DEF IInv

\* A fault other than a full list that could not be full, in a step that
\* changes nothing else.
LEMMA FaultStep ==
  ASSUME IInv, UNCHANGED <<groups, numGroups, reply>>, fault' \in Faults,
         fault' # "readers", MembersFit'
  PROVE  IInv'
BY DEF IInv, TypeOK, UniqueNames, ReadersFit

LEMMA SlotsOfNames ==
  ASSUME NEW name
  PROVE  /\ Named(name) \subseteq Slots /\ Named(name) \in SUBSET Nat
         /\ Found(name) \subseteq Slots /\ Found(name) \in SUBSET Nat
         /\ EmptyGroupSlots \subseteq Slots /\ EmptyGroupSlots \in SUBSET Nat
         /\ \A i : EmptyItemSlots(i) \subseteq ItemSlots /\ EmptyItemSlots(i) \in SUBSET Nat
         /\ \A i, r : Unread(i, r) \subseteq ItemSlots /\ Unread(i, r) \in SUBSET Nat
BY SizesAssumption DEF Named, Found, EmptyGroupSlots, EmptyItemSlots, Unread, Slots, ItemSlots

LEMMA RejectStep ==
  ASSUME IInv, NEW name, RejectName(name)
  PROVE  IInv'
BY ReturnStep DEF RejectName, INP_ERR_NULL_GROUP_NAME, GROUP_NAME_LEN_OVERFLOW

LEMMA NotFoundStep ==
  ASSUME IInv, NEW name, NotFound(name)
  PROVE  IInv'
<1>1. CASE Return(GROUP_NOT_FOUND)
  BY <1>1, ReturnStep DEF GROUP_NOT_FOUND
<1>2. CASE fault' = "groups" /\ UNCHANGED <<groups, numGroups, reply>>
  BY <1>2, FaultStep DEF Faults, MembersFit
<1> QED  BY <1>1, <1>2 DEF NotFound

LEMMA SuccessReply == [status |-> MESSAGING_SUCCESS, mesg |-> NoMesg] \in Reply
BY DEF Reply, MESSAGING_SUCCESS

-----------------------------------------------------------------------------
\* The invariant across each call.
LEMMA InitStep == Init => IInv
<1> SUFFICES ASSUME Init PROVE IInv
  OBVIOUS
<1>1. ZeroGroup \in Group /\ GoodGroup(ZeroGroup)
  BY SizesAssumption DEF ZeroGroup, ZeroItem, Group, Item, GoodGroup, Distinct
<1>2. TypeOK
  BY <1>1, SuccessReply DEF Init, TypeOK, Faults
<1>3. UniqueNames
  BY DEF Init, UniqueNames, ZeroGroup
<1> QED  BY <1>1, <1>2, <1>3 DEF Init, IInv, ReadersFit, MembersFit

LEMMA RestartStep ==
  ASSUME IInv, groups_init
  PROVE  IInv'
<1>1. ZeroGroup \in Group /\ GoodGroup(ZeroGroup)
  BY SizesAssumption DEF ZeroGroup, ZeroItem, Group, Item, GoodGroup, Distinct
<1>2. TypeOK'
  BY <1>1 DEF groups_init, IInv, TypeOK, Reply
<1>3. UniqueNames'
  BY DEF groups_init, UniqueNames, ZeroGroup
<1> QED  BY <1>1, <1>2, <1>3 DEF groups_init, IInv, ReadersFit, MembersFit

LEMMA OpenStep ==
  ASSUME IInv, NEW name \in AnyName, opengroup(name)
  PROVE  IInv'
<1>1. CASE RejectName(name)
  BY <1>1, RejectStep
<1>2. CASE Return(DUPLICATE_GROUP) \/ Return(GROUPS_FULL)
  BY <1>2, ReturnStep DEF DUPLICATE_GROUP, GROUPS_FULL
<1>3. CASE name \in Names /\ Named(name) = {} /\ EmptyGroupSlots # {}
  <2> DEFINE i == First(EmptyGroupSlots)
             H == [group_name |-> name, senders |-> <<>>, receivers |-> <<>>,
                   items |-> Deleted(groups[i].items), openFlag |-> TRUE]
  <2>1. i \in Slots
    BY <1>3, SlotsOfNames, FirstIn
  <2>2. H \in Group /\ GoodGroup(H) /\ H.group_name = name
    BY <1>3, <2>1, OpenedGood DEF IInv, TypeOK
  <2>3. \A k \in Slots : groups[k].group_name # name
    BY <1>3, NamesAssumption DEF Named, Matches
  <2>4. CASE Succeed(i, H) /\ numGroups' = numGroups + 1 /\ UNCHANGED fault
    <3>1. numGroups' \in Int /\ reply' \in Reply /\ groups' = [groups EXCEPT ![i] = H]
      BY <2>4, SuccessReply DEF Succeed, IInv, TypeOK
    <3> HIDE DEF i, H
    <3> QED  BY <2>1, <2>2, <2>3, <2>4, <3>1, ReplaceStep
  <2> QED  BY <1>2, <1>3, <2>4, RejectStep DEF opengroup
<1> QED  BY <1>1, <1>2, <1>3 DEF opengroup

LEMMA CloseStep ==
  ASSUME IInv, NEW name \in AnyName, closegroup(name)
  PROVE  IInv'
<1>1. CASE RejectName(name)
  BY <1>1, RejectStep
<1>2. CASE Return(GROUP_NOT_FOUND)
  BY <1>2, ReturnStep DEF GROUP_NOT_FOUND
<1>3. CASE /\ name \in Names /\ Named(name) # {}
           /\ Succeed(First(Named(name)),
                      [groups[First(Named(name))] EXCEPT !.openFlag = FALSE])
           /\ numGroups' = numGroups - 1
           /\ UNCHANGED fault
  <2> DEFINE i == First(Named(name))
             H == [groups[i] EXCEPT !.openFlag = FALSE]
  <2>1. i \in Slots
    BY <1>3, SlotsOfNames, FirstIn
  <2>2. groups[i] \in Group /\ GoodGroup(groups[i])
    BY <2>1 DEF IInv, TypeOK
  <2>3. H \in Group /\ GoodGroup(H) /\ H.group_name = groups[i].group_name
    BY <2>2, ClosedGood DEF Group
  <2>4. /\ numGroups' \in Int /\ reply' \in Reply
        /\ groups' = [groups EXCEPT ![i] = H]
    BY <1>3, SuccessReply DEF Succeed, IInv, TypeOK
  <2> HIDE DEF i, H
  <2> QED  BY <1>3, <2>1, <2>3, <2>4, ReplaceStep
<1> QED  BY <1>1, <1>2, <1>3 DEF closegroup

LEMMA RecoverStep ==
  ASSUME IInv, NEW name \in AnyName, recovergroup(name)
  PROVE  IInv'
<1>1. CASE RejectName(name)
  BY <1>1, RejectStep
<1>2. CASE Return(GROUP_NOT_FOUND)
  BY <1>2, ReturnStep DEF GROUP_NOT_FOUND
<1>3. CASE /\ name \in Names /\ Named(name) # {}
           /\ Succeed(First(Named(name)),
                      [groups[First(Named(name))] EXCEPT !.items = Deleted(@),
                                                         !.openFlag = TRUE])
           /\ numGroups' = numGroups + 1
           /\ UNCHANGED fault
  <2> DEFINE i == First(Named(name))
             H == [groups[i] EXCEPT !.items = Deleted(@), !.openFlag = TRUE]
  <2>1. i \in Slots
    BY <1>3, SlotsOfNames, FirstIn
  <2>2. groups[i] \in Group /\ GoodGroup(groups[i])
    BY <2>1 DEF IInv, TypeOK
  <2>3. H \in Group /\ GoodGroup(H) /\ H.group_name = groups[i].group_name
    BY <2>2, RecoveredGood
  <2>4. /\ numGroups' \in Int /\ reply' \in Reply
        /\ groups' = [groups EXCEPT ![i] = H]
    BY <1>3, SuccessReply DEF Succeed, IInv, TypeOK
  <2> HIDE DEF i, H
  <2> QED  BY <1>3, <2>1, <2>3, <2>4, ReplaceStep
<1> QED  BY <1>1, <1>2, <1>3 DEF recovergroup

\* The list of senders is full before a new sender only if there are more
\* processes than places: its members are distinct and none is the new one.
LEMMA AddSenderStep ==
  ASSUME IInv, NEW name \in AnyName, NEW s \in Senders,
         add_sender_to_group(name, s)
  PROVE  IInv'
<1> DEFINE i == First(Found(name))
           H == [groups[i] EXCEPT !.senders = Append(@, s)]
<1>1. CASE Return(INP_ERR_NULL_GROUP_NAME) \/ Return(DUPLICATE_SENDER)
  BY <1>1, ReturnStep DEF INP_ERR_NULL_GROUP_NAME, DUPLICATE_SENDER
<1>2. CASE NotFound(name)
  BY <1>2, NotFoundStep
<1>3. ASSUME Found(name) # {}, s \notin Elems(groups[i].senders)
      PROVE  i \in Slots /\ groups[i] \in Group /\ GoodGroup(groups[i])
  <2>1. i \in Slots
    BY <1>3, SlotsOfNames, FirstIn
  <2> QED  BY <2>1 DEF IInv, TypeOK
<1>4. CASE /\ Found(name) # {} /\ s \notin Elems(groups[i].senders)
           /\ Succeed(i, H) /\ UNCHANGED <<numGroups, fault>>
  <2>1. H \in Group /\ GoodGroup(H) /\ H.group_name = groups[i].group_name
    BY <1>3, <1>4, SenderAddedGood DEF Group
  <2>2. /\ numGroups' \in Int /\ reply' \in Reply /\ fault' = fault
        /\ groups' = [groups EXCEPT ![i] = H]
    BY <1>4, SuccessReply DEF Succeed, IInv, TypeOK
  <2> HIDE DEF H
  <2> QED  BY <1>3, <1>4, <2>1, <2>2, ReplaceStep
<1>5. CASE /\ Found(name) # {} /\ s \notin Elems(groups[i].senders)
           /\ Len(groups[i].senders) >= MAX_SENDERS
           /\ fault' = "senders" /\ UNCHANGED <<groups, numGroups, reply>>
  <2>1. groups[i].senders \in Seq(Senders) /\ Distinct(groups[i].senders)
    BY <1>3, <1>5 DEF Group, GoodGroup
  <2>2. ~ (IsFiniteSet(Senders) /\ Cardinality(Senders) <= MAX_SENDERS)
    <3>1. SUFFICES ASSUME IsFiniteSet(Senders), Cardinality(Senders) <= MAX_SENDERS
                   PROVE  FALSE
      OBVIOUS
    <3>2. Cardinality(Senders) \in Nat /\ Len(groups[i].senders) \in Nat
      BY <2>1, <3>1, FS_CardinalityType
    <3>3. Len(groups[i].senders) < Cardinality(Senders)
      BY <1>5, <2>1, <3>1, DistinctFits
    <3> QED  BY <1>5, <3>1, <3>2, <3>3, SizesAssumption
  <2> QED  BY <1>5, <2>2, FaultStep DEF Faults, MembersFit
<1> QED  BY <1>1, <1>2, <1>4, <1>5 DEF add_sender_to_group

LEMMA AddReceiverStep ==
  ASSUME IInv, NEW name \in AnyName, NEW r \in Receivers,
         add_receiver_to_group(name, r)
  PROVE  IInv'
<1> DEFINE i == First(Found(name))
           H == [groups[i] EXCEPT !.receivers = Append(@, r)]
<1>1. CASE Return(DUPLICATE_RECEIVER)
  BY <1>1, ReturnStep DEF DUPLICATE_RECEIVER
<1>2. CASE NotFound(name)
  BY <1>2, NotFoundStep
<1>3. ASSUME Found(name) # {}, r \notin Elems(groups[i].receivers)
      PROVE  i \in Slots /\ groups[i] \in Group /\ GoodGroup(groups[i])
  <2>1. i \in Slots
    BY <1>3, SlotsOfNames, FirstIn
  <2> QED  BY <2>1 DEF IInv, TypeOK
<1>4. CASE /\ Found(name) # {} /\ r \notin Elems(groups[i].receivers)
           /\ Len(groups[i].receivers) < MAX_RECEIVERS
           /\ Succeed(i, H) /\ UNCHANGED <<numGroups, fault>>
  <2>1. H \in Group /\ GoodGroup(H) /\ H.group_name = groups[i].group_name
    BY <1>3, <1>4, ReceiverAddedGood DEF Group
  <2>2. /\ numGroups' \in Int /\ reply' \in Reply /\ fault' = fault
        /\ groups' = [groups EXCEPT ![i] = H]
    BY <1>4, SuccessReply DEF Succeed, IInv, TypeOK
  <2> HIDE DEF H
  <2> QED  BY <1>3, <1>4, <2>1, <2>2, ReplaceStep
<1>5. CASE /\ Found(name) # {} /\ r \notin Elems(groups[i].receivers)
           /\ Len(groups[i].receivers) >= MAX_RECEIVERS
           /\ fault' = "receivers" /\ UNCHANGED <<groups, numGroups, reply>>
  <2>1. groups[i].receivers \in Seq(Receivers) /\ Distinct(groups[i].receivers)
    BY <1>3, <1>5 DEF Group, GoodGroup
  <2>2. ~ (IsFiniteSet(Receivers) /\ Cardinality(Receivers) <= MAX_RECEIVERS)
    <3>1. SUFFICES ASSUME IsFiniteSet(Receivers),
                          Cardinality(Receivers) <= MAX_RECEIVERS
                   PROVE  FALSE
      OBVIOUS
    <3>2. Cardinality(Receivers) \in Nat /\ Len(groups[i].receivers) \in Nat
      BY <2>1, <3>1, FS_CardinalityType
    <3>3. Len(groups[i].receivers) < Cardinality(Receivers)
      BY <1>5, <2>1, <3>1, DistinctFits
    <3> QED  BY <1>5, <3>1, <3>2, <3>3, SizesAssumption
  <2> QED  BY <1>5, <2>2, FaultStep DEF Faults, MembersFit
<1> QED  BY <1>1, <1>2, <1>4, <1>5 DEF add_receiver_to_group

LEMMA SendStep ==
  ASSUME IInv, NEW name \in AnyName, NEW m \in Mesgs \cup {LongMesg},
         sendmsg(name, m)
  PROVE  IInv'
<1> DEFINE i == First(Found(name))
           j == First(EmptyItemSlots(i))
           H == [groups[i] EXCEPT !.items[j] = StoredItem(@, m)]
<1>1. CASE \/ Return(INP_ERR_NULL_GROUP_NAME) \/ Return(MSG_LEN_OVERFLOW_ERROR)
           \/ Return(BUFFER_OVERFLOW)
  BY <1>1, ReturnStep
     DEF INP_ERR_NULL_GROUP_NAME, MSG_LEN_OVERFLOW_ERROR, BUFFER_OVERFLOW
<1>2. CASE NotFound(name)
  BY <1>2, NotFoundStep
<1>3. CASE /\ m # LongMesg /\ Found(name) # {} /\ EmptyItemSlots(i) # {}
           /\ groups' = [groups EXCEPT ![i].items[j] = StoredItem(@, m)]
           /\ reply' \in Reply /\ UNCHANGED <<numGroups, fault>>
  <2>1. i \in Slots
    BY <1>3, SlotsOfNames, FirstIn
  <2>2. groups[i] \in Group /\ GoodGroup(groups[i]) /\ groups \in [Slots -> Group]
    BY <2>1 DEF IInv, TypeOK
  <2>3. j \in ItemSlots /\ m \in Mesgs
    BY <1>3, SlotsOfNames, FirstIn
  <2>4. H \in Group /\ GoodGroup(H) /\ H.group_name = groups[i].group_name
    BY <2>2, <2>3, StoredGood DEF Group
  <2>5. groups' = [groups EXCEPT ![i] = H]
    BY <1>3, <2>1, <2>2
  <2>6. numGroups' \in Int
    BY <1>3 DEF IInv, TypeOK
  <2> HIDE DEF H, i, j
  <2> QED  BY <1>3, <2>1, <2>4, <2>5, <2>6, ReplaceStep
<1>4. CASE /\ m # LongMesg /\ Found(name) # {} /\ EmptyItemSlots(i) # {}
           /\ Succeed(i, H) /\ UNCHANGED <<numGroups, fault>>
  <2>1. i \in Slots /\ groups \in [Slots -> Group]
    BY <1>4, SlotsOfNames, FirstIn DEF IInv, TypeOK
  <2>2. groups' = [groups EXCEPT ![i].items[j] = StoredItem(@, m)]
    BY <1>4, <2>1 DEF Succeed
  <2>3. reply' \in Reply
    BY <1>4, SuccessReply DEF Succeed
  <2> QED  BY <1>3, <1>4, <2>2, <2>3
<1> QED  BY <1>1, <1>2, <1>4 DEF sendmsg

\* The receiver gets an item it has not read; the step leaves the item short
\* of a reader or deletes it, and the item's list of readers has room.
LEMMA ReceiveStep ==
  ASSUME IInv, NEW name \in AnyName, NEW r \in Receivers, receivemsg(name, r)
  PROVE  IInv'
<1> DEFINE i == First(Found(name))
           j == NextUnread(i, r)
           H == [groups[i] EXCEPT !.items[j] = ReadBy(groups[i], j, r)]
<1>1. CASE \/ Return(INP_ERR_NULL_GROUP_NAME) \/ Return(NOT_RECEIVER_OF_GROUP)
           \/ Return(BUFFER_UNDERFLOW)
  BY <1>1, ReturnStep
     DEF INP_ERR_NULL_GROUP_NAME, NOT_RECEIVER_OF_GROUP, BUFFER_UNDERFLOW
<1>2. CASE NotFound(name)
  BY <1>2, NotFoundStep
<1>3. CASE /\ Found(name) # {} /\ r \in Elems(groups[i].receivers)
           /\ Unread(i, r) # {}
           /\ groups' = [groups EXCEPT ![i].items[j] = ReadBy(groups[i], j, r)]
           /\ reply' = [status |-> MESSAGING_SUCCESS,
                        mesg |-> groups[i].items[j].Mesg]
           /\ fault' = IF Len(groups[i].items[j].readers) < MAX_RECEIVERS
                       THEN fault ELSE "readers"
           /\ UNCHANGED numGroups
  <2>1. i \in Slots /\ i \in Found(name)
    BY <1>3, SlotsOfNames, FirstIn
  <2>2. /\ groups[i] \in Group /\ GoodGroup(groups[i]) /\ groups[i].openFlag
        /\ groups \in [Slots -> Group]
    BY <2>1 DEF IInv, TypeOK, Found
  <2>3. j \in ItemSlots /\ j \in Unread(i, r)
    BY <1>3, SlotsOfNames, FirstIn DEF NextUnread
  <2>4. /\ ~groups[i].items[j].deletedFlag
        /\ r \notin Elems(groups[i].items[j].readers)
    BY <2>3 DEF Unread
  <2>5. H \in Group /\ GoodGroup(H) /\ Len(groups[i].items[j].readers) < MAX_RECEIVERS
    BY <1>3, <2>2, <2>3, <2>4, ReadGood
  <2>6. H.group_name = groups[i].group_name
    BY <2>2 DEF Group
  <2>7. groups' = [groups EXCEPT ![i] = H]
    BY <1>3, <2>1, <2>2
  <2>8. numGroups' \in Int /\ fault' = fault
    BY <1>3, <2>5 DEF IInv, TypeOK
  <2>9. reply' \in Reply
    BY <1>3, <2>2, <2>3 DEF Reply, Group, Item, MESSAGING_SUCCESS
  <2> HIDE DEF H, i, j
  <2> QED  BY <2>1, <2>5, <2>6, <2>7, <2>8, <2>9, ReplaceStep
<1> QED  BY <1>1, <1>2, <1>3 DEF receivemsg

-----------------------------------------------------------------------------
LEMMA NextStep == IInv /\ [Next]_vars => IInv'
<1> SUFFICES ASSUME IInv, [Next]_vars PROVE IInv'
  OBVIOUS
<1>1. CASE UNCHANGED vars
  BY <1>1 DEF vars, IInv, TypeOK, UniqueNames, ReadersFit, MembersFit
<1>2. CASE GroupCall
  <2>1. CASE groups_init
    BY <2>1, RestartStep
  <2>2. ASSUME NEW name \in AnyName,
               opengroup(name) \/ closegroup(name) \/ recovergroup(name)
        PROVE  IInv'
    BY <2>2, OpenStep, CloseStep, RecoverStep
  <2>3. ASSUME NEW name \in AnyName, NEW s \in Senders, add_sender_to_group(name, s)
        PROVE  IInv'
    BY <2>3, AddSenderStep
  <2>4. ASSUME NEW name \in AnyName, NEW r \in Receivers,
               add_receiver_to_group(name, r) \/ receivemsg(name, r)
        PROVE  IInv'
    BY <2>4, AddReceiverStep, ReceiveStep
  <2>5. ASSUME NEW name \in AnyName, NEW m \in Mesgs \cup {LongMesg}, sendmsg(name, m)
        PROVE  IInv'
    BY <2>5, SendStep
  <2> QED  BY <1>2, <2>1, <2>2, <2>3, <2>4, <2>5 DEF GroupCall
<1> QED  BY <1>1, <1>2 DEF Next

\* The inductive invariant holds in every state of the group table.
THEOREM Inductive == Spec => []IInv
<1> QED  BY InitStep, NextStep, PTL DEF Spec

\* Every variable keeps its type through every call of grpmsgdef.c.
THEOREM TypeCorrect == Spec => []TypeOK
<1>1. IInv => TypeOK
  BY DEF IInv
<1> QED  BY <1>1, Inductive, PTL

\* No two slots of GroupsList ever hold the same name.
THEOREM NamesAreUnique == Spec => []UniqueNames
<1>1. IInv => UniqueNames
  BY DEF IInv
<1> QED  BY <1>1, Inductive, PTL

\* The lists of senders and receivers of a group never repeat a process.
THEOREM MembersAreDistinct == Spec => []DistinctMembers
<1>1. IInv => DistinctMembers
  BY DEF IInv, GoodGroup, DistinctMembers
<1> QED  BY <1>1, Inductive, PTL

\* The readers noted on a stored item are receivers of its group, each once.
THEOREM NoStaleReaders == Spec => []ReadersAreReceivers
<1>1. IInv => ReadersAreReceivers
  BY DEF IInv, GoodGroup, GoodItem, ReadersAreReceivers
<1> QED  BY <1>1, Inductive, PTL

\* receivemsg leaves no item stored that all receivers have read: distinct
\* readers that are fewer than the distinct receivers cannot be all of them.
THEOREM ReadItemsReclaimed == Spec => []NoFullyReadItem
<1>1. IInv => NoFullyReadItem
  <2> SUFFICES ASSUME IInv, NEW i \in Slots, NEW j \in ItemSlots,
                      groups[i].openFlag, ~groups[i].items[j].deletedFlag,
                      groups[i].receivers # <<>>,
                      \A r \in Elems(groups[i].receivers) :
                          r \in Elems(groups[i].items[j].readers)
               PROVE  FALSE
    BY DEF NoFullyReadItem
  <2> DEFINE rs == groups[i].items[j].readers
             ms == groups[i].receivers
  <2>1. /\ rs \in Seq(Receivers) /\ ms \in Seq(Receivers)
        /\ Distinct(ms) /\ GoodItem(groups[i].items[j], ms)
    BY DEF IInv, TypeOK, Group, Item, GoodGroup
  <2>2. Len(rs) < Len(ms) /\ Elems(ms) \subseteq Elems(rs)
    BY <2>1 DEF GoodItem
  <2> HIDE DEF rs, ms
  <2>3. IsFiniteSet(Elems(rs)) /\ Cardinality(Elems(rs)) <= Len(rs)
    <3>1. rs \in Surjection(1 .. Len(rs), Elems(rs))
      BY <2>1 DEF Surjection, Elems
    <3>2. \A n \in Nat : IsFiniteSet(1 .. n) /\ Cardinality(1 .. n) = n
      BY FS_Interval
    <3>3. IsFiniteSet(1 .. Len(rs)) /\ Cardinality(1 .. Len(rs)) = Len(rs)
      BY <2>1, <3>2
    <3> QED  BY <3>1, <3>3, FS_Surjection
  <2>4. ms \in Seq(Elems(rs))
    <3>1. \A k \in 1 .. Len(ms) : ms[k] \in Elems(ms)
      BY DEF Elems
    <3>2. \A k \in 1 .. Len(ms) : ms[k] \in Elems(rs)
      BY <2>2, <3>1
    <3> QED  BY <2>1, <3>2
  <2>5. Len(ms) <= Cardinality(Elems(rs))
    BY <2>1, <2>3, <2>4, DistinctFits
  <2>6. Cardinality(Elems(rs)) \in Nat /\ Len(ms) \in Nat /\ Len(rs) \in Nat
    BY <2>1, <2>3, FS_CardinalityType
  <2> QED  BY <2>2, <2>3, <2>5, <2>6
<1> QED  BY <1>1, Inductive, PTL

\* The untested append to an item's ReceiverList stays within the array.
THEOREM ReaderListFits == Spec => []ReadersFit
<1>1. IInv => ReadersFit
  BY DEF IInv
<1> QED  BY <1>1, Inductive, PTL

\* With no more processes than places the untested appends of senders and
\* receivers stay within their arrays.
THEOREM MemberListsFit == Spec => []MembersFit
<1>1. IInv => MembersFit
  BY DEF IInv
<1> QED  BY <1>1, Inductive, PTL

-----------------------------------------------------------------------------
\* The count of the open groups.
\* The count is inductive together with the invariant of the table; which open
\* groups a search reaches follows from it.
Counted == numGroups = Cardinality(OpenSlots) + drift /\ (fault = "groups" => drift > 0)

Counting == IInv /\ drift \in Int /\ Counted

LEMMA SlotsFinite ==
  /\ IsFiniteSet(OpenSlots) /\ Cardinality(OpenSlots) \in Nat
  /\ Cardinality(OpenSlots) <= MAX_GROUPS
<1>1. IsFiniteSet(Slots) /\ Cardinality(Slots) = MAX_GROUPS
  BY SizesAssumption, FS_Interval DEF Slots
<1>2. OpenSlots \in SUBSET Slots
  BY DEF OpenSlots
<1> QED  BY <1>1, <1>2, FS_Subset, FS_CardinalityType

\* A call that refuses leaves the count.
LEMMA RefusedCounts ==
  ASSUME Counting, UNCHANGED <<groups, numGroups, fault, drift>>
  PROVE  Counted'
BY DEF Counting, Counted, OpenSlots

\* What a call counts but for drift: nothing, one group more, one less.
Typed == numGroups' \in Int /\ drift' \in Int
CountsNone == Typed /\ numGroups' - drift' = numGroups - drift
CountsUp == Typed /\ numGroups' - drift' = numGroups - drift + 1
CountsDown == Typed /\ numGroups' - drift' = numGroups - drift - 1

\* One group takes the place of another: the count goes with its open flag, and
\* drifts by what the call counts beyond that.
LEMMA ReplacedCounts ==
  ASSUME Counting, fault' # "groups", NEW i \in Slots, NEW G,
         groups' = [groups EXCEPT ![i] = G],
         \/ G.openFlag = groups[i].openFlag /\ CountsNone
         \/ G.openFlag = TRUE /\ ~groups[i].openFlag /\ CountsUp
         \/ G.openFlag = FALSE /\ groups[i].openFlag /\ CountsDown
  PROVE  Counted'
<1> SUFFICES numGroups' = Cardinality(OpenSlots') + drift'
  BY DEF Counted
<1>1. numGroups = Cardinality(OpenSlots) + drift /\ drift \in Int
  BY DEF Counting, Counted
<1>2. /\ groups \in [Slots -> Group]
      /\ \A k \in Slots : groups'[k] = IF k = i THEN G ELSE groups[k]
      /\ \A k \in Slots : k \in OpenSlots' <=> groups'[k].openFlag
      /\ \A k \in Slots : k \in OpenSlots <=> groups[k].openFlag
      /\ OpenSlots \subseteq Slots /\ OpenSlots' \subseteq Slots
  BY DEF Counting, IInv, TypeOK, OpenSlots, Slots
<1>3. CASE G.openFlag = groups[i].openFlag /\ CountsNone
  <2>1. OpenSlots' = OpenSlots
    BY <1>2, <1>3
  <2> QED  BY <1>1, <1>3, <2>1, SlotsFinite DEF CountsNone, Typed
<1>4. CASE G.openFlag = TRUE /\ ~groups[i].openFlag /\ CountsUp
  <2>1. OpenSlots' = OpenSlots \cup {i} /\ i \notin OpenSlots
    BY <1>2, <1>4
  <2>2. Cardinality(OpenSlots') = Cardinality(OpenSlots) + 1
    BY <2>1, SlotsFinite, FS_AddElement
  <2> QED  BY <1>1, <1>4, <2>2, SlotsFinite DEF CountsUp, Typed
<1>5. CASE G.openFlag = FALSE /\ groups[i].openFlag /\ CountsDown
  <2>1. OpenSlots' = OpenSlots \ {i} /\ i \in OpenSlots
    BY <1>2, <1>5
  <2>2. Cardinality(OpenSlots') = Cardinality(OpenSlots) - 1
    BY <2>1, SlotsFinite, FS_RemoveElement
  <2> QED  BY <1>1, <1>5, <2>2, SlotsFinite DEF CountsDown, Typed
<1> QED  BY <1>3, <1>4, <1>5

\* No search runs past the slots but by drift.
LEMMA SearchStaysIn ==
  ASSUME Counting, UNCHANGED drift, NEW name, NotFound(name)
  PROVE  Counted'
<1>1. CASE Return(GROUP_NOT_FOUND)
  BY <1>1, RefusedCounts DEF Return, Counting
<1>2. CASE numGroups > MAX_GROUPS
  <2>1. drift > 0
    BY <1>2, SlotsFinite, SizesAssumption DEF Counting, Counted
  <2>2. UNCHANGED <<groups, numGroups>>
    BY DEF NotFound, Return
  <2> QED  BY <2>1, <2>2 DEF Counted, Counting, OpenSlots
<1> QED  BY <1>1, <1>2 DEF NotFound

-----------------------------------------------------------------------------
\* The count across each call.
LEMMA RestartCounts ==
  ASSUME Counting, groups_init, drift' = 0, fault = "none"
  PROVE  Counted'
<1>1. OpenSlots' = {}
  BY DEF OpenSlots, groups_init, ZeroGroup
<1> QED  BY <1>1, FS_EmptySet DEF groups_init, Counted

LEMMA OpenCounts ==
  ASSUME Counting, NEW name \in AnyName, opengroup(name), UNCHANGED drift, fault = "none"
  PROVE  Counted'
<1> DEFINE i == First(EmptyGroupSlots)
           H == [group_name |-> name, senders |-> <<>>, receivers |-> <<>>,
                 items |-> Deleted(groups[i].items), openFlag |-> TRUE]
<1>1. CASE UNCHANGED <<groups, numGroups, fault>>
  BY <1>1, RefusedCounts DEF Counting
<1>2. CASE /\ EmptyGroupSlots # {} /\ Succeed(i, H)
           /\ numGroups' = numGroups + 1 /\ UNCHANGED fault
  <2>1. i \in EmptyGroupSlots
    BY <1>2, SlotsOfNames, FirstIn
  <2>2. i \in Slots /\ ~groups[i].openFlag
    BY <2>1 DEF EmptyGroupSlots
  <2>3. H.openFlag = TRUE
    OBVIOUS
  <2>4. groups' = [groups EXCEPT ![i] = H]
    BY <1>2 DEF Succeed
  <2>5. CountsUp /\ fault' # "groups"
    BY <1>2 DEF Counting, IInv, TypeOK, CountsUp, Typed
  <2> HIDE DEF i, H
  <2> QED  BY <2>2, <2>3, <2>4, <2>5, ReplacedCounts
<1> QED  BY <1>1, <1>2 DEF opengroup, RejectName, Return

LEMMA CloseCounts ==
  ASSUME Counting, NEW name \in AnyName, closegroup(name), fault = "none",
         drift' = IF name \in Names /\ Named(name) # {} /\ ~IsOpen(name)
                  THEN drift - 1 ELSE drift
  PROVE  Counted'
<1> DEFINE i == First(Named(name))
           H == [groups[i] EXCEPT !.openFlag = FALSE]
<1>1. CASE UNCHANGED <<groups, numGroups, fault, drift>>
  BY <1>1, RefusedCounts
<1>2. CASE /\ name \in Names /\ Named(name) # {} /\ Succeed(i, H)
           /\ numGroups' = numGroups - 1 /\ UNCHANGED fault
  <2>1. i \in Slots
    BY <1>2, SlotsOfNames, FirstIn
  <2>2. drift' = IF groups[i].openFlag THEN drift ELSE drift - 1
    BY <1>2 DEF IsOpen
  <2>3. H.openFlag = FALSE /\ groups[i].openFlag \in BOOLEAN
    BY <2>1 DEF Counting, IInv, TypeOK, Group
  <2>4. groups' = [groups EXCEPT ![i] = H]
    BY <1>2 DEF Succeed
  <2>5. numGroups \in Int /\ drift \in Int /\ fault' # "groups"
    BY <1>2 DEF Counting, IInv, TypeOK
  <2> HIDE DEF i, H
  <2>6. CASE groups[i].openFlag
    <3>1. CountsDown
      BY <1>2, <2>2, <2>5, <2>6 DEF CountsDown, Typed
    <3> QED  BY <2>1, <2>3, <2>4, <2>5, <2>6, <3>1, ReplacedCounts
  <2>7. CASE ~groups[i].openFlag
    <3>1. CountsNone
      BY <1>2, <2>2, <2>5, <2>7 DEF CountsNone, Typed
    <3> QED  BY <2>1, <2>3, <2>4, <2>5, <2>7, <3>1, ReplacedCounts
  <2> QED  BY <2>6, <2>7
<1> QED  BY <1>1, <1>2, NamesAssumption DEF closegroup, RejectName, Return

LEMMA RecoverCounts ==
  ASSUME Counting, NEW name \in AnyName, recovergroup(name), fault = "none",
         drift' = IF name \in Names /\ IsOpen(name) THEN drift + 1 ELSE drift
  PROVE  Counted'
<1> DEFINE i == First(Named(name))
           H == [groups[i] EXCEPT !.items = Deleted(@), !.openFlag = TRUE]
<1>1. CASE UNCHANGED <<groups, numGroups, fault, drift>>
  BY <1>1, RefusedCounts
<1>2. CASE /\ name \in Names /\ Named(name) # {} /\ Succeed(i, H)
           /\ numGroups' = numGroups + 1 /\ UNCHANGED fault
  <2>1. i \in Slots
    BY <1>2, SlotsOfNames, FirstIn
  <2>2. drift' = IF groups[i].openFlag THEN drift + 1 ELSE drift
    BY <1>2 DEF IsOpen
  <2>3. H.openFlag = TRUE /\ groups[i].openFlag \in BOOLEAN
    BY <2>1 DEF Counting, IInv, TypeOK, Group
  <2>4. groups' = [groups EXCEPT ![i] = H]
    BY <1>2 DEF Succeed
  <2>5. numGroups \in Int /\ drift \in Int /\ fault' # "groups"
    BY <1>2 DEF Counting, IInv, TypeOK
  <2> HIDE DEF i, H
  <2>6. CASE groups[i].openFlag
    <3>1. CountsNone
      BY <1>2, <2>2, <2>5, <2>6 DEF CountsNone, Typed
    <3> QED  BY <2>1, <2>3, <2>4, <2>5, <2>6, <3>1, ReplacedCounts
  <2>7. CASE ~groups[i].openFlag
    <3>1. CountsUp
      BY <1>2, <2>2, <2>5, <2>7 DEF CountsUp, Typed
    <3> QED  BY <2>1, <2>3, <2>4, <2>5, <2>7, <3>1, ReplacedCounts
  <2> QED  BY <2>6, <2>7
<1> QED  BY <1>1, <1>2, NamesAssumption DEF recovergroup, RejectName, Return, IsOpen

\* Members join and messages come and go in a group found open, which stays open.
LEMMA JoinCounts ==
  ASSUME Counting, NEW name \in AnyName, UNCHANGED drift, fault = "none",
         \/ \E s \in Senders : add_sender_to_group(name, s)
         \/ \E r \in Receivers : add_receiver_to_group(name, r)
  PROVE  Counted'
<1> DEFINE i == First(Found(name))
<1>1. CASE NotFound(name)
  BY <1>1, SearchStaysIn
<1>2. CASE UNCHANGED <<groups, numGroups>> /\ fault' # "groups"
  BY <1>2 DEF Counting, Counted, OpenSlots
<1>3. ASSUME Found(name) # {}, UNCHANGED <<numGroups, fault>>,
             NEW t, \/ Succeed(i, [groups[i] EXCEPT !.senders = t])
                    \/ Succeed(i, [groups[i] EXCEPT !.receivers = t])
      PROVE  Counted'
  <2>1. i \in Slots
    BY <1>3, SlotsOfNames, FirstIn
  <2>2. PICK G : groups' = [groups EXCEPT ![i] = G] /\ G.openFlag = groups[i].openFlag
    BY <1>3, <2>1 DEF Succeed, Counting, IInv, TypeOK, Group
  <2>3. CountsNone /\ fault' # "groups"
    BY <1>3 DEF Counting, IInv, TypeOK, CountsNone, Typed
  <2> HIDE DEF i
  <2> QED  BY <2>1, <2>2, <2>3, ReplacedCounts
<1> QED  BY <1>1, <1>2, <1>3 DEF add_sender_to_group, add_receiver_to_group, Return

LEMMA MessageCounts ==
  ASSUME Counting, NEW name \in AnyName, UNCHANGED drift, fault = "none",
         \/ \E m \in Mesgs \cup {LongMesg} : sendmsg(name, m)
         \/ \E r \in Receivers : receivemsg(name, r)
  PROVE  Counted'
<1> DEFINE i == First(Found(name))
<1>1. CASE NotFound(name)
  BY <1>1, SearchStaysIn
<1>2. CASE UNCHANGED <<groups, numGroups, fault>>
  BY <1>2, RefusedCounts DEF Counting
<1>3. ASSUME Found(name) # {}, UNCHANGED numGroups, fault' # "groups",
             NEW j, NEW item, groups' = [groups EXCEPT ![i].items[j] = item]
      PROVE  Counted'
  <2>1. i \in Slots
    BY <1>3, SlotsOfNames, FirstIn
  <2> DEFINE G == [groups[i] EXCEPT !.items[j] = item]
  <2>2. groups' = [groups EXCEPT ![i] = G]
    BY <1>3, <2>1 DEF Counting, IInv, TypeOK
  <2>3. G.openFlag = groups[i].openFlag
    BY <2>1 DEF Counting, IInv, TypeOK, Group
  <2>4. CountsNone
    BY <1>3 DEF Counting, IInv, TypeOK, CountsNone, Typed
  <2> HIDE DEF i, G
  <2> QED  BY <1>3, <2>1, <2>2, <2>3, <2>4, ReplacedCounts
<1> QED  BY <1>1, <1>2, <1>3 DEF sendmsg, receivemsg, Return, Succeed

-----------------------------------------------------------------------------
LEMMA CountingInit == DInit => Counting
<1> SUFFICES ASSUME DInit PROVE Counting
  OBVIOUS
<1>1. OpenSlots = {}
  BY DEF OpenSlots, DInit, Init, ZeroGroup
<1> QED  BY <1>1, InitStep, FS_EmptySet DEF DInit, Init, Counting, Counted

LEMMA CountingStep == Counting /\ [TableNext]_dvars => Counting'
<1> SUFFICES ASSUME Counting, [TableNext]_dvars PROVE Counting'
  OBVIOUS
<1>1. CASE UNCHANGED dvars
  <2>1. IInv'
    BY <1>1, NextStep DEF dvars, Counting
  <2> QED  BY <1>1, <2>1 DEF dvars, vars, Counting, Counted, OpenSlots
<1>2. CASE fault = "none" /\ TableCall
  <2>1. GroupCall
    BY <1>2 DEF TableCall, GroupCall
  <2>2. IInv'
    BY <1>2, <2>1, NextStep DEF Next, Counting
  <2>3. drift' \in Int
    BY <1>2 DEF TableCall, Counting
  <2>4. Counted'
    BY <1>2, RestartCounts, OpenCounts, CloseCounts, RecoverCounts, JoinCounts,
       MessageCounts DEF TableCall
  <2> QED  BY <2>2, <2>3, <2>4 DEF Counting
<1> QED  BY <1>1, <1>2 DEF TableNext

\* Behind a true count nothing is out of reach: when the slots below an open one
\* are open, there are more open groups than slots below it.
LEMMA OpenInReach ==
  ASSUME Counting, NEW k \in OpenSlots, drift >= 0, \A j \in Slots : j < k => j \in OpenSlots
  PROVE  k < numGroups
<1>1. k \in Slots /\ k \in Nat /\ drift \in Int
  BY DEF OpenSlots, Slots, Counting
<1>2. 0 .. k \subseteq OpenSlots
  BY <1>1, SizesAssumption DEF Slots
<1>3. IsFiniteSet(0 .. k) /\ Cardinality(0 .. k) = k + 1
  BY <1>1, FS_Interval
<1>4. Cardinality(0 .. k) <= Cardinality(OpenSlots)
  BY <1>2, SlotsFinite, FS_Subset
<1> QED  BY <1>1, <1>3, <1>4, SlotsFinite DEF Counting, Counted

\* Whatever is opened, closed, closed again, recovered and recovered open, for any
\* number of slots, names and processes: numGroups is the number of open groups
\* plus drift; a search of grpmsgdef.c leaves GroupsList only when drift is
\* positive; and an open group that searches miss has a closed slot below it, or
\* drift is negative.
THEOREM GroupsAreCounted == TableSpec => []CountsOpenGroups
<1>1. TableSpec => []Counting
  BY CountingInit, CountingStep, PTL DEF TableSpec
<1>2. Counting => CountsOpenGroups
  <2> SUFFICES ASSUME Counting PROVE CountsOpenGroups
    OBVIOUS
  <2>1. ASSUME NEW k \in OpenSlots, ~(drift < 0), ~\E j \in Slots : j < k /\ j \notin OpenSlots
        PROVE  k < numGroups
    <3>1. drift >= 0
      BY <2>1 DEF Counting
    <3> QED  BY <2>1, <3>1, OpenInReach
  <2> QED  BY <2>1 DEF CountsOpenGroups, Counting, Counted
<1> QED  BY <1>1, <1>2, PTL

-----------------------------------------------------------------------------
\* What the receivers see.
\* Every call of GroupHistory is a call of GroupMsg.
LEMMA CallsAreGroupCalls ==
  ASSUME HistoryTypeOK, [HNext]_allvars
  PROVE  [Next]_vars
<1>1. CASE UNCHANGED allvars
  BY <1>1 DEF allvars
<1>2. CASE fault = "none" /\ HistoryCall
  <2>1. CASE HRestart
    BY <1>2, <2>1 DEF HRestart, Next, GroupCall
  <2>2. ASSUME NEW name \in Names, HOpen(name) \/ HClose(name) \/ HRecover(name)
        PROVE  Next
    BY <1>2, <2>2 DEF HOpen, HClose, HRecover, Next, GroupCall, AnyName
  <2>3. ASSUME NEW name \in Names, HSend(name) PROVE Next
    <3>1. sendmsg(name, sent + 1) /\ sent < MaxSends
      BY <2>3 DEF HSend
    <3>2. sent + 1 \in Mesgs /\ name \in AnyName
      BY <3>1, HistoryAssumption DEF HistoryTypeOK, AnyName
    <3>3. GroupCall
      BY <3>1, <3>2, Zenon DEF GroupCall
    <3> QED  BY <1>2, <3>3 DEF Next
  <2>4. ASSUME NEW name \in Names, NEW r \in Receivers,
               HJoin(name, r) \/ HReceive(name, r)
        PROVE  Next
    BY <1>2, <2>4 DEF HJoin, HReceive, Next, GroupCall, AnyName
  <2> QED  BY <1>2, <2>1, <2>2, <2>3, <2>4 DEF HistoryCall
<1>3. CASE fault # "none" /\ UNCHANGED allvars
  BY <1>3 DEF allvars
<1> QED  BY <1>1, <1>2, <1>3 DEF HNext

-----------------------------------------------------------------------------
\* Facts about lists of messages.
LEMMA NothingFacts ==
  ASSUME NEW S
  PROVE  <<>> \in Seq(S) /\ Elems(<<>>) = {} /\ Ascending(<<>>)
BY DEF Elems, Ascending

LEMMA ElemsIn ==
  ASSUME NEW S, NEW s \in Seq(S)
  PROVE  Elems(s) \subseteq S
BY DEF Elems

LEMMA NumbersOfMessages ==
  ASSUME NEW s \in Seq(Mesgs)
  PROVE  Elems(s) \subseteq Nat
<1>1. Mesgs \subseteq Nat
  BY HistoryAssumption
<1>2. Elems(s) \subseteq Mesgs
  BY ElemsIn
<1> QED  BY <1>1, <1>2

\* A message above all that are on an ascending list may follow them.
LEMMA AscendingAppend ==
  ASSUME NEW s \in Seq(Mesgs), NEW m \in Mesgs, Ascending(s),
         \A x \in Elems(s) : x < m
  PROVE  Ascending(Append(s, m))
<1> PICK t : t = Append(s, m)
  OBVIOUS
<1>1. /\ t \in Seq(Mesgs) /\ Len(t) = Len(s) + 1 /\ Len(s) \in Nat
      /\ t[Len(s) + 1] = m /\ \A k \in 1 .. Len(s) : t[k] = s[k]
  OBVIOUS
<1>2. \A k \in 1 .. Len(s) : s[k] < m /\ s[k] \in Elems(s)
  BY DEF Elems
<1>3. Ascending(t)
  BY <1>1, <1>2 DEF Ascending
<1> QED  BY <1>3

\* A list of distinct processes has as many places as members.
LEMMA DistinctCounts ==
  ASSUME NEW S, NEW s \in Seq(S), Distinct(s)
  PROVE  IsFiniteSet(Elems(s)) /\ Cardinality(Elems(s)) = Len(s)
<1>1. Len(s) \in Nat
  OBVIOUS
<1>2. IsFiniteSet(1 .. Len(s)) /\ Cardinality(1 .. Len(s)) = Len(s)
  <2>1. \A n \in Nat : IsFiniteSet(1 .. n) /\ Cardinality(1 .. n) = n
    BY FS_Interval
  <2> QED  BY <1>1, <2>1
<1>3. s \in Surjection(1 .. Len(s), Elems(s))
  BY DEF Surjection, Elems
<1>4. IsFiniteSet(Elems(s)) /\ Cardinality(Elems(s)) <= Len(s)
  BY <1>2, <1>3, FS_Surjection
<1>5. s \in Injection(1 .. Len(s), Elems(s))
  BY DEF Distinct, Injection, IsInjective, Elems
<1>6. Len(s) <= Cardinality(Elems(s))
  BY <1>2, <1>4, <1>5, FS_Injection
<1>7. Cardinality(Elems(s)) \in Nat
  BY <1>4, FS_CardinalityType
<1> QED  BY <1>1, <1>4, <1>6, <1>7

\* Distinct processes of a list of distinct processes are all of them if and
\* only if they are as many.
LEMMA CountTellsAll ==
  ASSUME NEW S, NEW s \in Seq(S), NEW t \in Seq(S), Distinct(s), Distinct(t),
         Elems(s) \subseteq Elems(t)
  PROVE  Len(s) = Len(t) <=> Elems(s) = Elems(t)
<1>1. /\ IsFiniteSet(Elems(s)) /\ Cardinality(Elems(s)) = Len(s)
      /\ IsFiniteSet(Elems(t)) /\ Cardinality(Elems(t)) = Len(t)
  BY DistinctCounts
<1>2. Cardinality(Elems(s)) = Cardinality(Elems(t)) => Elems(s) = Elems(t)
  BY <1>1, FS_Subset
<1> QED  BY <1>1, <1>2

-----------------------------------------------------------------------------
\* Each way in which a call changes a slot keeps its history good.
LEMMA LaterGood ==
  ASSUME NEW G, NEW L \in Seq(Mesgs), NEW T, NEW S, NEW up,
         NEW top \in 0 .. MaxSends, NEW next \in 0 .. MaxSends, top <= next,
         GoodHistory(G, L, T, S, up, top)
  PROVE  GoodHistory(G, L, T, S, up, next)
<1>1. Elems(L) \subseteq Nat
  BY NumbersOfMessages
<1>2. \A m \in Elems(L) : m <= next
  BY <1>1, HistoryAssumption DEF GoodHistory, Past
<1> QED  BY <1>2 DEF GoodHistory, Past

\* A slot whose items are all deleted, or that is closed, starts again.
LEMMA ForgottenGood ==
  ASSUME NEW G, NEW top, G.openFlag => Live(G) = {} /\ G.group_name # EmptyName
  PROVE  GoodHistory(G, <<>>, NothingGot, FromStart, TRUE, top)
<1>1. Elems(<<>>) = {} /\ Ascending(<<>>) /\ Len(<<>>) = 0
  BY NothingFacts
<1>2. \A r \in Receivers : NothingGot[r] = <<>>
  BY DEF NothingGot
<1> PICK none : none = <<>>
  OBVIOUS
<1>3. Past(none, NothingGot, top)
  BY <1>1, <1>2 DEF Past
<1>4. G.openFlag => /\ Matched(G, none, NothingGot) /\ Lined(G, NothingGot)
                    /\ Whole(G, none, NothingGot, FromStart)
  BY <1>1 DEF Matched, Whole, Lined
<1> QED  BY <1>1, <1>2, <1>3, <1>4 DEF GoodHistory

LEMMA ClosedHistory ==
  ASSUME NEW G \in Group, NEW L, NEW T, NEW S, NEW up, NEW top,
         GoodHistory(G, L, T, S, up, top)
  PROVE  GoodHistory([G EXCEPT !.openFlag = FALSE], L, T, S, up, top)
BY DEF GoodHistory, Group

\* Nothing that was sent is owed to a receiver that has just joined.
LEMMA JoinedHistory ==
  ASSUME NEW G \in Group, NEW L \in Seq(Mesgs), NEW T, NEW up, NEW top,
         NEW S \in [Receivers -> Nat], NEW r \in Receivers,
         GoodHistory(G, L, T, S, up, top)
  PROVE  GoodHistory([G EXCEPT !.receivers = Append(@, r)], L, T,
                     [S EXCEPT ![r] = Len(L)], up, top)
<1> PICK H : H = [G EXCEPT !.receivers = Append(@, r)]
  OBVIOUS
<1> PICK missed : missed = [S EXCEPT ![r] = Len(L)]
  OBVIOUS
<1>1. /\ H.items = G.items /\ H.openFlag = G.openFlag
      /\ H.group_name = G.group_name
      /\ Elems(H.receivers) = Elems(G.receivers) \cup {r}
      /\ Elems(G.receivers) \subseteq Receivers
  <2>1. H.receivers = Append(G.receivers, r) /\ G.receivers \in Seq(Receivers)
    BY DEF Group
  <2>2. /\ H.items = G.items /\ H.openFlag = G.openFlag
        /\ H.group_name = G.group_name
    BY DEF Group
  <2> QED  BY <2>1, <2>2, AppendFacts, ElemsIn
<1>2. Live(H) = Live(G) /\ Stored(H) = Stored(G)
  BY <1>1 DEF Live, Stored
<1>3. ASSUME Whole(G, L, T, S) PROVE Whole(H, L, T, missed)
  <2> SUFFICES ASSUME NEW q \in Elems(H.receivers), NEW k \in 1 .. Len(L),
                      k > missed[q]
               PROVE  L[k] \in Elems(T[q]) \cup Stored(H)
    BY DEF Whole
  <2>1. q # r /\ missed[q] = S[q]
    BY <1>1
  <2> QED  BY <1>1, <1>2, <1>3, <2>1 DEF Whole
<1>4. Matched(G, L, T) => Matched(H, L, T)
  BY <1>1, <1>2 DEF Matched
<1>5. Lined(G, T) => Lined(H, T)
  BY <1>1, <1>2 DEF Lined
<1> QED  BY <1>1, <1>3, <1>4, <1>5 DEF GoodHistory

\* The message sent is above all that were; it is stored, and rising as long
\* as its item slot is above those of the others.
LEMMA SentHistory ==
  ASSUME NEW G \in Group, NEW L \in Seq(Mesgs), NEW T \in [Receivers -> Seq(Mesgs)],
         NEW S \in [Receivers -> Nat], NEW up \in BOOLEAN, NEW top \in 0 .. MaxSends,
         top < MaxSends, G.openFlag, NEW j \in ItemSlots, G.items[j].deletedFlag,
         GoodHistory(G, L, T, S, up, top)
  PROVE  GoodHistory([G EXCEPT !.items[j] = StoredItem(@, top + 1)],
                     Append(L, top + 1), T, S,
                     up /\ \A k \in Live(G) : k < j, top + 1)
<1> PICK m : m = top + 1
  OBVIOUS
<1> PICK H : H = [G EXCEPT !.items[j] = StoredItem(@, m)]
  OBVIOUS
<1> PICK M : M = Append(L, m)
  OBVIOUS
<1> PICK lifted \in BOOLEAN : lifted = (up /\ \A k \in Live(G) : k < j)
  OBVIOUS
<1>1. m \in Mesgs /\ m \in Nat
  BY HistoryAssumption
<1>2. /\ H.openFlag = TRUE /\ H.group_name = G.group_name
      /\ H.receivers = G.receivers
      /\ H.items[j] = [Mesg |-> m, readers |-> <<>>, deletedFlag |-> FALSE]
      /\ \A k \in ItemSlots : k # j => H.items[k] = G.items[k]
  BY DEF Group, StoredItem
<1>3. Live(H) = Live(G) \cup {j} /\ j \notin Live(G) /\ Live(G) \subseteq ItemSlots
  BY <1>2 DEF Live
<1>4. /\ M \in Seq(Mesgs) /\ Len(M) = Len(L) + 1 /\ Len(L) \in Nat
      /\ Elems(M) = Elems(L) \cup {m}
      /\ M[Len(L) + 1] = m /\ \A k \in 1 .. Len(L) : M[k] = L[k]
  BY <1>1, AppendFacts
<1>5. Stored(H) = Stored(G) \cup {m}
  <2>1. \A k \in Live(G) : H.items[k].Mesg = G.items[k].Mesg
    BY <1>2, <1>3
  <2>2. H.items[j].Mesg = m
    BY <1>2
  <2> QED  BY <1>3, <2>1, <2>2 DEF Stored
<1>6. /\ Elems(L) \subseteq Nat
      /\ \A x \in Elems(L) : x < m
      /\ \A r \in Receivers : Elems(T[r]) \subseteq Elems(L)
  <2>1. Elems(L) \subseteq Nat
    BY NumbersOfMessages
  <2> QED  BY <2>1 DEF GoodHistory, Past
<1>7. Past(M, T, m)
  <2>1. \A x \in Elems(M) : x <= m
    BY <1>1, <1>4, <1>6
  <2>2. \A r \in Receivers : Elems(T[r]) \subseteq Elems(M)
    BY <1>4, <1>6
  <2> QED  BY <2>1, <2>2 DEF Past
<1>8. Matched(H, M, T)
  <2>1. Matched(G, L, T)
    BY DEF GoodHistory
  <2>2. \A k \in Live(G) : H.items[k] = G.items[k] /\ G.items[k].Mesg # m
    BY <1>1, <1>2, <1>3, <1>6, <2>1 DEF Matched
  <2>3. \A r \in Receivers : m \notin Elems(T[r])
    BY <1>1, <1>6
  <2>4. H.items[j].Mesg = m /\ Elems(H.items[j].readers) = {}
    BY <1>2, NothingFacts
  <2>5. ASSUME NEW k \in Live(H)
        PROVE  /\ H.items[k].Mesg \in Elems(M)
               /\ \A r \in Receivers :
                    r \in Elems(H.items[k].readers) <=> H.items[k].Mesg \in Elems(T[r])
    <3>1. CASE k = j
      BY <1>4, <2>3, <2>4, <3>1
    <3>2. CASE k \in Live(G)
      BY <1>4, <2>1, <2>2, <3>2 DEF Matched
    <3> QED  BY <1>3, <3>1, <3>2
  <2>6. ASSUME NEW k \in Live(H), NEW l \in Live(H),
               H.items[k].Mesg = H.items[l].Mesg
        PROVE  k = l
    <3>1. CASE k = j \/ l = j
      BY <1>3, <2>2, <2>4, <2>6, <3>1
    <3>2. CASE k \in Live(G) /\ l \in Live(G)
      BY <2>1, <2>2, <2>6, <3>2 DEF Matched
    <3> QED  BY <1>3, <3>1, <3>2
  <2>7. H.group_name # EmptyName
    BY <1>2, <2>1 DEF Matched
  <2> QED  BY <2>5, <2>6, <2>7 DEF Matched
<1>9. Whole(H, M, T, S)
  <2>1. Whole(G, L, T, S)
    BY DEF GoodHistory
  <2> SUFFICES ASSUME NEW r \in Elems(H.receivers), NEW k \in 1 .. Len(M), k > S[r]
               PROVE  M[k] \in Elems(T[r]) \cup Stored(H)
    BY DEF Whole
  <2>2. CASE k = Len(L) + 1
    BY <1>4, <1>5, <2>2
  <2>3. CASE k \in 1 .. Len(L)
    BY <1>2, <1>4, <1>5, <2>1, <2>3 DEF Whole
  <2> QED  BY <1>4, <2>2, <2>3
<1>10. ASSUME lifted PROVE Lined(H, T)
  <2>1. Lined(G, T) /\ Matched(G, L, T) /\ \A k \in Live(G) : k < j
    BY <1>10 DEF GoodHistory
  <2>2. \A k \in Live(G) : H.items[k] = G.items[k] /\ G.items[k].Mesg \in Elems(L)
    BY <1>2, <1>3, <2>1 DEF Matched
  <2>3. H.items[j].Mesg = m
    BY <1>2
  <2>4. ASSUME NEW k \in Live(H), NEW l \in Live(H), k < l
        PROVE  H.items[k].Mesg < H.items[l].Mesg
    <3>1. ItemSlots \subseteq Int
      BY DEF ItemSlots
    <3>2. k \in Live(G)
      BY <1>3, <2>1, <2>4, <3>1
    <3>3. CASE l = j
      BY <1>6, <2>2, <2>3, <3>2, <3>3
    <3>4. CASE l \in Live(G)
      BY <2>1, <2>2, <2>4, <3>2, <3>4 DEF Lined
    <3> QED  BY <1>3, <3>3, <3>4
  <2>5. ASSUME NEW k \in Live(H), NEW r \in Receivers,
               r \notin Elems(H.items[k].readers), NEW x \in Elems(T[r])
        PROVE  x < H.items[k].Mesg
    <3>1. CASE k = j
      BY <1>6, <2>3, <3>1
    <3>2. CASE k \in Live(G)
      BY <2>1, <2>2, <2>5, <3>2 DEF Lined
    <3> QED  BY <1>3, <3>1, <3>2
  <2> QED  BY <2>4, <2>5 DEF Lined
<1>11. lifted => \A r \in Receivers : Ascending(T[r])
  BY DEF GoodHistory
<1>12. GoodHistory(H, M, T, S, lifted, m)
  BY <1>7, <1>8, <1>9, <1>10, <1>11 DEF GoodHistory
<1> QED  BY <1>12

\* What becomes of the item that r reads, and of the others.
ReadEffect(G, H, j, r) ==
    /\ H.openFlag = G.openFlag /\ H.group_name = G.group_name
    /\ H.receivers = G.receivers
    /\ \A k \in ItemSlots : k # j => H.items[k] = G.items[k]
    /\ H.items[j].Mesg = G.items[j].Mesg
    /\ Elems(H.items[j].readers) = Elems(G.items[j].readers) \cup {r}
    /\ j \in Live(H) <=> Elems(H.items[j].readers) # Elems(G.receivers)
    /\ \A k : k # j => (k \in Live(H) <=> k \in Live(G))

LEMMA ReadItem ==
  ASSUME NEW G \in Group, GoodGroup(G), G.openFlag, NEW j \in Live(G),
         NEW r \in Elems(G.receivers), r \notin Elems(G.items[j].readers)
  PROVE  ReadEffect(G, [G EXCEPT !.items[j] = ReadBy(G, j, r)], j, r)
<1> PICK H : H = [G EXCEPT !.items[j] = ReadBy(G, j, r)]
  OBVIOUS
<1> PICK t : t = Append(G.items[j].readers, r)
  OBVIOUS
<1>1. /\ j \in ItemSlots /\ G.items \in [ItemSlots -> Item] /\ G.items[j] \in Item
      /\ ~G.items[j].deletedFlag
      /\ G.receivers \in Seq(Receivers) /\ G.items[j].readers \in Seq(Receivers)
  BY DEF Live, Group, Item
<1>2. GoodItem(G.items[j], G.receivers) /\ Distinct(G.receivers)
  BY <1>1 DEF GoodGroup
<1>3. r \in Receivers
  BY <1>1, ElemsIn
<1>4. /\ t \in Seq(Receivers) /\ Distinct(t)
      /\ Elems(t) = Elems(G.items[j].readers) \cup {r}
  BY <1>1, <1>2, <1>3, AppendFacts DEF GoodItem
<1>5. Elems(t) \subseteq Elems(G.receivers)
  BY <1>2, <1>4 DEF GoodItem
<1>6. Len(t) = Len(G.receivers) <=> Elems(t) = Elems(G.receivers)
  BY <1>1, <1>2, <1>4, <1>5, CountTellsAll
<1>7. /\ H.openFlag = G.openFlag /\ H.group_name = G.group_name
      /\ H.receivers = G.receivers
      /\ \A k \in ItemSlots : k # j => H.items[k] = G.items[k]
      /\ H.items[j] = ReadBy(G, j, r)
  BY <1>1 DEF Group
<1>8. /\ H.items[j].Mesg = G.items[j].Mesg /\ H.items[j].readers = t
      /\ H.items[j].deletedFlag = (Len(t) = Len(G.receivers))
  BY <1>1, <1>7 DEF ReadBy, Item
<1>9. j \in Live(H) <=> Elems(t) # Elems(G.receivers)
  BY <1>1, <1>6, <1>8 DEF Live
<1>10. \A k : k # j => (k \in Live(H) <=> k \in Live(G))
  BY <1>7 DEF Live
<1>11. ReadEffect(G, H, j, r)
  BY <1>4, <1>7, <1>8, <1>9, <1>10 DEF ReadEffect
<1> QED  BY <1>11

\* What is read is got; an item that is deleted was got by all receivers; what
\* is read first is the lowest that is unread.
NextFor(G, r, j) ==
    /\ G.openFlag /\ r \in Elems(G.receivers)
    /\ j \in Live(G) /\ r \notin Elems(G.items[j].readers)
    /\ \A k \in Live(G) : r \notin Elems(G.items[k].readers) => j <= k

LEMMA ReadHistory ==
  ASSUME NEW G \in Group, GoodGroup(G), NEW j, NEW r, NextFor(G, r, j),
         NEW L \in Seq(Mesgs), NEW T \in [Receivers -> Seq(Mesgs)],
         NEW S, NEW up, NEW top,
         GoodHistory(G, L, T, S, up, top),
         NEW m, m = G.items[j].Mesg,
         NEW H, H = [G EXCEPT !.items[j] = ReadBy(G, j, r)],
         NEW had, had = [T EXCEPT ![r] = Append(@, m)]
  PROVE  GoodHistory(H, L, had, S, up, top)
<1> /\ G.openFlag /\ r \in Elems(G.receivers)
    /\ j \in Live(G) /\ r \notin Elems(G.items[j].readers)
    /\ \A k \in Live(G) : r \notin Elems(G.items[k].readers) => j <= k
  BY DEF NextFor
<1>0. ReadEffect(G, H, j, r)
  BY ReadItem
<1>1. /\ H.openFlag = G.openFlag /\ H.group_name = G.group_name
      /\ H.receivers = G.receivers
      /\ \A k \in ItemSlots : k # j => H.items[k] = G.items[k]
      /\ H.items[j].Mesg = G.items[j].Mesg
      /\ Elems(H.items[j].readers) = Elems(G.items[j].readers) \cup {r}
      /\ j \in Live(H) <=> Elems(H.items[j].readers) # Elems(G.receivers)
      /\ \A k : k # j => (k \in Live(H) <=> k \in Live(G))
  BY <1>0 DEF ReadEffect
<1>2. r \in Receivers /\ Live(G) \subseteq ItemSlots
  BY ElemsIn DEF Group, Live
<1>3. Matched(G, L, T) /\ Past(L, T, top) /\ Whole(G, L, T, S)
  BY DEF GoodHistory
<1>4. m \in Elems(L) /\ m \in Mesgs /\ m \notin Elems(T[r])
  BY <1>2, <1>3, ElemsIn DEF Matched
<1>5. /\ Elems(had[r]) = Elems(T[r]) \cup {m} /\ had[r] = Append(T[r], m)
      /\ \A q \in Receivers : q # r => had[q] = T[q]
  BY <1>2, <1>4, AppendFacts
<1>6. /\ Live(H) \subseteq Live(G)
      /\ \A k \in Live(G) : H.items[k].Mesg = G.items[k].Mesg
      /\ \A k \in Live(G) : k # j => H.items[k].readers = G.items[k].readers
  BY <1>1, <1>2
<1>7. Past(L, had, top)
  <2>1. \A q \in Receivers : Elems(T[q]) \subseteq Elems(L)
    BY <1>3 DEF Past
  <2>2. \A q \in Receivers : Elems(had[q]) \subseteq Elems(L)
    BY <1>4, <1>5, <2>1
  <2> QED  BY <1>3, <2>2 DEF Past
<1>8. Matched(H, L, had)
  <2>1. ASSUME NEW k \in Live(H), NEW q \in Receivers
        PROVE  q \in Elems(H.items[k].readers) <=> H.items[k].Mesg \in Elems(had[q])
    <3>1. q \in Elems(G.items[k].readers) <=> G.items[k].Mesg \in Elems(T[q])
      BY <1>3, <1>6 DEF Matched
    <3>2. CASE k = j
      <4>1. H.items[k].Mesg = m
        BY <1>1, <3>2
      <4>2. q = r => m \in Elems(had[q]) /\ q \in Elems(H.items[k].readers)
        BY <1>1, <1>5, <3>2
      <4>3. q # r => /\ had[q] = T[q]
                     /\ (q \in Elems(H.items[k].readers)
                           <=> q \in Elems(G.items[k].readers))
        BY <1>1, <1>5, <3>2
      <4> QED  BY <3>1, <3>2, <4>1, <4>2, <4>3
    <3>3. CASE k # j
      <4>1. G.items[k].Mesg # m
        BY <1>3, <1>6, <3>3 DEF Matched
      <4> QED  BY <1>5, <1>6, <3>1, <3>3, <4>1
    <3> QED  BY <3>2, <3>3
  <2>2. \A k \in Live(H) : H.items[k].Mesg \in Elems(L)
    BY <1>3, <1>6 DEF Matched
  <2>3. ASSUME NEW k \in Live(H), NEW l \in Live(H),
               H.items[k].Mesg = H.items[l].Mesg
        PROVE  k = l
    BY <1>3, <1>6, <2>3 DEF Matched
  <2>4. H.group_name # EmptyName
    BY <1>1, <1>3 DEF Matched
  <2> QED  BY <2>1, <2>2, <2>3, <2>4 DEF Matched
<1>9. Whole(H, L, had, S)
  <2> SUFFICES ASSUME NEW q \in Elems(G.receivers), NEW k \in 1 .. Len(L), k > S[q]
               PROVE  L[k] \in Elems(had[q]) \cup Stored(H)
    BY <1>1 DEF Whole
  <2>1. q \in Receivers /\ Elems(T[q]) \subseteq Elems(had[q])
    <3>1. q \in Receivers
      BY ElemsIn DEF Group
    <3> QED  BY <1>5, <3>1
  <2>2. CASE L[k] \in Elems(T[q])
    BY <2>1, <2>2
  <2>3. ASSUME NEW l \in Live(G), L[k] = G.items[l].Mesg
        PROVE  L[k] \in Elems(had[q]) \cup Stored(H)
    <3>1. CASE l \in Live(H)
      BY <1>6, <2>3, <3>1 DEF Stored
    <3>2. CASE l \notin Live(H)
      <4>1. l = j /\ q \in Elems(G.items[j].readers) \cup {r}
        BY <1>1, <3>2, <2>3
      <4>2. q # r => m \in Elems(T[q])
        BY <1>3, <2>1, <4>1 DEF Matched
      <4> QED  BY <1>5, <2>1, <2>3, <4>1, <4>2
    <3> QED  BY <3>1, <3>2
  <2>4. L[k] \in Elems(T[q]) \cup Stored(G)
    BY <1>3 DEF Whole
  <2> QED  BY <2>2, <2>3, <2>4 DEF Stored
<1>10. ASSUME up PROVE Lined(H, had)
  <2>1. Lined(G, T)
    BY <1>10 DEF GoodHistory
  <2>2. ASSUME NEW k \in Live(H), NEW q \in Receivers,
               q \notin Elems(H.items[k].readers), NEW x \in Elems(had[q])
        PROVE  x < H.items[k].Mesg
    <3>1. q \notin Elems(G.items[k].readers) /\ k \in Live(G)
          /\ H.items[k].Mesg = G.items[k].Mesg
      BY <1>1, <1>6, <2>2
    <3>2. CASE x \in Elems(T[q])
      BY <2>1, <3>1, <3>2 DEF Lined
    <3>3. CASE q = r /\ x = m
      <4>1. k # j /\ j <= k
        BY <1>1, <2>2, <3>1, <3>3
      <4>2. j < k
        BY <1>2, <3>1, <4>1 DEF ItemSlots
      <4> QED  BY <2>1, <3>1, <3>3, <4>2 DEF Lined
    <3> QED  BY <1>5, <2>2, <3>2, <3>3
  <2>3. \A k, l \in Live(H) : k < l => H.items[k].Mesg < H.items[l].Mesg
    BY <1>6, <2>1 DEF Lined
  <2> QED  BY <2>2, <2>3 DEF Lined
<1>11. ASSUME up, NEW q \in Receivers PROVE Ascending(had[q])
  <2>1. Ascending(T[q]) /\ Lined(G, T)
    BY <1>11 DEF GoodHistory
  <2>2. CASE q = r
    <3>1. \A x \in Elems(T[r]) : x < m
      BY <1>2, <2>1 DEF Lined
    <3> QED  BY <1>2, <1>4, <1>5, <2>1, <2>2, <3>1, AscendingAppend
  <2>3. CASE q # r
    BY <1>5, <2>1, <2>3
  <2> QED  BY <2>2, <2>3
<1>12. GoodHistory(H, L, had, S, up, top)
  BY <1>7, <1>8, <1>9, <1>10, <1>11 DEF GoodHistory
<1> QED  BY <1>12

-----------------------------------------------------------------------------
\* What each call does to the one group that it changes, if it changes any.
OpenedBy(name, i, H) ==
    /\ i = First(EmptyGroupSlots) /\ ~groups[i].openFlag
    /\ groups' = [groups EXCEPT ![i] = H]
    /\ H.openFlag /\ H.group_name = name /\ H.receivers = <<>> /\ Live(H) = {}

LEMMA OpenEffect ==
  ASSUME IInv, NEW name \in Names, opengroup(name), groups' # groups
  PROVE  \E i \in Slots, H \in Group : OpenedBy(name, i, H)
<1> PICK i : i = First(EmptyGroupSlots)
  OBVIOUS
<1> PICK H : H = [group_name |-> name, senders |-> <<>>, receivers |-> <<>>,
                  items |-> Deleted(groups[i].items), openFlag |-> TRUE]
  OBVIOUS
<1>1. EmptyGroupSlots # {} /\ groups' = [groups EXCEPT ![i] = H]
  BY DEF opengroup, RejectName, Return, Succeed
<1>2. i \in Slots /\ i \in EmptyGroupSlots
  BY <1>1, SlotsOfNames, FirstIn
<1>3. groups[i].items \in [ItemSlots -> Item]
  BY <1>2 DEF IInv, TypeOK, Group
<1>4. H \in Group
  BY <1>2, OpenedGood DEF IInv, TypeOK
<1>5. Live(H) = {}
  BY <1>3, DeletedFacts DEF Live
<1>6. OpenedBy(name, i, H)
  BY <1>1, <1>2, <1>5 DEF OpenedBy, EmptyGroupSlots
<1> QED  BY <1>2, <1>4, <1>6

ClosedBy(i) == groups' = [groups EXCEPT ![i] = [groups[i] EXCEPT !.openFlag = FALSE]]

LEMMA CloseEffect ==
  ASSUME IInv, NEW name \in Names, closegroup(name), groups' # groups
  PROVE  \E i \in Slots : ClosedBy(i)
<1> PICK i : i = First(Named(name))
  OBVIOUS
<1>1. Named(name) # {} /\ groups' = [groups EXCEPT ![i] = [groups[i] EXCEPT !.openFlag = FALSE]]
  BY DEF closegroup, RejectName, Return, Succeed
<1>2. i \in Slots
  BY <1>1, SlotsOfNames, FirstIn
<1> QED  BY <1>1, <1>2 DEF ClosedBy

RecoveredBy(name, i, H) ==
    /\ i = First(Named(name))
    /\ groups' = [groups EXCEPT ![i] = H]
    /\ H.openFlag /\ H.group_name # EmptyName /\ Live(H) = {}
    /\ H.receivers = groups[i].receivers

LEMMA RecoverEffect ==
  ASSUME IInv, NEW name \in Names, recovergroup(name), Named(name) # {}
  PROVE  \E i \in Slots, H \in Group : RecoveredBy(name, i, H)
<1> PICK i : i = First(Named(name))
  OBVIOUS
<1> PICK H : H = [groups[i] EXCEPT !.items = Deleted(@), !.openFlag = TRUE]
  OBVIOUS
<1>1. groups' = [groups EXCEPT ![i] = H]
  BY NamesAssumption DEF recovergroup, RejectName, Succeed
<1>2. i \in Slots /\ i \in Named(name)
  BY <1>1, SlotsOfNames, FirstIn
<1>3. groups[i] \in Group /\ GoodGroup(groups[i])
  BY <1>2 DEF IInv, TypeOK
<1>4. H \in Group /\ H.group_name = groups[i].group_name
  BY <1>3, RecoveredGood
<1>5. /\ H.items = Deleted(groups[i].items) /\ H.openFlag
      /\ H.receivers = groups[i].receivers /\ groups[i].items \in [ItemSlots -> Item]
  BY <1>3 DEF Group
<1>6. Live(H) = {}
  BY <1>5, DeletedFacts DEF Live
<1>7. groups[i].group_name # EmptyName
  BY <1>2, NamesAssumption DEF Named, Matches
<1>8. RecoveredBy(name, i, H)
  BY <1>1, <1>4, <1>5, <1>6, <1>7 DEF RecoveredBy
<1> QED  BY <1>2, <1>4, <1>8

JoinedBy(name, r, i) ==
    /\ i = First(Found(name)) /\ groups[i].openFlag
    /\ r \notin Elems(groups[i].receivers)
    /\ Len(groups[i].receivers) < MAX_RECEIVERS
    /\ groups' = [groups EXCEPT ![i] = [groups[i] EXCEPT !.receivers = Append(@, r)]]

LEMMA JoinEffect ==
  ASSUME IInv, NEW name \in Names, NEW r \in Receivers,
         add_receiver_to_group(name, r), groups' # groups
  PROVE  \E i \in Slots : JoinedBy(name, r, i)
<1> PICK i : i = First(Found(name))
  OBVIOUS
<1>1. /\ Found(name) # {} /\ r \notin Elems(groups[i].receivers)
      /\ Len(groups[i].receivers) < MAX_RECEIVERS
      /\ groups' = [groups EXCEPT ![i] = [groups[i] EXCEPT !.receivers = Append(@, r)]]
  BY DEF add_receiver_to_group, NotFound, Return, Succeed
<1>2. i \in Slots /\ i \in Found(name)
  BY <1>1, SlotsOfNames, FirstIn
<1>3. groups[i].openFlag
  BY <1>2 DEF Found
<1> QED  BY <1>1, <1>2, <1>3 DEF JoinedBy

SentBy(name, m, i, j) ==
    /\ i = First(Found(name)) /\ groups[i].openFlag
    /\ j = First(EmptyItemSlots(i)) /\ groups[i].items[j].deletedFlag
    /\ groups' = [groups EXCEPT ![i] = [groups[i] EXCEPT !.items[j] = StoredItem(@, m)]]

LEMMA SendEffect ==
  ASSUME IInv, NEW name \in Names, NEW m, sendmsg(name, m), groups' # groups
  PROVE  \E i \in Slots, j \in ItemSlots : SentBy(name, m, i, j)
<1> PICK i : i = First(Found(name))
  OBVIOUS
<1> PICK j : j = First(EmptyItemSlots(i))
  OBVIOUS
<1>1. /\ Found(name) # {} /\ EmptyItemSlots(i) # {}
      /\ groups' = [groups EXCEPT ![i] =
                      [groups[i] EXCEPT !.items[j] = StoredItem(@, m)]]
  BY DEF sendmsg, NotFound, Return, Succeed
<1>2. i \in Slots /\ i \in Found(name) /\ j \in ItemSlots /\ j \in EmptyItemSlots(i)
  BY <1>1, SlotsOfNames, FirstIn
<1>3. groups[i].openFlag /\ groups[i].items[j].deletedFlag
  BY <1>2 DEF Found, EmptyItemSlots
<1> QED  BY <1>1, <1>2, <1>3 DEF SentBy

ReceivedBy(name, r, i, j) ==
    /\ i = First(Found(name)) /\ NextFor(groups[i], r, j)
    /\ groups' = [groups EXCEPT ![i] =
                    [groups[i] EXCEPT !.items[j] = ReadBy(groups[i], j, r)]]
    /\ reply'.mesg = groups[i].items[j].Mesg

LEMMA ReceiveEffect ==
  ASSUME IInv, NEW name \in Names, NEW r \in Receivers,
         receivemsg(name, r), groups' # groups
  PROVE  \E i \in Slots, j \in ItemSlots : ReceivedBy(name, r, i, j)
<1> PICK i : i = First(Found(name))
  OBVIOUS
<1> PICK j : j = NextUnread(i, r)
  OBVIOUS
<1>1. /\ Found(name) # {} /\ r \in Elems(groups[i].receivers) /\ Unread(i, r) # {}
      /\ groups' = [groups EXCEPT ![i].items[j] = ReadBy(groups[i], j, r)]
      /\ reply' = [status |-> MESSAGING_SUCCESS, mesg |-> groups[i].items[j].Mesg]
  BY DEF receivemsg, NotFound, Return
<1>2. /\ i \in Slots /\ i \in Found(name)
      /\ j \in ItemSlots /\ j \in Unread(i, r) /\ \A k \in Unread(i, r) : j <= k
  BY <1>1, SlotsOfNames, FirstIn DEF NextUnread
<1>3. groups[i].openFlag /\ groups \in [Slots -> Group]
  BY <1>2 DEF Found, IInv, TypeOK
<1>4. /\ j \in Live(groups[i]) /\ r \notin Elems(groups[i].items[j].readers)
      /\ \A k \in Live(groups[i]) :
           r \notin Elems(groups[i].items[k].readers) => j <= k
  BY <1>2 DEF Live, Unread
<1>5. groups' = [groups EXCEPT ![i] =
                   [groups[i] EXCEPT !.items[j] = ReadBy(groups[i], j, r)]]
  BY <1>1, <1>2, <1>3
<1>6. reply'.mesg = groups[i].items[j].Mesg
  BY <1>1
<1>7. NextFor(groups[i], r, j)
  BY <1>1, <1>3, <1>4 DEF NextFor
<1> QED  BY <1>2, <1>5, <1>6, <1>7 DEF ReceivedBy

-----------------------------------------------------------------------------
Histories == HistoryTypeOK /\ GoodHistories

\* One slot with a good history takes the place of another.
LEMMA ReplaceHistory ==
  ASSUME TypeOK, Histories, NEW i \in Slots, NEW G,
         NEW L \in Seq(Mesgs), NEW T \in [Receivers -> Seq(Mesgs)],
         NEW S \in [Receivers -> Nat], NEW up \in BOOLEAN,
         sent' \in 0 .. MaxSends, sent <= sent',
         GoodHistory(G, L, T, S, up, sent'),
         groups' = [groups EXCEPT ![i] = G], log' = [log EXCEPT ![i] = L],
         got' = [got EXCEPT ![i] = T], since' = [since EXCEPT ![i] = S],
         rising' = [rising EXCEPT ![i] = up]
  PROVE  Histories'
<1>1. HistoryTypeOK'
  BY DEF Histories, HistoryTypeOK
<1>2. ASSUME NEW k \in Slots
      PROVE  GoodHistory(groups'[k], log'[k], got'[k], since'[k], rising'[k], sent')
  <2>1. CASE k = i
    <3>1. /\ groups'[k] = G /\ log'[k] = L /\ got'[k] = T /\ since'[k] = S
          /\ rising'[k] = up
      BY <2>1 DEF TypeOK, Histories, HistoryTypeOK
    <3> QED  BY <3>1
  <2>2. CASE k # i
    <3>1. /\ groups'[k] = groups[k] /\ log'[k] = log[k] /\ got'[k] = got[k]
          /\ since'[k] = since[k] /\ rising'[k] = rising[k]
      BY <2>2 DEF TypeOK, Histories, HistoryTypeOK
    <3>2. GoodHistory(groups[k], log[k], got[k], since[k], rising[k], sent)
      BY DEF Histories, GoodHistories
    <3>3. log[k] \in Seq(Mesgs) /\ sent \in 0 .. MaxSends
      BY DEF Histories, HistoryTypeOK
    <3>4. GoodHistory(groups[k], log[k], got[k], since[k], rising[k], sent')
      BY <3>2, <3>3, LaterGood
    <3> QED  BY <3>1, <3>4
  <2> QED  BY <2>1, <2>2
<1> QED  BY <1>1, <1>2 DEF Histories, GoodHistories

\* A call that changes no group adds nothing to the history.
LEMMA SameHistory ==
  ASSUME Histories, UNCHANGED <<groups, hvars>>
  PROVE  Histories'
BY DEF Histories, hvars, HistoryTypeOK, GoodHistories

LEMMA StartAgain ==
  ASSUME TypeOK, Histories, NEW i \in Slots, NEW G, Forget({i}),
         groups' = [groups EXCEPT ![i] = G],
         G.openFlag => Live(G) = {} /\ G.group_name # EmptyName
  PROVE  Histories'
<1>1. /\ log' = [log EXCEPT ![i] = <<>>] /\ got' = [got EXCEPT ![i] = NothingGot]
      /\ since' = [since EXCEPT ![i] = FromStart]
      /\ rising' = [rising EXCEPT ![i] = TRUE] /\ sent' = sent
  BY DEF Forget, Histories, HistoryTypeOK
<1>2. /\ <<>> \in Seq(Mesgs) /\ NothingGot \in [Receivers -> Seq(Mesgs)]
      /\ FromStart \in [Receivers -> Nat] /\ TRUE \in BOOLEAN
  BY DEF NothingGot, FromStart
<1>3. sent' \in 0 .. MaxSends /\ sent <= sent'
  BY <1>1, HistoryAssumption DEF Histories, HistoryTypeOK
<1>4. GoodHistory(G, <<>>, NothingGot, FromStart, TRUE, sent')
  BY ForgottenGood
<1> QED  BY <1>1, <1>2, <1>3, <1>4, ReplaceHistory

\* The history of one slot, and that of what a call leaves as it is.
SlotKnown(i) ==
    /\ groups[i] \in Group
    /\ log[i] \in Seq(Mesgs) /\ got[i] \in [Receivers -> Seq(Mesgs)]
    /\ since[i] \in [Receivers -> Nat] /\ rising[i] \in BOOLEAN
    /\ sent \in 0 .. MaxSends /\ sent <= sent
    /\ GoodHistory(groups[i], log[i], got[i], since[i], rising[i], sent)

SlotSame(i) ==
    /\ log = [log EXCEPT ![i] = log[i]] /\ got = [got EXCEPT ![i] = got[i]]
    /\ since = [since EXCEPT ![i] = since[i]]
    /\ rising = [rising EXCEPT ![i] = rising[i]]

LEMMA SlotHistory ==
  ASSUME TypeOK, Histories, NEW i \in Slots
  PROVE  SlotKnown(i) /\ SlotSame(i)
<1>1. sent <= sent
  BY HistoryAssumption DEF Histories, HistoryTypeOK
<1> QED  BY <1>1 DEF TypeOK, Histories, HistoryTypeOK, GoodHistories, SlotKnown, SlotSame

-----------------------------------------------------------------------------
\* The history across each call.
LEMMA HInitStep == HInit => HistoryInv
<1> SUFFICES ASSUME HInit PROVE HistoryInv
  OBVIOUS
<1>1. IInv
  BY InitStep DEF HInit
<1>2. HistoryTypeOK
  BY HistoryAssumption DEF HInit, HistoryTypeOK, NothingGot, FromStart
<1>3. ASSUME NEW i \in Slots
      PROVE  GoodHistory(groups[i], log[i], got[i], since[i], rising[i], sent)
  <2>1. /\ groups[i].openFlag = FALSE /\ log[i] = <<>> /\ got[i] = NothingGot
        /\ since[i] = FromStart /\ rising[i] = TRUE
    BY DEF HInit, Init, ZeroGroup
  <2> QED  BY <2>1, ForgottenGood
<1> QED  BY <1>1, <1>2, <1>3 DEF HistoryInv, GoodHistories

LEMMA HRestartStep ==
  ASSUME Histories, HRestart
  PROVE  Histories'
<1>1. /\ groups' = [i \in Slots |-> ZeroGroup] /\ log' = [i \in Slots |-> <<>>]
      /\ got' = [i \in Slots |-> NothingGot] /\ since' = [i \in Slots |-> FromStart]
      /\ rising' = [i \in Slots |-> TRUE] /\ sent' = sent
  BY DEF HRestart, groups_init, Forget
<1>2. HistoryTypeOK'
  BY <1>1 DEF Histories, HistoryTypeOK, NothingGot, FromStart
<1>3. ASSUME NEW i \in Slots
      PROVE  GoodHistory(groups'[i], log'[i], got'[i], since'[i], rising'[i], sent')
  <2>1. ZeroGroup.openFlag = FALSE
    BY DEF ZeroGroup
  <2>2. GoodHistory(ZeroGroup, <<>>, NothingGot, FromStart, TRUE, sent')
    BY <2>1, ForgottenGood
  <2>3. /\ groups'[i] = ZeroGroup /\ log'[i] = <<>> /\ got'[i] = NothingGot
        /\ since'[i] = FromStart /\ rising'[i] = TRUE
    BY <1>1
  <2> QED  BY <2>2, <2>3
<1> QED  BY <1>2, <1>3 DEF Histories, GoodHistories

LEMMA HOpenStep ==
  ASSUME IInv, Histories, NEW name \in Names, HOpen(name)
  PROVE  Histories'
<1>1. CASE groups' = groups
  BY <1>1, SameHistory DEF HOpen
<1>2. CASE groups' # groups
  <2>1. PICK i \in Slots, H \in Group : OpenedBy(name, i, H)
    BY <1>2, OpenEffect DEF HOpen
  <2>2. Forget({i}) /\ groups' = [groups EXCEPT ![i] = H]
    BY <1>2, <2>1 DEF HOpen, OpenedBy
  <2>3. Live(H) = {} /\ H.group_name # EmptyName
    BY <2>1, NamesAssumption DEF OpenedBy
  <2>4. TypeOK
    BY DEF IInv
  <2> QED  BY <2>2, <2>3, <2>4, StartAgain
<1> QED  BY <1>1, <1>2

LEMMA HRecoverStep ==
  ASSUME IInv, Histories, NEW name \in Names, HRecover(name)
  PROVE  Histories'
<1>1. CASE Named(name) = {}
  BY <1>1, SameHistory, NamesAssumption DEF HRecover, recovergroup, RejectName, Return
<1>2. CASE Named(name) # {}
  <2>1. PICK i \in Slots, H \in Group : RecoveredBy(name, i, H)
    BY <1>2, RecoverEffect DEF HRecover
  <2>2. Forget({i}) /\ groups' = [groups EXCEPT ![i] = H]
    BY <1>2, <2>1 DEF HRecover, RecoveredBy
  <2>3. Live(H) = {} /\ H.group_name # EmptyName
    BY <2>1 DEF RecoveredBy
  <2>4. TypeOK
    BY DEF IInv
  <2> QED  BY <2>2, <2>3, <2>4, StartAgain
<1> QED  BY <1>1, <1>2

LEMMA HCloseStep ==
  ASSUME IInv, Histories, NEW name \in Names, HClose(name)
  PROVE  Histories'
<1>1. CASE groups' = groups
  BY <1>1, SameHistory DEF HClose
<1>2. CASE groups' # groups
  <2>1. PICK i \in Slots : ClosedBy(i)
    BY <1>2, CloseEffect DEF HClose
  <2>2. TypeOK
    BY DEF IInv
  <2> SlotKnown(i) /\ SlotSame(i)
    BY <2>2, SlotHistory
  <2>3. GoodHistory([groups[i] EXCEPT !.openFlag = FALSE],
                    log[i], got[i], since[i], rising[i], sent)
    BY <2>2, ClosedHistory DEF SlotKnown
  <2>4. UNCHANGED <<sent, log, got, since, rising>>
    BY DEF HClose, hvars
  <2>5. groups' = [groups EXCEPT ![i] = [groups[i] EXCEPT !.openFlag = FALSE]]
    BY <2>1 DEF ClosedBy
  <2>6. /\ log' = [log EXCEPT ![i] = log[i]] /\ got' = [got EXCEPT ![i] = got[i]]
        /\ since' = [since EXCEPT ![i] = since[i]]
        /\ rising' = [rising EXCEPT ![i] = rising[i]]
    BY <2>4 DEF SlotSame
  <2>7. /\ log[i] \in Seq(Mesgs) /\ got[i] \in [Receivers -> Seq(Mesgs)]
        /\ since[i] \in [Receivers -> Nat] /\ rising[i] \in BOOLEAN
        /\ sent' \in 0 .. MaxSends /\ sent <= sent'
    BY <2>4 DEF SlotKnown
  <2>8. GoodHistory([groups[i] EXCEPT !.openFlag = FALSE],
                    log[i], got[i], since[i], rising[i], sent')
    BY <2>3, <2>4
  <2> QED  BY <2>2, <2>5, <2>6, <2>7, <2>8, ReplaceHistory
<1> QED  BY <1>1, <1>2

LEMMA HJoinStep ==
  ASSUME IInv, Histories, NEW name \in Names, NEW r \in Receivers, HJoin(name, r)
  PROVE  Histories'
<1>1. CASE groups' = groups
  BY <1>1, SameHistory DEF HJoin, hvars
<1>2. CASE groups' # groups
  <2>1. PICK i \in Slots : JoinedBy(name, r, i)
    BY <1>2, JoinEffect DEF HJoin
  <2>2. TypeOK
    BY DEF IInv
  <2> SlotKnown(i) /\ SlotSame(i)
    BY <2>2, SlotHistory
  <2> PICK H : H = [groups[i] EXCEPT !.receivers = Append(@, r)]
    OBVIOUS
  <2> PICK S : S = [since[i] EXCEPT ![r] = Len(log[i])]
    OBVIOUS
  <2>3. GoodHistory(H, log[i], got[i], S, rising[i], sent)
    BY <2>2, JoinedHistory DEF SlotKnown
  <2>4. since' = [since EXCEPT ![i][r] = Len(log[i])]
    BY <1>2, <2>1 DEF HJoin, JoinedBy
  <2>5. since' = [since EXCEPT ![i] = S] /\ S \in [Receivers -> Nat]
    BY <2>4 DEF Histories, HistoryTypeOK
  <2>6. UNCHANGED <<sent, log, got, rising>>
    BY DEF HJoin
  <2>7. groups' = [groups EXCEPT ![i] = H]
    BY <2>1 DEF JoinedBy
  <2>8. /\ log' = [log EXCEPT ![i] = log[i]] /\ got' = [got EXCEPT ![i] = got[i]]
        /\ rising' = [rising EXCEPT ![i] = rising[i]]
    BY <2>6 DEF SlotSame
  <2>9. /\ log[i] \in Seq(Mesgs) /\ got[i] \in [Receivers -> Seq(Mesgs)]
        /\ rising[i] \in BOOLEAN /\ sent' \in 0 .. MaxSends /\ sent <= sent'
    BY <2>6 DEF SlotKnown
  <2>10. GoodHistory(H, log[i], got[i], S, rising[i], sent')
    BY <2>3, <2>6
  <2> QED  BY <2>2, <2>5, <2>7, <2>8, <2>9, <2>10, ReplaceHistory
<1> QED  BY <1>1, <1>2

LEMMA HSendStep ==
  ASSUME IInv, Histories, NEW name \in Names, HSend(name)
  PROVE  Histories'
<1>1. CASE groups' = groups
  BY <1>1, SameHistory DEF HSend, hvars
<1>2. CASE groups' # groups
  <2>1. PICK i \in Slots, j \in ItemSlots : SentBy(name, sent + 1, i, j)
    BY <1>2, SendEffect DEF HSend
  <2>2. TypeOK
    BY DEF IInv
  <2> SlotKnown(i) /\ SlotSame(i)
    BY <2>2, SlotHistory
  <2> PICK H : H = [groups[i] EXCEPT !.items[j] = StoredItem(@, sent + 1)]
    OBVIOUS
  <2> PICK L : L = Append(log[i], sent + 1)
    OBVIOUS
  <2> PICK up \in BOOLEAN : up = (rising[i] /\ \A k \in Live(groups[i]) : k < j)
    OBVIOUS
  <2>3. groups[i].openFlag /\ groups[i].items[j].deletedFlag /\ sent < MaxSends
    BY <2>1 DEF SentBy, HSend
  <2>4. GoodHistory(H, L, got[i], since[i], up, sent + 1)
    BY <2>2, <2>3, SentHistory DEF SlotKnown
  <2>5. /\ sent' = sent + 1 /\ log' = [log EXCEPT ![i] = Append(@, sent + 1)]
        /\ rising' = [rising EXCEPT ![i] = @ /\ \A k \in Live(groups[i]) : k < j]
        /\ got' = got /\ since' = since
    BY <1>2, <2>1 DEF HSend, SentBy
  <2>6. sent + 1 \in Mesgs /\ sent' \in 0 .. MaxSends /\ sent <= sent'
    BY <2>3, <2>5, HistoryAssumption DEF Histories, HistoryTypeOK
  <2>7. log' = [log EXCEPT ![i] = L] /\ L \in Seq(Mesgs)
    BY <2>5, <2>6 DEF Histories, HistoryTypeOK
  <2>8. rising' = [rising EXCEPT ![i] = up]
    BY <2>5 DEF Histories, HistoryTypeOK
  <2>9. groups' = [groups EXCEPT ![i] = H]
    BY <2>1 DEF SentBy
  <2>10. GoodHistory(H, L, got[i], since[i], up, sent')
    BY <2>4, <2>5
  <2>11. /\ got' = [got EXCEPT ![i] = got[i]]
         /\ since' = [since EXCEPT ![i] = since[i]]
    BY <2>5 DEF SlotSame
  <2>12. got[i] \in [Receivers -> Seq(Mesgs)] /\ since[i] \in [Receivers -> Nat]
    BY DEF SlotKnown
  <2> QED  BY <2>2, <2>6, <2>7, <2>8, <2>9, <2>10, <2>11, <2>12, ReplaceHistory
<1> QED  BY <1>1, <1>2

LEMMA HReceiveStep ==
  ASSUME IInv, Histories, NEW name \in Names, NEW r \in Receivers, HReceive(name, r)
  PROVE  Histories'
<1>1. CASE groups' = groups
  BY <1>1, SameHistory DEF HReceive, hvars
<1>2. CASE groups' # groups
  <2>1. PICK i \in Slots, j \in ItemSlots : ReceivedBy(name, r, i, j)
    BY <1>2, ReceiveEffect DEF HReceive
  <2>2. TypeOK /\ GoodGroup(groups[i])
    BY DEF IInv
  <2> SlotKnown(i) /\ SlotSame(i)
    BY <2>2, SlotHistory
  <2> PICK m : m = groups[i].items[j].Mesg
    OBVIOUS
  <2> PICK H : H = [groups[i] EXCEPT !.items[j] = ReadBy(groups[i], j, r)]
    OBVIOUS
  <2> PICK T : T = [got[i] EXCEPT ![r] = Append(@, m)]
    OBVIOUS
  <2>3. NextFor(groups[i], r, j)
    BY <2>1 DEF ReceivedBy
  <2>4. GoodHistory(H, log[i], T, since[i], rising[i], sent) /\ m \in Mesgs
    <3>1. /\ groups[i] \in Group /\ log[i] \in Seq(Mesgs)
          /\ got[i] \in [Receivers -> Seq(Mesgs)] /\ rising[i] \in BOOLEAN
          /\ GoodHistory(groups[i], log[i], got[i], since[i], rising[i], sent)
      BY DEF SlotKnown
    <3>2. GoodHistory(H, log[i], T, since[i], rising[i], sent)
      BY <2>2, <2>3, <3>1, ReadHistory
    <3>3. m \in Elems(log[i])
      BY <2>3, <3>1 DEF GoodHistory, Matched, NextFor
    <3> QED  BY <3>1, <3>2, <3>3, ElemsIn
  <2>5. got' = [got EXCEPT ![i][r] = Append(@, m)]
    BY <1>2, <2>1 DEF HReceive, ReceivedBy
  <2>6. got' = [got EXCEPT ![i] = T] /\ T \in [Receivers -> Seq(Mesgs)]
    BY <2>4, <2>5 DEF Histories, HistoryTypeOK
  <2>7. UNCHANGED <<sent, log, since, rising>>
    BY DEF HReceive
  <2>8. groups' = [groups EXCEPT ![i] = H]
    BY <2>1 DEF ReceivedBy
  <2>9. /\ log' = [log EXCEPT ![i] = log[i]]
        /\ since' = [since EXCEPT ![i] = since[i]]
        /\ rising' = [rising EXCEPT ![i] = rising[i]]
    BY <2>7 DEF SlotSame
  <2>10. /\ log[i] \in Seq(Mesgs) /\ since[i] \in [Receivers -> Nat]
         /\ rising[i] \in BOOLEAN /\ sent' \in 0 .. MaxSends /\ sent <= sent'
    BY <2>7 DEF SlotKnown
  <2>11. GoodHistory(H, log[i], T, since[i], rising[i], sent')
    BY <2>4, <2>7
  <2> QED  BY <2>2, <2>6, <2>8, <2>9, <2>10, <2>11, ReplaceHistory
<1> QED  BY <1>1, <1>2

LEMMA HNextStep == HistoryInv /\ [HNext]_allvars => HistoryInv'
<1> SUFFICES ASSUME HistoryInv, [HNext]_allvars PROVE HistoryInv'
  OBVIOUS
<1>1. IInv /\ Histories
  BY DEF HistoryInv, Histories
<1>2. IInv'
  BY <1>1, CallsAreGroupCalls, NextStep DEF Histories
<1>3. ASSUME UNCHANGED allvars PROVE Histories'
  BY <1>1, <1>3, SameHistory DEF allvars, vars
<1>4. ASSUME HistoryCall PROVE Histories'
  <2>1. CASE HRestart
    BY <1>1, <2>1, HRestartStep
  <2>2. ASSUME NEW name \in Names,
               HOpen(name) \/ HClose(name) \/ HRecover(name) \/ HSend(name)
        PROVE  Histories'
    BY <1>1, <2>2, HOpenStep, HCloseStep, HRecoverStep, HSendStep
  <2>3. ASSUME NEW name \in Names, NEW r \in Receivers,
               HJoin(name, r) \/ HReceive(name, r)
        PROVE  Histories'
    BY <1>1, <2>3, HJoinStep, HReceiveStep
  <2> QED  BY <1>4, <2>1, <2>2, <2>3 DEF HistoryCall
<1>5. Histories'
  BY <1>3, <1>4 DEF HNext
<1> QED  BY <1>2, <1>5 DEF HistoryInv, Histories

\* The inductive invariant of the group table with its history.
THEOREM HistoryInductive == HSpec => []HistoryInv
<1> QED  BY HInitStep, HNextStep, PTL DEF HSpec

\* A message accepted by sendmsg after a receiver joined is never dropped
\* before that receiver got it: receivemsg deletes an item only when its
\* distinct readers are as many as the receivers, and then they are all.
THEOREM NothingIsLost == HSpec => []NothingLost
<1>1. HistoryInv => NothingLost
  BY DEF HistoryInv, GoodHistories, GoodHistory, Whole, NothingLost
<1> QED  BY <1>1, HistoryInductive, PTL

\* Each receiver gets messages in the order of the sendmsg calls as long as
\* none of them took an item slot below one that was still stored.
THEOREM RisingIsOrdered == HSpec => []OrderedWhileRising
<1>1. HistoryInv => OrderedWhileRising
  BY DEF HistoryInv, GoodHistories, GoodHistory, OrderedWhileRising
<1> QED  BY <1>1, HistoryInductive, PTL

-----------------------------------------------------------------------------
\* What Multicast sees when one group takes the place of another.
MapsTo(i, G) ==
    /\ OpenGroups' = [OpenGroups EXCEPT ![i] = G.openFlag]
    /\ Members' = [Members EXCEPT ![i] = Elems(G.receivers)]
    /\ Stocks' = [Stocks EXCEPT ![i] = Stock(G)]
    /\ Readers' = [Readers EXCEPT ![i] = SeenIn(G)]

LEMMA ReplaceMapped ==
  ASSUME TypeOK, NEW i \in Slots, NEW G, groups' = [groups EXCEPT ![i] = G]
  PROVE  MapsTo(i, G)
<1>1. \A k \in Slots : groups'[k] = IF k = i THEN G ELSE groups[k]
  BY DEF TypeOK
<1>2. OpenGroups' = [OpenGroups EXCEPT ![i] = G.openFlag]
  <2>1. OpenGroups' = [k \in Slots |-> groups'[k].openFlag]
    BY DEF OpenGroups
  <2>2. \A k \in Slots : OpenGroups'[k] = IF k = i THEN G.openFlag ELSE OpenGroups[k]
    BY <1>1, <2>1 DEF OpenGroups
  <2> QED  BY <2>1, <2>2 DEF OpenGroups
<1>3. Members' = [Members EXCEPT ![i] = Elems(G.receivers)]
  <2>1. Members' = [k \in Slots |-> Elems(groups'[k].receivers)]
    BY DEF Members
  <2>2. \A k \in Slots : Members'[k] = IF k = i THEN Elems(G.receivers) ELSE Members[k]
    BY <1>1, <2>1 DEF Members
  <2> QED  BY <2>1, <2>2 DEF Members
<1>4. Stocks' = [Stocks EXCEPT ![i] = Stock(G)]
  <2>1. Stocks' = [k \in Slots |-> Stock(groups'[k])]
    BY DEF Stocks
  <2>2. \A k \in Slots : Stocks'[k] = IF k = i THEN Stock(G) ELSE Stocks[k]
    BY <1>1, <2>1 DEF Stocks
  <2> QED  BY <2>1, <2>2 DEF Stocks
<1>5. Readers' = [Readers EXCEPT ![i] = SeenIn(G)]
  <2>1. Readers' = [k \in Slots |-> SeenIn(groups'[k])]
    BY DEF Readers
  <2>2. \A k \in Slots : Readers'[k] = IF k = i THEN SeenIn(G) ELSE Readers[k]
    BY <1>1, <2>1 DEF Readers
  <2> QED  BY <2>1, <2>2 DEF Readers
<1> QED  BY <1>2, <1>3, <1>4, <1>5 DEF MapsTo

LEMMA MappedSlot ==
  ASSUME NEW i \in Slots
  PROVE  /\ OpenGroups[i] = groups[i].openFlag
         /\ Members[i] = Elems(groups[i].receivers)
         /\ Stocks[i] = Stock(groups[i])
         /\ Readers[i] = SeenIn(groups[i])
         /\ OpenGroups = [OpenGroups EXCEPT ![i] = OpenGroups[i]]
         /\ Members = [Members EXCEPT ![i] = Members[i]]
         /\ Stocks = [Stocks EXCEPT ![i] = Stocks[i]]
         /\ Readers = [Readers EXCEPT ![i] = Readers[i]]
BY DEF OpenGroups, Members, Stocks, Readers

LEMMA NothingLive ==
  ASSUME NEW G, Live(G) = {}
  PROVE  Stock(G) = {} /\ SeenIn(G) = Promise!NobodySaw
BY DEF Stock, Stored, SeenIn, Promise!NobodySaw

\* The items of a slot that was never used show nothing.
LEMMA ZeroMapped ==
  /\ ZeroGroup.openFlag = FALSE /\ Elems(ZeroGroup.receivers) = {}
  /\ Stock(ZeroGroup) = {}
  /\ SeenIn(ZeroGroup) = Promise!NobodySaw
<1>1. /\ ZeroGroup.openFlag = FALSE /\ ZeroGroup.receivers = <<>>
      /\ ZeroGroup.group_name = EmptyName
      /\ \A j \in ItemSlots : ZeroGroup.items[j].readers = <<>>
  BY DEF ZeroGroup, ZeroItem
<1>2. SeenIn(ZeroGroup) = Promise!NobodySaw
  BY <1>1, NothingFacts DEF SeenIn, Live, Promise!NobodySaw
<1> QED  BY <1>1, <1>2, NothingFacts DEF Stock

\* The readers of a message are those of the one item that holds it.
LEMMA OneItemSeen ==
  ASSUME NEW G, NEW L, NEW T, Matched(G, L, T), NEW j \in Live(G),
         G.items[j].Mesg \in Mesgs
  PROVE  SeenIn(G)[G.items[j].Mesg] = Elems(G.items[j].readers)
<1>1. {k \in Live(G) : G.items[k].Mesg = G.items[j].Mesg} = {j}
  BY DEF Matched
<1> QED  BY <1>1 DEF SeenIn

\* With a free item slot, the stored messages are fewer than the item slots.
LEMMA RoomLeft ==
  ASSUME NEW G, NEW j \in ItemSlots, j \notin Live(G)
  PROVE  Cardinality(Stored(G)) < MAX_ITEMS
<1>1. IsFiniteSet(ItemSlots) /\ Cardinality(ItemSlots) = MAX_ITEMS
  BY SizesAssumption, FS_Interval DEF ItemSlots
<1>2. Live(G) \subseteq ItemSlots /\ Live(G) # ItemSlots
  BY DEF Live
<1>3. IsFiniteSet(Live(G)) /\ Cardinality(Live(G)) < MAX_ITEMS
  <2>1. /\ IsFiniteSet(Live(G)) /\ Cardinality(Live(G)) <= Cardinality(ItemSlots)
        /\ Cardinality(Live(G)) # Cardinality(ItemSlots)
    BY <1>1, <1>2, FS_Subset
  <2>2. Cardinality(Live(G)) \in Nat
    BY <2>1, FS_CardinalityType
  <2> QED  BY <1>1, <2>1, <2>2, SizesAssumption
<1> PICK f : f = [j_ \in Live(G) |-> G.items[j_].Mesg]
  OBVIOUS
<1>4. f \in Surjection(Live(G), Stored(G))
  BY DEF Surjection, Stored
<1>5. IsFiniteSet(Stored(G)) /\ Cardinality(Stored(G)) <= Cardinality(Live(G))
  BY <1>3, <1>4, FS_Surjection
<1>6. Cardinality(Stored(G)) \in Nat /\ Cardinality(Live(G)) \in Nat
  BY <1>3, <1>5, FS_CardinalityType
<1> QED  BY <1>3, <1>5, <1>6, SizesAssumption

-----------------------------------------------------------------------------
\* Each call is a step of Multicast or leaves what it sees as it is.
LEMMA MappedInit == HInit => Promise!MInit
<1> SUFFICES ASSUME HInit PROVE Promise!MInit
  OBVIOUS
<1>1. groups = [i \in Slots |-> ZeroGroup]
  BY DEF HInit, Init
<1>2. \A i \in Slots : groups[i] = ZeroGroup
  BY <1>1
<1>3. OpenGroups = [i \in Slots |-> FALSE]
  BY <1>2, ZeroMapped DEF OpenGroups
<1>4. Members = [i \in Slots |-> {}]
  BY <1>2, ZeroMapped DEF Members
<1>5. Stocks = [i \in Slots |-> {}]
  BY <1>2, ZeroMapped DEF Stocks
<1>6. Readers = [i \in Slots |-> Promise!NobodySaw]
  BY <1>2, ZeroMapped DEF Readers
<1> QED  BY <1>3, <1>4, <1>5, <1>6 DEF Promise!MInit

LEMMA MappedRestart ==
  ASSUME groups_init
  PROVE  Promise!Restart
<1>1. groups' = [i \in Slots |-> ZeroGroup]
  BY DEF groups_init
<1>2. \A i \in Slots : groups'[i] = ZeroGroup
  BY <1>1
<1>3. OpenGroups' = [i \in Slots |-> FALSE]
  BY <1>2, ZeroMapped DEF OpenGroups
<1>4. Members' = [i \in Slots |-> {}]
  BY <1>2, ZeroMapped DEF Members
<1>5. Stocks' = [i \in Slots |-> {}]
  BY <1>2, ZeroMapped DEF Stocks
<1>6. Readers' = [i \in Slots |-> Promise!NobodySaw]
  BY <1>2, ZeroMapped DEF Readers
<1> QED  BY <1>3, <1>4, <1>5, <1>6 DEF Promise!Restart

LEMMA MappedStutter ==
  ASSUME groups' = groups
  PROVE  UNCHANGED Promise!mvars
BY DEF Promise!mvars, OpenGroups, Members, Stocks, Readers

LEMMA MappedOpen ==
  ASSUME TypeOK, NEW name, NEW i \in Slots, NEW H, OpenedBy(name, i, H)
  PROVE  Promise!Open(i)
<1>1. MapsTo(i, H) /\ Live(H) = {} /\ H.receivers = <<>> /\ H.openFlag
      /\ ~groups[i].openFlag
  BY ReplaceMapped DEF OpenedBy
<1>2. /\ Elems(H.receivers) = {} /\ Stock(H) = {}
      /\ SeenIn(H) = Promise!NobodySaw
  BY <1>1, NothingLive, NothingFacts
<1>3. ~OpenGroups[i]
  BY <1>1, MappedSlot
<1>4. H.openFlag = TRUE => OpenGroups' = [OpenGroups EXCEPT ![i] = TRUE]
  BY <1>1 DEF MapsTo
<1> QED  BY <1>1, <1>2, <1>3, <1>4 DEF MapsTo, Promise!Open

LEMMA MappedRecover ==
  ASSUME TypeOK, NEW name, NEW i \in Slots, NEW H \in Group, RecoveredBy(name, i, H)
  PROVE  Promise!Recover(i)
<1>1. MapsTo(i, H) /\ Live(H) = {} /\ H.receivers = groups[i].receivers
      /\ H.openFlag = TRUE
  BY ReplaceMapped DEF RecoveredBy, Group
<1>2. /\ Elems(H.receivers) = Members[i] /\ Stock(H) = {}
      /\ SeenIn(H) = Promise!NobodySaw
  BY <1>1, NothingLive, MappedSlot
<1>3. Members' = Members
  BY <1>1, <1>2, MappedSlot DEF MapsTo
<1> QED  BY <1>1, <1>2, <1>3 DEF MapsTo, Promise!Recover

\* Items, readers and receivers are those they were: so is what is seen of them.
LEMMA SameItems ==
  ASSUME NEW G, NEW H, H.items = G.items, H.group_name = G.group_name
  PROVE  Stock(H) = Stock(G) /\ SeenIn(H) = SeenIn(G)
BY DEF Stock, Stored, SeenIn, Live

LEMMA MappedClose ==
  ASSUME TypeOK, NEW i \in Slots, ClosedBy(i)
  PROVE  Promise!Close(i)
<1> PICK H : H = [groups[i] EXCEPT !.openFlag = FALSE]
  OBVIOUS
<1>1. groups[i] \in Group
  BY DEF TypeOK
<1>2. /\ H.items = groups[i].items /\ H.group_name = groups[i].group_name
      /\ H.receivers = groups[i].receivers /\ H.openFlag = FALSE
  BY <1>1 DEF Group
<1>3. MapsTo(i, H)
  BY ReplaceMapped DEF ClosedBy
<1>4. Stock(H) = Stock(groups[i]) /\ SeenIn(H) = SeenIn(groups[i])
  BY <1>2, SameItems
<1>5. SeenIn(H) = Readers[i] /\ Stock(H) = Stocks[i] /\ Elems(H.receivers) = Members[i]
  BY <1>2, <1>4, MappedSlot
<1>6. /\ Members' = [Members EXCEPT ![i] = Members[i]]
      /\ Stocks' = [Stocks EXCEPT ![i] = Stocks[i]]
      /\ Readers' = [Readers EXCEPT ![i] = Readers[i]]
      /\ OpenGroups' = [OpenGroups EXCEPT ![i] = FALSE]
  BY <1>2, <1>3, <1>5 DEF MapsTo
<1>7. Members' = Members /\ Stocks' = Stocks /\ Readers' = Readers
  BY <1>6, MappedSlot
<1> QED  BY <1>6, <1>7 DEF Promise!Close

LEMMA MappedJoin ==
  ASSUME TypeOK, NEW name, NEW r \in Receivers, NEW i \in Slots, JoinedBy(name, r, i)
  PROVE  Promise!Join(i, r)
<1> PICK H : H = [groups[i] EXCEPT !.receivers = Append(@, r)]
  OBVIOUS
<1>1. groups[i] \in Group /\ groups[i].receivers \in Seq(Receivers)
  BY DEF TypeOK, Group
<1>2. /\ H.items = groups[i].items /\ H.group_name = groups[i].group_name
      /\ H.receivers = Append(groups[i].receivers, r)
      /\ H.openFlag = groups[i].openFlag
  BY <1>1 DEF Group
<1>3. MapsTo(i, H) /\ groups[i].openFlag /\ r \notin Elems(groups[i].receivers)
  BY ReplaceMapped DEF JoinedBy
<1>4. Stock(H) = Stock(groups[i]) /\ SeenIn(H) = SeenIn(groups[i])
  BY <1>2, SameItems
<1>5. SeenIn(H) = Readers[i] /\ Stock(H) = Stocks[i] /\ H.openFlag = OpenGroups[i]
  BY <1>2, <1>4, MappedSlot
<1>6. Elems(H.receivers) = Members[i] \cup {r}
  BY <1>1, <1>2, AppendFacts, MappedSlot
<1>7. OpenGroups' = OpenGroups /\ Stocks' = Stocks /\ Readers' = Readers
  <2>1. /\ OpenGroups' = [OpenGroups EXCEPT ![i] = OpenGroups[i]]
        /\ Stocks' = [Stocks EXCEPT ![i] = Stocks[i]]
        /\ Readers' = [Readers EXCEPT ![i] = Readers[i]]
    BY <1>3, <1>5 DEF MapsTo
  <2> QED  BY <2>1, MappedSlot
<1>8. Members' = [Members EXCEPT ![i] = @ \cup {r}]
  BY <1>3, <1>6, MappedSlot DEF MapsTo
<1>9. OpenGroups[i] /\ r \notin Members[i]
  BY <1>3, MappedSlot
<1> QED  BY <1>7, <1>8, <1>9 DEF Promise!Join

\* A message that no item holds becomes stored, and nobody has read it.
LEMMA SentItems ==
  ASSUME NEW G \in Group, NEW j \in ItemSlots, j \notin Live(G), NEW m \in Mesgs,
         m \notin Stored(G), G.group_name # EmptyName,
         NEW H, H = [G EXCEPT !.items[j] = StoredItem(@, m)]
  PROVE  Stock(H) = Stock(G) \cup {m} /\ SeenIn(H) = SeenIn(G)
<1>1. /\ H.group_name = G.group_name
      /\ H.items[j] = [Mesg |-> m, readers |-> <<>>, deletedFlag |-> FALSE]
      /\ \A k \in ItemSlots : k # j => H.items[k] = G.items[k]
  BY DEF Group, StoredItem
<1>2. Live(H) = Live(G) \cup {j} /\ \A k \in Live(G) : k # j /\ H.items[k] = G.items[k]
  BY <1>1 DEF Live
<1>3. Stored(H) = Stored(G) \cup {m}
  <2>1. \A k \in Live(G) : H.items[k].Mesg = G.items[k].Mesg
    BY <1>2
  <2>2. H.items[j].Mesg = m
    BY <1>1
  <2> QED  BY <1>2, <2>1, <2>2 DEF Stored
<1>4. ASSUME NEW x \in Mesgs PROVE SeenIn(H)[x] = SeenIn(G)[x]
  <2>1. CASE x = m
    <3>1. {k \in Live(G) : G.items[k].Mesg = m} = {}
      BY DEF Stored
    <3>2. {k \in Live(H) : H.items[k].Mesg = m} = {j}
      BY <1>1, <1>2, <3>1
    <3>3. Elems(H.items[j].readers) = {}
      BY <1>1, NothingFacts
    <3> QED  BY <2>1, <3>1, <3>2, <3>3 DEF SeenIn
  <2>2. CASE x # m
    <3>1. {k \in Live(H) : H.items[k].Mesg = x} = {k \in Live(G) : G.items[k].Mesg = x}
      BY <1>1, <1>2, <2>2
    <3>2. \A k \in Live(G) : H.items[k].readers = G.items[k].readers
      BY <1>2
    <3> QED  BY <3>1, <3>2 DEF SeenIn
  <2> QED  BY <2>1, <2>2
<1>5. SeenIn(H) = SeenIn(G)
  BY <1>4 DEF SeenIn
<1> QED  BY <1>1, <1>3, <1>5 DEF Stock

LEMMA SameCardinality ==
  ASSUME NEW S
  PROVE  Promise!Cardinality(S) = Cardinality(S)
BY DEF Cardinality, Promise!Cardinality

LEMMA MappedSend ==
  ASSUME IInv, Histories, NEW name, NEW i \in Slots, NEW j \in ItemSlots,
         sent < MaxSends, SentBy(name, sent + 1, i, j)
  PROVE  sent + 1 \in Mesgs /\ Promise!Send(i, sent + 1)
<1> PICK m : m = sent + 1
  OBVIOUS
<1> PICK H : H = [groups[i] EXCEPT !.items[j] = StoredItem(@, m)]
  OBVIOUS
<1>1. TypeOK /\ groups[i] \in Group
  BY DEF IInv, TypeOK
<1>2. m \in Mesgs
  BY HistoryAssumption DEF Histories, HistoryTypeOK
<1>3. groups[i].openFlag /\ j \notin Live(groups[i])
  BY DEF SentBy, Live
<1>4. GoodHistory(groups[i], log[i], got[i], since[i], rising[i], sent)
  BY DEF Histories, GoodHistories
<1>5. groups[i].group_name # EmptyName /\ m \notin Stored(groups[i])
  <2>1. Matched(groups[i], log[i], got[i]) /\ Past(log[i], got[i], sent)
    BY <1>3, <1>4 DEF GoodHistory
  <2>2. m \notin Elems(log[i])
    BY <2>1, HistoryAssumption DEF Past, Histories, HistoryTypeOK
  <2> QED  BY <2>1, <2>2 DEF Matched, Stored
<1>6. Stock(H) = Stock(groups[i]) \cup {m} /\ SeenIn(H) = SeenIn(groups[i])
  BY <1>1, <1>2, <1>3, <1>5, SentItems
<1>7. /\ H.receivers = groups[i].receivers /\ H.openFlag = groups[i].openFlag
  BY <1>1 DEF Group
<1>8. MapsTo(i, H)
  BY <1>1, ReplaceMapped DEF SentBy
<1>9. /\ OpenGroups' = [OpenGroups EXCEPT ![i] = OpenGroups[i]]
      /\ Members' = [Members EXCEPT ![i] = Members[i]]
      /\ Readers' = [Readers EXCEPT ![i] = Readers[i]]
      /\ Stocks' = [Stocks EXCEPT ![i] = Stocks[i] \cup {m}]
  BY <1>6, <1>7, <1>8, MappedSlot DEF MapsTo
<1>10. OpenGroups' = OpenGroups /\ Members' = Members /\ Readers' = Readers
  BY <1>9, MappedSlot
<1>11. /\ OpenGroups[i] /\ m \notin Stocks[i] /\ Cardinality(Stocks[i]) < MAX_ITEMS
  <2>1. Stocks[i] = Stored(groups[i])
    BY <1>5, MappedSlot DEF Stock
  <2>2. Cardinality(Stored(groups[i])) < MAX_ITEMS
    BY <1>3, RoomLeft
  <2> QED  BY <1>3, <1>5, <2>1, <2>2, MappedSlot
<1>12. Promise!Send(i, m)
  <2>1. Stocks' = [Stocks EXCEPT ![i] = @ \cup {m}]
    BY <1>9
  <2> QED  BY <1>10, <1>11, <2>1, SameCardinality DEF Promise!Send
<1> QED  BY <1>2, <1>12

\* The message that r read has one more reader, or is gone when these are all.
ReadSeen(G, H, r, m) ==
    /\ m \in Mesgs /\ m \in Stock(G)
    /\ IF SeenIn(G)[m] \cup {r} = Elems(G.receivers)
       THEN /\ Stock(H) = Stock(G) \ {m}
            /\ SeenIn(H) = [SeenIn(G) EXCEPT ![m] = {}]
       ELSE /\ Stock(H) = Stock(G)
            /\ SeenIn(H) = [SeenIn(G) EXCEPT ![m] = @ \cup {r}]

LEMMA ReadItems ==
  ASSUME NEW G, NEW H, NEW j \in Live(G), NEW r, ReadEffect(G, H, j, r),
         NEW L \in Seq(Mesgs), NEW T, Matched(G, L, T),
         NEW m, m = G.items[j].Mesg
  PROVE  ReadSeen(G, H, r, m) /\ SeenIn(G)[m] = Elems(G.items[j].readers)
<1>1. /\ H.group_name = G.group_name
      /\ \A k \in ItemSlots : k # j => H.items[k] = G.items[k]
      /\ H.items[j].Mesg = G.items[j].Mesg
      /\ Elems(H.items[j].readers) = Elems(G.items[j].readers) \cup {r}
      /\ j \in Live(H) <=> Elems(H.items[j].readers) # Elems(G.receivers)
      /\ \A k : k # j => (k \in Live(H) <=> k \in Live(G))
  BY DEF ReadEffect
<1>2. /\ m \in Elems(L) /\ G.group_name # EmptyName
      /\ \A k \in Live(G) : k # j => G.items[k].Mesg # m
  BY DEF Matched
<1>3. m \in Mesgs
  BY <1>2, ElemsIn
<1>4. Stock(G) = Stored(G) /\ Stock(H) = Stored(H) /\ m \in Stored(G)
  BY <1>1, <1>2 DEF Stock, Stored
<1>5. SeenIn(G)[m] = Elems(G.items[j].readers)
  BY <1>3, OneItemSeen
<1>6. Live(G) \subseteq ItemSlots
  BY DEF Live
<1>7. ASSUME NEW x \in Mesgs, x # m PROVE SeenIn(H)[x] = SeenIn(G)[x]
  <2>1. {k \in Live(H) : H.items[k].Mesg = x} = {k \in Live(G) : G.items[k].Mesg = x}
    BY <1>1, <1>6, <1>7
  <2>2. \A k \in {l \in Live(G) : G.items[l].Mesg = x} : H.items[k].readers = G.items[k].readers
    BY <1>1, <1>6, <1>7
  <2> QED  BY <2>1, <2>2 DEF SeenIn
<1>8. CASE SeenIn(G)[m] \cup {r} = Elems(G.receivers)
  <2>1. Live(H) = Live(G) \ {j}
    BY <1>1, <1>5, <1>8
  <2>2. \A k \in Live(H) : k \in Live(G) /\ H.items[k] = G.items[k] /\ k # j
    BY <1>1, <1>6, <2>1
  <2>3. Stored(H) = Stored(G) \ {m}
    BY <1>2, <2>1, <2>2 DEF Stored
  <2>4. {k \in Live(H) : H.items[k].Mesg = m} = {}
    BY <1>2, <2>2
  <2>5. SeenIn(H)[m] = {}
    BY <1>3, <2>4 DEF SeenIn
  <2>6. SeenIn(H) = [SeenIn(G) EXCEPT ![m] = {}]
    BY <1>3, <1>7, <2>5 DEF SeenIn
  <2> QED  BY <1>3, <1>4, <1>5, <1>8, <2>3, <2>6 DEF ReadSeen
<1>9. CASE SeenIn(G)[m] \cup {r} # Elems(G.receivers)
  <2>1. Live(H) = Live(G)
    <3>1. j \in Live(H)
      BY <1>1, <1>5, <1>9
    <3>2. \A k : k \in Live(H) <=> k \in Live(G)
      BY <1>1, <3>1
    <3> QED  BY <3>2
  <2>2. \A k \in Live(G) : H.items[k].Mesg = G.items[k].Mesg
    BY <1>1, <1>6
  <2>3. Stored(H) = Stored(G)
    BY <2>1, <2>2 DEF Stored
  <2>4. {k \in Live(H) : H.items[k].Mesg = m} = {j}
    BY <1>2, <2>1, <2>2
  <2>5. SeenIn(H)[m] = SeenIn(G)[m] \cup {r}
    BY <1>1, <1>3, <1>5, <2>4 DEF SeenIn
  <2>6. SeenIn(H) = [SeenIn(G) EXCEPT ![m] = @ \cup {r}]
    BY <1>3, <1>7, <2>5 DEF SeenIn
  <2> QED  BY <1>3, <1>4, <1>5, <1>9, <2>3, <2>6 DEF ReadSeen
<1> QED  BY <1>8, <1>9

LEMMA MappedReceive ==
  ASSUME IInv, Histories, NEW name, NEW r \in Receivers,
         NEW i \in Slots, NEW j \in ItemSlots, ReceivedBy(name, r, i, j)
  PROVE  \E m \in Mesgs : Promise!Receive(i, r, m)
<1> PICK G : G = groups[i]
  OBVIOUS
<1> PICK H : H = [G EXCEPT !.items[j] = ReadBy(G, j, r)]
  OBVIOUS
<1> PICK m : m = G.items[j].Mesg
  OBVIOUS
<1>1. TypeOK /\ G \in Group /\ GoodGroup(G)
  BY DEF IInv, TypeOK
<1>2. /\ G.openFlag /\ r \in Elems(G.receivers)
      /\ j \in Live(G) /\ r \notin Elems(G.items[j].readers)
  BY DEF ReceivedBy, NextFor
<1>3. ReadEffect(G, H, j, r)
  BY <1>1, <1>2, ReadItem
<1>4. Matched(G, log[i], got[i]) /\ log[i] \in Seq(Mesgs)
  BY <1>2 DEF Histories, GoodHistories, GoodHistory, HistoryTypeOK
<1>5. ReadSeen(G, H, r, m) /\ SeenIn(G)[m] = Elems(G.items[j].readers)
  BY <1>2, <1>3, <1>4, ReadItems
<1>6. MapsTo(i, H)
  BY <1>1, ReplaceMapped DEF ReceivedBy
<1>7. H.receivers = G.receivers /\ H.openFlag = G.openFlag
  BY <1>3 DEF ReadEffect
<1>8. /\ OpenGroups[i] = G.openFlag /\ Members[i] = Elems(G.receivers)
      /\ Stocks[i] = Stock(G) /\ Readers[i] = SeenIn(G)
  BY MappedSlot
<1>9. OpenGroups' = OpenGroups /\ Members' = Members
  <2>1. /\ OpenGroups' = [OpenGroups EXCEPT ![i] = OpenGroups[i]]
        /\ Members' = [Members EXCEPT ![i] = Members[i]]
    BY <1>6, <1>7, <1>8 DEF MapsTo
  <2> QED  BY <2>1, MappedSlot
<1>10. /\ OpenGroups[i] /\ r \in Members[i] /\ m \in Mesgs
       /\ m \in Stocks[i] /\ r \notin Readers[i][m]
  BY <1>2, <1>5, <1>8 DEF ReadSeen
<1>11. CASE Readers[i][m] \cup {r} = Members[i]
  <2>1. /\ Stocks' = [Stocks EXCEPT ![i] = Stocks[i] \ {m}]
        /\ Readers' = [Readers EXCEPT ![i] = [Readers[i] EXCEPT ![m] = {}]]
    BY <1>5, <1>6, <1>8, <1>11 DEF MapsTo, ReadSeen
  <2>2. Readers' = [Readers EXCEPT ![i][m] = {}]
    BY <2>1
  <2>3. Promise!Receive(i, r, m)
    BY <1>9, <1>10, <1>11, <2>1, <2>2 DEF Promise!Receive
  <2> QED  BY <1>10, <2>3
<1>12. CASE Readers[i][m] \cup {r} # Members[i]
  <2>1. /\ Stocks' = [Stocks EXCEPT ![i] = Stocks[i]]
        /\ Readers' = [Readers EXCEPT ![i] = [Readers[i] EXCEPT ![m] = @ \cup {r}]]
    BY <1>5, <1>6, <1>8, <1>12 DEF MapsTo, ReadSeen
  <2>2. Readers' = [Readers EXCEPT ![i][m] = @ \cup {r}] /\ Stocks' = Stocks
    BY <2>1, MappedSlot
  <2>3. Promise!Receive(i, r, m)
    BY <1>9, <1>10, <1>12, <2>2 DEF Promise!Receive
  <2> QED  BY <1>10, <2>3
<1> QED  BY <1>11, <1>12

LEMMA MappedCall ==
  ASSUME IInv, Histories, HistoryCall, groups' # groups
  PROVE  Promise!MNext
<1>1. TypeOK
  BY DEF IInv
<1>2. CASE HRestart
  BY <1>2, MappedRestart DEF HRestart, Promise!MNext
<1>3. ASSUME NEW name \in Names, HOpen(name) PROVE Promise!MNext
  BY <1>1, <1>3, OpenEffect, MappedOpen DEF HOpen, Promise!MNext
<1>4. ASSUME NEW name \in Names, HClose(name) PROVE Promise!MNext
  BY <1>1, <1>4, CloseEffect, MappedClose DEF HClose, Promise!MNext
<1>5. ASSUME NEW name \in Names, HRecover(name) PROVE Promise!MNext
  <2>1. Named(name) # {}
    BY <1>5, NamesAssumption DEF HRecover, recovergroup, RejectName, Return
  <2> QED  BY <1>1, <1>5, <2>1, RecoverEffect, MappedRecover DEF HRecover, Promise!MNext
<1>6. ASSUME NEW name \in Names, HSend(name) PROVE Promise!MNext
  BY <1>6, SendEffect, MappedSend DEF HSend, Promise!MNext
<1>7. ASSUME NEW name \in Names, NEW r \in Receivers, HJoin(name, r)
      PROVE  Promise!MNext
  BY <1>1, <1>7, JoinEffect, MappedJoin DEF HJoin, Promise!MNext
<1>8. ASSUME NEW name \in Names, NEW r \in Receivers, HReceive(name, r)
      PROVE  Promise!MNext
  BY <1>8, ReceiveEffect, MappedReceive DEF HReceive, Promise!MNext
<1> QED  BY <1>2, <1>3, <1>4, <1>5, <1>6, <1>7, <1>8 DEF HistoryCall

\* The group table keeps the promise of Multicast: its calls are the open,
\* recover, close, join, send and receive of a bounded store of messages that
\* every member reads once, or change nothing a caller could see.
THEOREM PromiseIsKept == HSpec => KeepsPromise
<1>1. HistoryInv /\ [HNext]_allvars => [Promise!MNext]_(Promise!mvars)
  <2> SUFFICES ASSUME HistoryInv, [HNext]_allvars
               PROVE  Promise!MNext \/ UNCHANGED Promise!mvars
    OBVIOUS
  <2>1. CASE groups' = groups
    BY <2>1, MappedStutter
  <2>2. CASE groups' # groups
    <3>1. IInv /\ Histories /\ HistoryCall
      BY <2>2 DEF HistoryInv, Histories, HNext, allvars, vars
    <3> QED  BY <2>2, <3>1, MappedCall
  <2> QED  BY <2>1, <2>2
<1> QED  BY <1>1, MappedInit, HistoryInductive, PTL
         DEF HSpec, KeepsPromise, Promise!MSpec
=============================================================================

------------------------------- MODULE GroupMsg -------------------------------
(***************************************************************************)
(* The multicast groups that project2 adds to MINIX's process manager      *)
(* (project2/grpmsgdef.c, grpmsgdef.h).  PM is single-threaded and runs    *)
(* each of these functions to its end for one message of its main loop, so *)
(* one call of a function is one step.  A name is a member of Names and    *)
(* what strncmp sees of it is Prefix; a payload is a member of Mesgs.      *)
(***************************************************************************)
EXTENDS Integers, FiniteSets, Sequences

CONSTANTS MAX_GROUPS, MAX_RECEIVERS, MAX_SENDERS,
          MAX_ITEMS,   \* the hard-coded 50 items of a group
          Names,       \* the group names of 1..MAX_GROUP_NAME_LEN characters
          EmptyName, LongName,  \* a name of no characters, one of too many
          Prefix,      \* <<p, n>> \in Prefix: name p is a prefix of name n
          Senders, Receivers,   \* process numbers the callers pass
          Mesgs, LongMesg,      \* payloads, and one longer than MAX_MESG_LEN
          NoMesg       \* the zeroed text of a message nobody stored

ASSUME SizesAssumption ==
    /\ MAX_GROUPS \in Nat \ {0}
    /\ MAX_RECEIVERS \in Nat \ {0}
    /\ MAX_SENDERS \in Nat \ {0}
    /\ MAX_ITEMS \in Nat \ {0}

ASSUME NamesAssumption ==
    /\ EmptyName \notin Names /\ LongName \notin Names /\ EmptyName # LongName
    /\ Prefix \subseteq Names \X Names
    /\ \A n \in Names : <<n, n>> \in Prefix

ASSUME MesgsAssumption == LongMesg \notin Mesgs /\ NoMesg \notin Mesgs

(***************************************************************************)
(* The MessagingErrorCodes.                                                *)
(***************************************************************************)
MESSAGING_SUCCESS == 0
INP_ERR_NULL_GROUP_NAME == 1
GROUP_NAME_LEN_OVERFLOW == 2
GROUP_NOT_FOUND == 3
DUPLICATE_SENDER == 4
DUPLICATE_RECEIVER == 5
MSG_LEN_OVERFLOW_ERROR == 6
BUFFER_OVERFLOW == 7
NOT_RECEIVER_OF_GROUP == 8
BUFFER_UNDERFLOW == 9
DUPLICATE_GROUP == 10
GROUPS_FULL == 11

VARIABLES
    groups,     \* GroupsList
    numGroups,
    reply,      \* what the last call returned, and the text receivemsg copied
    fault       \* the first access outside an object, or "none"

vars == <<groups, numGroups, reply, fault>>

Slots == 0 .. MAX_GROUPS - 1
ItemSlots == 0 .. MAX_ITEMS - 1
AnyName == Names \cup {EmptyName, LongName}

\* Lists with a curr_num (or num_of_read_complete) are sequences.
Item == [Mesg : Mesgs \cup {NoMesg}, readers : Seq(Receivers),
         deletedFlag : BOOLEAN]
Group == [group_name : Names \cup {EmptyName},
          senders : Seq(Senders), receivers : Seq(Receivers),
          items : [ItemSlots -> Item], openFlag : BOOLEAN]
Reply == [status : 0 .. 11, mesg : Mesgs \cup {NoMesg}]

\* How memory is accessed where it should not be: past the end of a full list,
\* past the last slot of GroupsList, through mreceive's text pointer.
Faults == {"none", "senders", "receivers", "readers", "groups", "mesg"}

TypeOK == /\ groups \in [Slots -> Group]
          /\ numGroups \in Int
          /\ reply \in Reply
          /\ fault \in Faults

-----------------------------------------------------------------------------
\* memset of GroupsList: no name, closed, and items whose deletedFlag is 0.
ZeroItem == [Mesg |-> NoMesg, readers |-> <<>>, deletedFlag |-> FALSE]
ZeroGroup == [group_name |-> EmptyName, senders |-> <<>>, receivers |-> <<>>,
              items |-> [j \in ItemSlots |-> ZeroItem], openFlag |-> FALSE]

Elems(s) == {s[k] : k \in 1 .. Len(s)}
First(S) == CHOOSE i \in S : \A j \in S : i <= j

\* strncmp(GroupsList[i].group_name, name, strlen(name)) == 0
Matches(i, name) == \/ name = EmptyName
                    \/ <<name, groups[i].group_name>> \in Prefix

\* Mutant: only open groups are compared with, as in the other calls.
NamedOpen(name) == {i \in Slots : groups[i].openFlag /\ Matches(i, name)}

\* The slots that opengroup, closegroup and recovergroup take for the name's:
\* they look at every slot, open or not.
Named(name) == {i \in Slots : Matches(i, name)}

\* The slots that the other calls take for the name's: they look at the first
\* numGroups slots and skip the closed ones.
Found(name) == {i \in Slots : /\ i < numGroups
                              /\ groups[i].openFlag
                              /\ Matches(i, name)}

EmptyGroupSlots == {i \in Slots : ~groups[i].openFlag}
EmptyItemSlots(i) == {j \in ItemSlots : groups[i].items[j].deletedFlag}

\* Mutant: the loop that deletes the items of the slot is missing.
NotDeleted(items) == items

Deleted(items) == [j \in ItemSlots |-> [items[j] EXCEPT !.deletedFlag = TRUE]]

\* A return that changes nothing but the caller's reply.
Return(code) == /\ reply' = [status |-> code, mesg |-> NoMesg]
                /\ UNCHANGED <<groups, numGroups, fault>>

\* A call that changes one group and returns success.
Succeed(i, group) ==
    /\ groups' = [groups EXCEPT ![i] = group]
    /\ reply' = [status |-> MESSAGING_SUCCESS, mesg |-> NoMesg]

\* The two checks of a name that three of the calls share.
RejectName(name) ==
    \/ name = EmptyName /\ Return(INP_ERR_NULL_GROUP_NAME)
    \/ name = LongName /\ Return(GROUP_NAME_LEN_OVERFLOW)

\* The end of a search that found no slot.  With numGroups beyond the array
\* the loop has read what lies behind it, and what that was decides.
NotFound(name) ==
    /\ Found(name) = {}
    /\ \/ Return(GROUP_NOT_FOUND)
       \/ /\ numGroups > MAX_GROUPS
          /\ fault' = "groups"
          /\ UNCHANGED <<groups, numGroups, reply>>

-----------------------------------------------------------------------------
Init == /\ groups = [i \in Slots |-> ZeroGroup]
        /\ numGroups = 0
        /\ reply = [status |-> MESSAGING_SUCCESS, mesg |-> NoMesg]
        /\ fault = "none"

\* ginit may be called again at any time; its wrapper returns 1.
groups_init ==
    /\ groups' = [i \in Slots |-> ZeroGroup]
    /\ numGroups' = 0
    /\ reply' = [status |-> 1, mesg |-> NoMesg]
    /\ UNCHANGED fault

opengroup(name) ==
    \/ RejectName(name)
    \/ /\ name \in Names /\ Named(name) # {}
       /\ Return(DUPLICATE_GROUP)
    \/ /\ name \in Names /\ Named(name) = {} /\ EmptyGroupSlots = {}
       /\ Return(GROUPS_FULL)
    \/ /\ name \in Names /\ Named(name) = {} /\ EmptyGroupSlots # {}
       /\ LET i == First(EmptyGroupSlots)
          IN  Succeed(i, [group_name |-> name, senders |-> <<>>,
                          receivers |-> <<>>, items |-> Deleted(groups[i].items),
                          openFlag |-> TRUE])
       /\ numGroups' = numGroups + 1
       /\ UNCHANGED fault

\* Mutant: the count of groups is left as it was.
CloseUncounted(name) ==
    \/ RejectName(name)
    \/ name \in Names /\ Named(name) = {} /\ Return(GROUP_NOT_FOUND)
    \/ /\ name \in Names /\ Named(name) # {}
       /\ LET i == First(Named(name))
          IN  Succeed(i, [groups[i] EXCEPT !.openFlag = FALSE])
       /\ UNCHANGED <<numGroups, fault>>

closegroup(name) ==
    \/ RejectName(name)
    \/ /\ name \in Names /\ Named(name) = {}
       /\ Return(GROUP_NOT_FOUND)
    \/ /\ name \in Names /\ Named(name) # {}
       /\ LET i == First(Named(name))
          IN  Succeed(i, [groups[i] EXCEPT !.openFlag = FALSE])
       /\ numGroups' = numGroups - 1
       /\ UNCHANGED fault

recovergroup(name) ==
    \/ RejectName(name)
    \/ /\ name \in Names /\ Named(name) = {}
       /\ Return(GROUP_NOT_FOUND)
    \/ /\ name \in Names /\ Named(name) # {}
       /\ LET i == First(Named(name))
          IN  Succeed(i, [groups[i] EXCEPT !.items = Deleted(@),
                                           !.openFlag = TRUE])
       /\ numGroups' = numGroups + 1
       /\ UNCHANGED fault

add_sender_to_group(name, s) ==
    \/ name = EmptyName /\ Return(INP_ERR_NULL_GROUP_NAME)
    \/ name # EmptyName /\ NotFound(name)
    \/ /\ name # EmptyName /\ Found(name) # {}
       /\ LET i == First(Found(name)) IN
          \/ /\ s \in Elems(groups[i].senders)
             /\ Return(DUPLICATE_SENDER)
          \/ /\ s \notin Elems(groups[i].senders)
             /\ Len(groups[i].senders) < MAX_SENDERS
             /\ Succeed(i, [groups[i] EXCEPT !.senders = Append(@, s)])
             /\ UNCHANGED <<numGroups, fault>>
          \/ /\ s \notin Elems(groups[i].senders)
             /\ Len(groups[i].senders) >= MAX_SENDERS
             /\ fault' = "senders"
             /\ UNCHANGED <<groups, numGroups, reply>>

\* The one call that does not refuse the empty name: it matches any open group.
add_receiver_to_group(name, r) ==
    \/ NotFound(name)
    \/ /\ Found(name) # {}
       /\ LET i == First(Found(name)) IN
          \/ /\ r \in Elems(groups[i].receivers)
             /\ Return(DUPLICATE_RECEIVER)
          \/ /\ r \notin Elems(groups[i].receivers)
             /\ Len(groups[i].receivers) < MAX_RECEIVERS
             /\ Succeed(i, [groups[i] EXCEPT !.receivers = Append(@, r)])
             /\ UNCHANGED <<numGroups, fault>>
          \/ /\ r \notin Elems(groups[i].receivers)
             /\ Len(groups[i].receivers) >= MAX_RECEIVERS
             /\ fault' = "receivers"
             /\ UNCHANGED <<groups, numGroups, reply>>

\* Mutant: num_of_read_complete is not reset.
StoredItemStale(old, m) == [old EXCEPT !.Mesg = m, !.deletedFlag = FALSE]

\* A message in the place of an old one: nobody has read it.
StoredItem(old, m) == [Mesg |-> m, readers |-> <<>>, deletedFlag |-> FALSE]

sendmsg(name, m) ==
    \/ name = EmptyName /\ Return(INP_ERR_NULL_GROUP_NAME)
    \/ name # EmptyName /\ m = LongMesg /\ Return(MSG_LEN_OVERFLOW_ERROR)
    \/ name # EmptyName /\ m # LongMesg /\ NotFound(name)
    \/ /\ name # EmptyName /\ m # LongMesg /\ Found(name) # {}
       /\ LET i == First(Found(name))
              free == EmptyItemSlots(i)
          IN  \/ free = {} /\ Return(BUFFER_OVERFLOW)
              \/ /\ free # {}
                 /\ Succeed(i, [groups[i] EXCEPT !.items[First(free)] =
                       StoredItem(@, m)])
                 /\ UNCHANGED <<numGroups, fault>>

\* The items of group i that receiver r has yet to read.
Unread(i, r) == {j \in ItemSlots : /\ ~groups[i].items[j].deletedFlag
                                   /\ r \notin Elems(groups[i].items[j].readers)}

\* Mutant: the item found last is read.
LastUnread(i, r) == CHOOSE j \in Unread(i, r) : \A k \in Unread(i, r) : k <= j

NextUnread(i, r) == First(Unread(i, r))

\* Mutants: the item is deleted one reader early; one reader late.
ReadByEarly(group, j, r) ==
    LET readers == Append(group.items[j].readers, r)
    IN  [group.items[j] EXCEPT
           !.readers = readers,
           !.deletedFlag = Len(readers) + 1 >= Len(group.receivers)]
ReadByLate(group, j, r) ==
    LET readers == Append(group.items[j].readers, r)
    IN  [group.items[j] EXCEPT
           !.readers = readers,
           !.deletedFlag = Len(readers) > Len(group.receivers)]

\* Item j of group once r has read it: deleted when that was its last reader.
ReadBy(group, j, r) ==
    LET readers == Append(group.items[j].readers, r)
    IN  [group.items[j] EXCEPT !.readers = readers,
                               !.deletedFlag = Len(readers) = Len(group.receivers)]

receivemsg(name, r) ==
    \/ name = EmptyName /\ Return(INP_ERR_NULL_GROUP_NAME)
    \/ name # EmptyName /\ NotFound(name)
    \/ /\ name # EmptyName /\ Found(name) # {}
       /\ LET i == First(Found(name)) IN
          \/ /\ r \notin Elems(groups[i].receivers)
             /\ Return(NOT_RECEIVER_OF_GROUP)
          \/ /\ r \in Elems(groups[i].receivers) /\ Unread(i, r) = {}
             /\ Return(BUFFER_UNDERFLOW)
          \/ /\ r \in Elems(groups[i].receivers) /\ Unread(i, r) # {}
             /\ LET j == NextUnread(i, r)
                IN  /\ groups' = [groups EXCEPT
                                    ![i].items[j] = ReadBy(groups[i], j, r)]
                    /\ reply' = [status |-> MESSAGING_SUCCESS,
                                 mesg |-> groups[i].items[j].Mesg]
                    /\ fault' = IF Len(groups[i].items[j].readers) < MAX_RECEIVERS
                                THEN fault ELSE "readers"
             /\ UNCHANGED numGroups

-----------------------------------------------------------------------------
\* What a caller may ask of PM.  Nothing is said of the state after a fault.
GroupCall ==
    \/ groups_init
    \/ \E name \in AnyName :
          \/ opengroup(name) \/ closegroup(name) \/ recovergroup(name)
          \/ \E s \in Senders : add_sender_to_group(name, s)
          \/ \E r \in Receivers : add_receiver_to_group(name, r)
          \/ \E m \in Mesgs \cup {LongMesg} : sendmsg(name, m)
          \/ \E r \in Receivers : receivemsg(name, r)

Next == \/ fault = "none" /\ GroupCall
        \/ fault # "none" /\ UNCHANGED vars

Spec == Init /\ [][Next]_vars

-----------------------------------------------------------------------------
Distinct(s) == \A k, l \in 1 .. Len(s) : s[k] = s[l] => k = l

\* No two slots ever hold the same name, however groups are opened, closed,
\* recovered and their slots taken over: a closed group keeps its name, and
\* opengroup compares with the closed groups too.
UniqueNames == \A i, j \in Slots :
    groups[i].group_name = groups[j].group_name
      => i = j \/ groups[i].group_name = EmptyName

\* No process is on a list of a group twice, so that curr_num counts the
\* processes and an item's count of readers can be compared with it.
DistinctMembers == \A i \in Slots : /\ Distinct(groups[i].senders)
                                    /\ Distinct(groups[i].receivers)

\* Who has read a stored item is a receiver of its group and is noted once:
\* across a slot's reuse by another group, a recovery that keeps the receivers,
\* and an item slot's reuse, no stale reader is left on a live item.
ReadersAreReceivers == \A i \in Slots, j \in ItemSlots :
    LET item == groups[i].items[j]
    IN  groups[i].openFlag /\ ~item.deletedFlag
          => Distinct(item.readers) /\ Elems(item.readers) \subseteq
                                       Elems(groups[i].receivers)

\* An item that every receiver has read is no longer stored: what receivemsg's
\* test for equality misses once it would never delete again.
NoFullyReadItem == \A i \in Slots, j \in ItemSlots :
    LET item == groups[i].items[j]
    IN  groups[i].openFlag /\ ~item.deletedFlag /\ groups[i].receivers # <<>>
          => \E r \in Elems(groups[i].receivers) : r \notin Elems(item.readers)

\* receivemsg appends to ReceiverList[MAX_RECEIVERS] of the item without a
\* test; the list never overflows, because its members are receivers.
ReadersFit == fault # "readers"

\* The lists of members are appended to without a test as well: as long as
\* there are no more processes than places, the check for duplicates is enough.
MembersFit ==
    /\ IsFiniteSet(Senders) /\ Cardinality(Senders) <= MAX_SENDERS
         => fault # "senders"
    /\ IsFiniteSet(Receivers) /\ Cardinality(Receivers) <= MAX_RECEIVERS
         => fault # "receivers"

-----------------------------------------------------------------------------
\* The inductive invariant behind the properties above.  Counting is what
\* makes it inductive: an item has fewer readers than its group has receivers
\* (or nobody has joined), the readers are receivers, and neither list
\* repeats itself, so that one more reader completes the item or leaves room.
GoodItem(item, receivers) ==
    /\ Distinct(item.readers)
    /\ Elems(item.readers) \subseteq Elems(receivers)
    /\ receivers = <<>> \/ Len(item.readers) < Len(receivers)

GoodGroup(group) ==
    /\ Distinct(group.senders) /\ Distinct(group.receivers)
    /\ Len(group.receivers) <= MAX_RECEIVERS
    /\ group.openFlag =>
         \A j \in ItemSlots : ~group.items[j].deletedFlag
                              => GoodItem(group.items[j], group.receivers)

IInv == /\ TypeOK
        /\ UniqueNames
        /\ \A i \in Slots : GoodGroup(groups[i])
        /\ ReadersFit
        /\ MembersFit
=============================================================================

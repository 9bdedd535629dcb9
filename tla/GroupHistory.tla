----------------------------- MODULE GroupHistory -----------------------------
(***************************************************************************)
(* GroupMsg with a memory of what was sent and received, to state what the *)
(* receivers of a group see.  The callers send texts that differ, the      *)
(* numbers 1, 2, ..., which the code never looks at; the calls are those   *)
(* of GroupMsg but add_sender_to_group, whose list no other call reads.    *)
(* The history of a slot starts again when opengroup or recovergroup takes *)
(* it, both of which drop the messages it holds.                           *)
(***************************************************************************)
EXTENDS GroupMsg

CONSTANT MaxSends    \* bound: the messages sent in a behaviour

ASSUME HistoryAssumption == MaxSends \in Nat /\ Mesgs = 1 .. MaxSends

VARIABLES
    sent,       \* messages accepted so far
    log,        \* log[i]: messages slot i accepted, in the order sent
    got,        \* got[i][r]: messages r received from slot i, in order
    since,      \* since[i][r]: how much of log[i] precedes r's joining
    rising      \* rising[i]: no message went below one still stored

hvars == <<sent, log, got, since, rising>>
allvars == <<vars, hvars>>

NothingGot == [r \in Receivers |-> <<>>]
FromStart == [r \in Receivers |-> 0]

HInit == /\ Init
         /\ sent = 0
         /\ log = [i \in Slots |-> <<>>]
         /\ got = [i \in Slots |-> NothingGot]
         /\ since = [i \in Slots |-> FromStart]
         /\ rising = [i \in Slots |-> TRUE]

Forget(S) ==
    /\ log' = [i \in Slots |-> IF i \in S THEN <<>> ELSE log[i]]
    /\ got' = [i \in Slots |-> IF i \in S THEN NothingGot ELSE got[i]]
    /\ since' = [i \in Slots |-> IF i \in S THEN FromStart ELSE since[i]]
    /\ rising' = [i \in Slots |-> i \in S \/ rising[i]]
    /\ UNCHANGED sent

HRestart == groups_init /\ Forget(Slots)

HOpen(name) ==
    /\ opengroup(name)
    /\ IF groups' # groups THEN Forget({First(EmptyGroupSlots)})
                           ELSE UNCHANGED hvars

HClose(name) == closegroup(name) /\ UNCHANGED hvars

HRecover(name) ==
    /\ recovergroup(name)
    /\ IF name \in Names /\ Named(name) # {} THEN Forget({First(Named(name))})
                                             ELSE UNCHANGED hvars

HJoin(name, r) ==
    /\ add_receiver_to_group(name, r)
    /\ IF groups' # groups
       THEN LET i == First(Found(name))
            IN  since' = [since EXCEPT ![i][r] = Len(log[i])]
       ELSE UNCHANGED since
    /\ UNCHANGED <<sent, log, got, rising>>

Live(G) == {j \in ItemSlots : ~G.items[j].deletedFlag}

HSend(name) ==
    /\ sent < MaxSends
    /\ sendmsg(name, sent + 1)
    /\ IF groups' # groups
       THEN LET i == First(Found(name))
                top == First(EmptyItemSlots(i))
            IN  /\ sent' = sent + 1
                /\ log' = [log EXCEPT ![i] = Append(@, sent + 1)]
                /\ rising' = [rising EXCEPT ![i] = @ /\ \A j \in Live(groups[i]) : j < top]
       ELSE UNCHANGED <<sent, log, rising>>
    /\ UNCHANGED <<got, since>>

HReceive(name, r) ==
    /\ receivemsg(name, r)
    /\ IF groups' # groups
       THEN LET i == First(Found(name))
            IN  got' = [got EXCEPT ![i][r] = Append(@, reply'.mesg)]
       ELSE UNCHANGED got
    /\ UNCHANGED <<sent, log, since, rising>>

HistoryCall ==
    \/ HRestart
    \/ \E name \in Names :
          \/ HOpen(name) \/ HClose(name) \/ HRecover(name) \/ HSend(name)
          \/ \E r \in Receivers : HJoin(name, r) \/ HReceive(name, r)

HNext == \/ fault = "none" /\ HistoryCall
         \/ fault # "none" /\ UNCHANGED allvars

HSpec == HInit /\ [][HNext]_allvars

-----------------------------------------------------------------------------
Stored(G) == {G.items[j].Mesg : j \in Live(G)}

\* No message is reclaimed early: what was accepted after a receiver joined is
\* either received by it or still stored, for each receiver, while others
\* join, read and fall behind and the buffer fills and empties.
NothingLost == \A i \in Slots :
    groups[i].openFlag =>
      \A r \in Elems(groups[i].receivers), k \in 1 .. Len(log[i]) :
        k > since[i][r] => log[i][k] \in Elems(got[i][r]) \cup Stored(groups[i])

Ascending(s) == \A k, l \in 1 .. Len(s) : k < l => s[k] < s[l]

\* Messages reach each receiver in the order sent as long as no message took
\* an item slot below one that was still unread by somebody.
OrderedWhileRising == \A i \in Slots, r \in Receivers :
    rising[i] => Ascending(got[i][r])

\* Requirement.md asks that receivers agree on the order of messages.
Agree(s, t) == \A k, l \in 1 .. Len(s), x, y \in 1 .. Len(t) :
    s[k] = t[x] /\ s[l] = t[y] /\ k < l => x < y
ReceiverConsistent == \A i \in Slots, q, r \in Receivers :
    Agree(got[i][q], got[i][r])

-----------------------------------------------------------------------------
\* What Multicast sees of a group.  A slot that holds no group yet has items
\* of zeros that no call can reach.
Stock(G) == IF G.group_name = EmptyName THEN {} ELSE Stored(G)
SeenIn(G) == [m \in Mesgs |-> UNION {Elems(G.items[j].readers) :
                                        j \in {k \in Live(G) : G.items[k].Mesg = m}}]

OpenGroups == [i \in Slots |-> groups[i].openFlag]
Members == [i \in Slots |-> Elems(groups[i].receivers)]
Stocks == [i \in Slots |-> Stock(groups[i])]
Readers == [i \in Slots |-> SeenIn(groups[i])]

Promise == INSTANCE Multicast WITH
    Groups <- Slots, Processes <- Receivers, Messages <- Mesgs,
    Capacity <- MAX_ITEMS,
    isOpen <- OpenGroups, members <- Members, stored <- Stocks, seen <- Readers

\* The group table implements the unordered multicast, seen through the items
\* that are live, their readers and the lists of receivers.
KeepsPromise == Promise!MSpec

-----------------------------------------------------------------------------
\* The inductive invariant behind NothingLost, OrderedWhileRising and
\* KeepsPromise, of one slot: its group G, its log, what each receiver got
\* and had missed when it joined, whether its messages are rising, and the
\* last message sent to any group.

\* What was accepted and received is what was sent.
Past(sentLog, had, top) ==
    /\ \A m \in Elems(sentLog) : m <= top
    /\ \A r \in Receivers : Elems(had[r]) \subseteq Elems(sentLog)

\* Two live items never hold one message, and an item's list of readers is
\* exactly those who got its message.
Matched(G, sentLog, had) ==
    /\ G.group_name # EmptyName
    /\ \A j \in Live(G) :
         /\ G.items[j].Mesg \in Elems(sentLog)
         /\ \A k \in Live(G) : G.items[j].Mesg = G.items[k].Mesg => j = k
         /\ \A r \in Receivers :
              r \in Elems(G.items[j].readers) <=> G.items[j].Mesg \in Elems(had[r])

\* What came after a receiver joined, it got or finds stored.
Whole(G, sentLog, had, missed) ==
    \A r \in Elems(G.receivers), k \in 1 .. Len(sentLog) :
      k > missed[r] => sentLog[k] \in Elems(had[r]) \cup Stored(G)

\* The live items hold their messages in the order sent, and what a receiver
\* got came before what it has not read.
Lined(G, had) ==
    \A j \in Live(G) :
      /\ \A k \in Live(G) : j < k => G.items[j].Mesg < G.items[k].Mesg
      /\ \A r \in Receivers :
           r \notin Elems(G.items[j].readers)
             => \A m \in Elems(had[r]) : m < G.items[j].Mesg

GoodHistory(G, sentLog, had, missed, up, top) ==
    /\ Past(sentLog, had, top)
    /\ G.openFlag => Matched(G, sentLog, had) /\ Whole(G, sentLog, had, missed)
    /\ up => \A r \in Receivers : Ascending(had[r])
    /\ G.openFlag /\ up => Lined(G, had)

HistoryTypeOK == /\ sent \in 0 .. MaxSends
                 /\ log \in [Slots -> Seq(Mesgs)]
                 /\ got \in [Slots -> [Receivers -> Seq(Mesgs)]]
                 /\ since \in [Slots -> [Receivers -> Nat]]
                 /\ rising \in [Slots -> BOOLEAN]

GoodHistories == \A i \in Slots :
    GoodHistory(groups[i], log[i], got[i], since[i], rising[i], sent)

HistoryInv == IInv /\ HistoryTypeOK /\ GoodHistories
=============================================================================

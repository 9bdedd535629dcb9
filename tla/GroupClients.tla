----------------------------- MODULE GroupClients -----------------------------
(***************************************************************************)
(* The programs that use the groups: project.c run as a publisher, as a    *)
(* receiver and by the operator of one group, on top of PM's wrappers      *)
(* (misc.c).  A program is blocked from its request to PM's reply, so a    *)
(* system call is one step.  A receiver's user runs `project 4' and then   *)
(* `project 6', as tests.sh does.                                          *)
(***************************************************************************)
EXTENDS GroupMsg

CONSTANTS
    theGroup,    \* the group the programs are given on the command line
    Publishers,  \* the runs of `project 5'
    Endless,     \* whether a publisher is run again and again
    MaxOpens     \* bound: how often the operator opens or recovers the group

ASSUME ClientsAssumption == /\ theGroup \in Names
                            /\ Endless \in BOOLEAN
                            /\ MaxOpens \in Nat \ {0}

VARIABLES
    pc,          \* where each receiver's program is
    published,   \* the publishers that have sent
    opens        \* runs of the operator that opened the group so far

cvars == <<vars, pc, published, opens>>

Places == {"join", "first", "drainFirst", "poll", "drain", "done"}

CInit == /\ Init
         /\ pc = [r \in Receivers |-> "join"]
         /\ published = {}
         /\ opens = 0

-----------------------------------------------------------------------------
\* PM's wrappers.  mreceive hands receivemsg a pointer it never set: the text
\* goes through it (the reply is then what the caller sees) or PM faults.
gopen(name) == opengroup(name)
gclose(name) == closegroup(name)
grecover(name) == recovergroup(name)
greceiver(name, r) == add_receiver_to_group(name, r)
msend(name, m) == sendmsg(name, m)
mreceive(name, r) ==
    \/ receivemsg(name, r)
    \/ /\ \E i \in Found(name) : /\ i = First(Found(name))
                                 /\ r \in Elems(groups[i].receivers)
                                 /\ Unread(i, r) # {}
       /\ fault' = "mesg"
       /\ UNCHANGED <<groups, numGroups, reply>>

-----------------------------------------------------------------------------
TheSlots == {i \in Slots : groups[i].group_name = theGroup}
GroupIsOpen == \E i \in TheSlots : groups[i].openFlag

\* The operator opens the group, and recovers it when it was closed.
OperatorOpens == /\ ~GroupIsOpen /\ opens < MaxOpens
                 /\ IF TheSlots = {} THEN gopen(theGroup) ELSE grecover(theGroup)
                 /\ opens' = opens + 1
                 /\ UNCHANGED <<pc, published>>

OperatorCloses == /\ GroupIsOpen
                  /\ gclose(theGroup)
                  /\ UNCHANGED <<pc, published, opens>>

\* Choice 5: one message, whatever the reply.
Publish(p) == /\ Endless \/ p \notin published
              /\ \E m \in Mesgs : msend(theGroup, m)
              /\ published' = published \cup {p}
              /\ UNCHANGED <<pc, opens>>

\* Choice 4; choice 6 follows whatever the reply.
Join(r) == /\ pc[r] = "join"
           /\ greceiver(theGroup, r)
           /\ pc' = [pc EXCEPT ![r] = "first"]
           /\ UNCHANGED <<published, opens>>

\* Mutants: the draining loop reads once; an unknown group does not end polling.
AfterOneRead(place, status) ==
    CASE place = "first" ->
           IF status = MESSAGING_SUCCESS THEN "drainFirst" ELSE "poll"
      [] place = "drainFirst" -> "done"
      [] place = "poll" ->
           IF status = MESSAGING_SUCCESS THEN "drain"
           ELSE IF status = GROUP_NOT_FOUND THEN "done" ELSE "poll"
      [] place = "drain" -> "poll"
AfterUnknown(place, status) ==
    CASE place = "first" ->
           IF status = MESSAGING_SUCCESS THEN "drainFirst" ELSE "poll"
      [] place = "drainFirst" ->
           IF status = MESSAGING_SUCCESS THEN "drainFirst" ELSE "done"
      [] place \in {"poll", "drain"} ->
           IF status = MESSAGING_SUCCESS THEN "drain" ELSE "poll"

\* Choice 6: where the program goes from `place' with the status of mreceive.
\* A program that finds a message at once reads what there is and ends; one
\* that does not polls until the group is not found.
After(place, status) ==
    CASE place = "first" ->
           IF status = MESSAGING_SUCCESS THEN "drainFirst" ELSE "poll"
      [] place = "drainFirst" ->
           IF status = MESSAGING_SUCCESS THEN "drainFirst" ELSE "done"
      [] place = "poll" ->
           IF status = MESSAGING_SUCCESS THEN "drain"
           ELSE IF status = GROUP_NOT_FOUND THEN "done" ELSE "poll"
      [] place = "drain" ->
           IF status = MESSAGING_SUCCESS THEN "drain" ELSE "poll"

Receive(r) == /\ pc[r] \in {"first", "drainFirst", "poll", "drain"}
              /\ mreceive(theGroup, r)
              /\ pc' = IF fault' = "none"
                       THEN [pc EXCEPT ![r] = After(pc[r], reply'.status)]
                       ELSE pc
              /\ UNCHANGED <<published, opens>>

CNext == \/ /\ fault = "none"
            /\ \/ OperatorOpens \/ OperatorCloses
               \/ \E p \in Publishers : Publish(p)
               \/ \E r \in Receivers : Join(r) \/ Receive(r)
         \/ fault # "none" /\ UNCHANGED cvars

\* The kernel queues the callers of PM, and PM serves each in turn: a program
\* that has a call to make gets to make it.  Nothing makes the operator act.
CFairness == \A r \in Receivers : WF_cvars(fault = "none" /\ (Join(r) \/ Receive(r)))

CSpec == CInit /\ [][CNext]_cvars /\ CFairness

-----------------------------------------------------------------------------
Receiving(r) == pc[r] \notin {"join", "done"}
IsMember(i, r) == groups[i].openFlag /\ r \in Elems(groups[i].receivers)

\* A message that is stored when a member's program is receiving is read by
\* it, unless the group is closed or recovered first: reading the lowest item
\* starves none when the publishers end.
EveryMessageRead == \A r \in Receivers, i \in Slots, j \in ItemSlots :
    Receiving(r) /\ IsMember(i, r) /\ j \in Unread(i, r)
      ~> j \notin Unread(i, r) \/ ~groups[i].openFlag \/ fault # "none"

\* Closing a group ends the programs that wait for its messages: none polls
\* forever for a group that stays closed.
ClosingReleases == \A r \in Receivers :
    <>[](~GroupIsOpen) => <>(pc[r] = "done" \/ fault # "none")

=============================================================================

---------------------------- MODULE GroupDiscipline ----------------------------
(***************************************************************************)
(* GroupMsg with a note of what careless callers did: closed a group that  *)
(* was closed, or recovered one that was open.  (tests.sh does the first:  *)
(* it opens closed names again, which fails, and then closes them again.)  *)
(***************************************************************************)
EXTENDS GroupMsg

VARIABLE drift  \* history: recoveries of open groups since ginit, less
                \* closings of closed ones

dvars == <<vars, drift>>

DInit == Init /\ drift = 0

\* The group that closegroup and recovergroup would take is open.
IsOpen(name) == Named(name) # {} /\ groups[First(Named(name))].openFlag

TableCall ==
    \/ groups_init /\ drift' = 0
    \/ \E name \in AnyName :
          \/ closegroup(name)
             /\ drift' = IF name \in Names /\ Named(name) # {} /\ ~IsOpen(name)
                         THEN drift - 1 ELSE drift
          \/ recovergroup(name)
             /\ drift' = IF name \in Names /\ IsOpen(name) THEN drift + 1 ELSE drift
          \/ /\ UNCHANGED drift
             /\ \/ opengroup(name)
                \/ \E s \in Senders : add_sender_to_group(name, s)
                \/ \E r \in Receivers : add_receiver_to_group(name, r)
                \/ \E m \in Mesgs \cup {LongMesg} : sendmsg(name, m)
                \/ \E r \in Receivers : receivemsg(name, r)

TableNext == \/ fault = "none" /\ TableCall
             \/ fault # "none" /\ UNCHANGED dvars

TableSpec == DInit /\ [][TableNext]_dvars

-----------------------------------------------------------------------------
OpenSlots == {i \in Slots : groups[i].openFlag}

\* The bound of the searches, numGroups, is off by what careless callers did and
\* by no more, through the taking over of closed slots by other names, recovery
\* and ginit.  So a search runs past GroupsList only when more open groups were
\* recovered than closed ones closed, and an open group is out of its reach only
\* behind a closed one, or when it is the other way round.
CountsOpenGroups ==
    /\ numGroups = Cardinality(OpenSlots) + drift
    /\ fault = "groups" => drift > 0
    /\ \A i \in OpenSlots : \/ i < numGroups
                            \/ drift < 0
                            \/ \E j \in Slots : j < i /\ j \notin OpenSlots
=============================================================================

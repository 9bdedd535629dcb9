------------------------------- MODULE Multicast -------------------------------
(***************************************************************************)
(* What a caller of project2's groups is promised: each group is a bounded *)
(* store of messages, every member reads each stored message once, and a   *)
(* message leaves when its last member has read it.  The order in which a  *)
(* member reads is NOT promised (GroupHistory shows why it cannot be).     *)
(***************************************************************************)
EXTENDS Integers, FiniteSets

CONSTANTS Groups, Processes, Messages, Capacity

VARIABLES isOpen,    \* isOpen[i]: group i takes calls
          members,   \* members[i]: the processes that joined to receive
          stored,    \* stored[i]: messages some member may still read
          seen       \* seen[i][m]: the members that read m

mvars == <<isOpen, members, stored, seen>>

NobodySaw == [m \in Messages |-> {}]

MInit == /\ isOpen = [i \in Groups |-> FALSE]
         /\ members = [i \in Groups |-> {}]
         /\ stored = [i \in Groups |-> {}]
         /\ seen = [i \in Groups |-> NobodySaw]

\* A group starts afresh, without members; a recovered one keeps them.
Open(i) == /\ ~isOpen[i]
           /\ isOpen' = [isOpen EXCEPT ![i] = TRUE]
           /\ members' = [members EXCEPT ![i] = {}]
           /\ stored' = [stored EXCEPT ![i] = {}]
           /\ seen' = [seen EXCEPT ![i] = NobodySaw]

Recover(i) == /\ isOpen' = [isOpen EXCEPT ![i] = TRUE]
              /\ stored' = [stored EXCEPT ![i] = {}]
              /\ seen' = [seen EXCEPT ![i] = NobodySaw]
              /\ UNCHANGED members

Close(i) == /\ isOpen' = [isOpen EXCEPT ![i] = FALSE]
            /\ UNCHANGED <<members, stored, seen>>

Join(i, r) == /\ isOpen[i] /\ r \notin members[i]
              /\ members' = [members EXCEPT ![i] = @ \cup {r}]
              /\ UNCHANGED <<isOpen, stored, seen>>

Send(i, m) == /\ isOpen[i] /\ m \notin stored[i]
              /\ Cardinality(stored[i]) < Capacity
              /\ stored' = [stored EXCEPT ![i] = @ \cup {m}]
              /\ UNCHANGED <<isOpen, members, seen>>

Receive(i, r, m) ==
    /\ isOpen[i] /\ r \in members[i]
    /\ m \in stored[i] /\ r \notin seen[i][m]
    /\ IF seen[i][m] \cup {r} = members[i]
       THEN /\ stored' = [stored EXCEPT ![i] = @ \ {m}]
            /\ seen' = [seen EXCEPT ![i][m] = {}]
       ELSE /\ seen' = [seen EXCEPT ![i][m] = @ \cup {r}]
            /\ UNCHANGED stored
    /\ UNCHANGED <<isOpen, members>>

\* All groups are given up at once.
Restart == /\ isOpen' = [i \in Groups |-> FALSE]
           /\ members' = [i \in Groups |-> {}]
           /\ stored' = [i \in Groups |-> {}]
           /\ seen' = [i \in Groups |-> NobodySaw]

MNext == \/ Restart
         \/ \E i \in Groups :
              \/ Open(i) \/ Recover(i) \/ Close(i)
              \/ \E r \in Processes : Join(i, r)
              \/ \E m \in Messages : Send(i, m)
              \/ \E r \in Processes, m \in Messages : Receive(i, r, m)

MSpec == MInit /\ [][MNext]_mvars
=============================================================================

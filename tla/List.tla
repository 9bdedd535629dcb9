--------------------------------- MODULE List ---------------------------------
(***************************************************************************)
(* The doubly linked list of CS551P1/CS551P1/list.c, one of whose          *)
(* iterators may be running while the list changes.  A node is taken from  *)
(* the heap, pushed, detached by a pop, removed, and given back.  As       *)
(* test.c does, a caller pushes only nodes that are not on the list and    *)
(* removes and frees only what it may.                                     *)
(***************************************************************************)
EXTENDS Integers, Sequences

CONSTANTS Nodes, Vals, NULL

ASSUME NullAssumption == NULL \notin Nodes /\ NULL \notin Vals

VARIABLES
    node,       \* prev, next and val of every node
    allocated,  \* the nodes malloc has given and free has not taken
    head, tail, len,
    it,         \* the running iterator: next and direction, or NULL
    result,     \* what the last call returned
    fault,      \* a freed node was read
    passed,     \* history: what the iterator has returned undisturbed
    disturbed   \* history: a node left the list since the iterator began

vars == <<node, allocated, head, tail, len, it, result, fault, passed, disturbed>>

Directions == {"LIST_HEAD", "LIST_TAIL"}

\* list_iterator_next's step along the list.
Step(n, direction) == IF n = NULL THEN NULL
                      ELSE IF direction = "LIST_HEAD" THEN node[n].next
                                                      ELSE node[n].prev

\* list_iterator_new: the node an iteration begins with.
Start(direction) == IF direction = "LIST_HEAD" THEN head ELSE tail

\* The nodes an iteration returns, one for each of the first len calls.
Walk(direction) ==
    LET w[k \in 1 .. len] == IF k = 1 THEN Start(direction)
                             ELSE Step(w[k - 1], direction)
    IN  [k \in 1 .. len |-> w[k]]

OnList == {Walk("LIST_HEAD")[k] : k \in 1 .. len}

\* What a freed node holds is indeterminate; reading it is a fault.
Blank == [prev |-> NULL, next |-> NULL, val |-> NULL]

Init == /\ node = [n \in Nodes |-> Blank]
        /\ allocated = {}
        /\ head = NULL /\ tail = NULL /\ len = 0
        /\ it = NULL /\ result = NULL /\ fault = FALSE
        /\ passed = <<>> /\ disturbed = FALSE

-----------------------------------------------------------------------------
list_node_new(n, v) ==
    /\ n \notin allocated
    /\ node' = [node EXCEPT ![n] = [prev |-> NULL, next |-> NULL, val |-> v]]
    /\ allocated' = allocated \cup {n}
    /\ result' = n
    /\ UNCHANGED <<head, tail, len, it, fault, passed, disturbed>>

\* Mutant: the old tail is not linked to the new one.
RPushUnlinked(n) ==
    IF len # 0 THEN /\ node' = [node EXCEPT ![n].prev = tail, ![n].next = NULL]
                    /\ tail' = n /\ UNCHANGED head
    ELSE /\ head' = n /\ tail' = n
         /\ node' = [node EXCEPT ![n].prev = NULL, ![n].next = NULL]

\* The links that list_rpush and list_lpush set.
RPushLinks(n) ==
    IF len # 0 THEN /\ node' = [node EXCEPT ![n].prev = tail, ![n].next = NULL,
                                            ![tail].next = n]
                    /\ tail' = n /\ UNCHANGED head
    ELSE /\ head' = n /\ tail' = n
         /\ node' = [node EXCEPT ![n].prev = NULL, ![n].next = NULL]

LPushLinks(n) ==
    IF len # 0 THEN /\ node' = [node EXCEPT ![n].next = head, ![n].prev = NULL,
                                            ![head].prev = n]
                    /\ head' = n /\ UNCHANGED tail
    ELSE /\ head' = n /\ tail' = n
         /\ node' = [node EXCEPT ![n].prev = NULL, ![n].next = NULL]

list_rpush(n) == /\ n \in allocated \ OnList
                 /\ RPushLinks(n)
                 /\ len' = len + 1 /\ result' = n
                 /\ UNCHANGED <<allocated, it, fault, passed, disturbed>>

list_lpush(n) == /\ n \in allocated \ OnList
                 /\ LPushLinks(n)
                 /\ len' = len + 1 /\ result' = n
                 /\ UNCHANGED <<allocated, it, fault, passed, disturbed>>

PopNone == /\ len = 0
           /\ result' = NULL
           /\ UNCHANGED <<node, allocated, head, tail, len, it, fault, passed, disturbed>>

\* The popped node is the caller's.
Detach(n) == /\ len' = len - 1 /\ result' = n /\ disturbed' = TRUE
             /\ UNCHANGED <<allocated, it, fault, passed>>

\* Mutant: the node keeps its links, and the new tail keeps its next.
RPopLinked == /\ len # 0
              /\ tail' = node[tail].prev
              /\ head' = IF len = 1 THEN NULL ELSE head
              /\ Detach(tail) /\ UNCHANGED node

list_rpop ==
    /\ len # 0
    /\ LET n == tail
           p == node[tail].prev
       IN  /\ IF len > 1
              THEN /\ node' = [node EXCEPT ![p].next = NULL,
                                           ![n].next = NULL, ![n].prev = NULL]
                   /\ tail' = p /\ UNCHANGED head
              ELSE /\ node' = [node EXCEPT ![n].next = NULL, ![n].prev = NULL]
                   /\ tail' = NULL /\ head' = NULL
           /\ Detach(n)

list_lpop ==
    /\ len # 0
    /\ LET n == head
           s == node[head].next
       IN  /\ IF len > 1
              THEN /\ node' = [node EXCEPT ![s].prev = NULL,
                                           ![n].next = NULL, ![n].prev = NULL]
                   /\ head' = s /\ UNCHANGED tail
              ELSE /\ node' = [node EXCEPT ![n].next = NULL, ![n].prev = NULL]
                   /\ head' = NULL /\ tail' = NULL
           /\ Detach(n)

list_remove(n) ==
    /\ n \in OnList
    /\ LET p == node[n].prev
           s == node[n].next
       IN  /\ node' = [m \in Nodes |->
                 IF m = n THEN Blank
                 ELSE [node[m] EXCEPT !.next = IF m = p THEN s ELSE @,
                                      !.prev = IF m = s THEN p ELSE @]]
           /\ head' = IF p = NULL THEN s ELSE head
           /\ tail' = IF s = NULL THEN p ELSE tail
    /\ allocated' = allocated \ {n}
    /\ len' = len - 1 /\ disturbed' = TRUE
    /\ UNCHANGED <<it, result, fault, passed>>

\* list_destroy walks from the head and frees len nodes; list_new follows.
list_destroy ==
    /\ allocated' = allocated \ OnList
    /\ node' = [n \in Nodes |-> IF n \in OnList THEN Blank ELSE node[n]]
    /\ head' = NULL /\ tail' = NULL /\ len' = 0 /\ disturbed' = TRUE
    /\ UNCHANGED <<it, result, fault, passed>>

\* A caller frees a node that a pop gave it.
FreeNode(n) == /\ n \in allocated \ OnList
               /\ allocated' = allocated \ {n}
               /\ node' = [node EXCEPT ![n] = Blank]
               /\ UNCHANGED <<head, tail, len, it, result, fault, passed, disturbed>>

-----------------------------------------------------------------------------
\* Mutant: the index from the tail is negated, not complemented.
IndexNegated(index) == IF index < 0 THEN -index ELSE index

\* ~index in two's complement.
Steps(index) == IF index < 0 THEN -index - 1 ELSE index

ListAt(index) ==
    LET direction == IF index < 0 THEN "LIST_TAIL" ELSE "LIST_HEAD"
    IN  IF Steps(index) < len THEN Walk(direction)[Steps(index) + 1] ELSE NULL

\* The first node from the head whose value is (or matches) v.
ListFind(v) == LET hits == {k \in 1 .. len : node[Walk("LIST_HEAD")[k]].val = v}
               IN  IF hits = {} THEN NULL
                   ELSE Walk("LIST_HEAD")[CHOOSE k \in hits : \A l \in hits : k <= l]

list_at(index) == /\ result' = ListAt(index)
                  /\ UNCHANGED <<node, allocated, head, tail, len, it, fault, passed, disturbed>>

list_find(v) == /\ result' = ListFind(v)
                /\ UNCHANGED <<node, allocated, head, tail, len, it, fault, passed, disturbed>>

list_iterator_new(direction) ==
    /\ it' = [next |-> Start(direction), direction |-> direction]
    /\ passed' = <<>> /\ disturbed' = FALSE
    /\ UNCHANGED <<node, allocated, head, tail, len, result, fault>>

\* Mutant: the iterator steps before it returns.
IteratorSkips ==
    /\ it # NULL
    /\ LET curr == Step(it.next, it.direction)
       IN  /\ result' = curr
           /\ it' = [it EXCEPT !.next = curr]
           /\ passed' = IF curr = NULL \/ disturbed THEN passed ELSE Append(passed, curr)
           /\ fault' = (curr # NULL /\ curr \notin allocated)
    /\ UNCHANGED <<node, allocated, head, tail, len, disturbed>>

\* The iterator holds the node it will return next, and reads its link then.
list_iterator_next ==
    /\ it # NULL
    /\ LET curr == it.next
       IN  /\ result' = curr
           /\ it' = [it EXCEPT !.next = Step(curr, it.direction)]
           /\ passed' = IF curr = NULL \/ disturbed THEN passed ELSE Append(passed, curr)
           /\ fault' = (curr # NULL /\ curr \notin allocated)
    /\ UNCHANGED <<node, allocated, head, tail, len, disturbed>>

list_iterator_destroy ==
    /\ it # NULL
    /\ it' = NULL /\ passed' = <<>>
    /\ UNCHANGED <<node, allocated, head, tail, len, result, fault, disturbed>>

Indices == -(len + 1) .. len

ListCall ==
    \/ \E n \in Nodes : \/ \E v \in Vals : list_node_new(n, v)
                        \/ list_rpush(n) \/ list_lpush(n)
                        \/ list_remove(n) \/ FreeNode(n)
    \/ PopNone \/ list_rpop \/ list_lpop \/ list_destroy
    \/ \E index \in Indices : list_at(index)
    \/ \E v \in Vals : list_find(v)
    \/ \E direction \in Directions : list_iterator_new(direction)
    \/ list_iterator_next \/ list_iterator_destroy

\* After a freed node was read nothing is said of the list.
Next == \/ ~fault /\ ListCall
        \/ fault /\ UNCHANGED vars

Spec == Init /\ [][Next]_vars

-----------------------------------------------------------------------------
Mirror(s) == [k \in 1 .. Len(s) |-> s[Len(s) + 1 - k]]

\* Both directions see the same nodes: walking from the tail gives the walk
\* from the head reversed, both end in NULL, every node on the way is on the
\* heap and none comes twice, whatever was pushed, popped and removed where.
WellLinked ==
    /\ Walk("LIST_TAIL") = Mirror(Walk("LIST_HEAD"))
    /\ \A k \in 1 .. len : Walk("LIST_HEAD")[k] \in allocated
    /\ \A k, l \in 1 .. len : Walk("LIST_HEAD")[k] = Walk("LIST_HEAD")[l] => k = l
    /\ len = 0 => head = NULL /\ tail = NULL
    /\ len > 0 => node[tail].next = NULL /\ node[head].prev = NULL

\* list_at agrees with indexing the sequence from either end, one past both,
\* and list_find gives the node nearest to the head that has the value.
LookupsMatch ==
    LET s == Walk("LIST_HEAD")
        hits(v) == {k \in 1 .. len : node[s[k]].val = v}
    IN  /\ \A index \in Indices :
              ListAt(index) = IF index \in 0 .. len - 1 THEN s[index + 1]
                              ELSE IF index \in -len .. -1 THEN s[len + index + 1]
                              ELSE NULL
        /\ \A v \in Vals :
              IF hits(v) = {} THEN ListFind(v) = NULL
              ELSE \E k \in hits(v) : s[k] = ListFind(v) /\ \A l \in hits(v) : k <= l

\* What an iterator has still to return, as far as the list goes.
Ahead == LET s == Walk(it.direction)
             from == {k \in 1 .. len : s[k] = it.next}
         IN  IF from = {} THEN <<>>
             ELSE SubSeq(s, CHOOSE k \in from : TRUE, len)

\* An iteration passes over no node and returns none twice while others push:
\* what it returned and what is ahead of it are the end of the list, as seen
\* in its direction, as long as no node left the list.
IterationIsWhole ==
    it # NULL /\ it.next # NULL /\ ~disturbed =>
      LET s == Walk(it.direction)
          r == passed \o Ahead
      IN  Len(r) <= len /\ r = SubSeq(s, len - Len(r) + 1, len)

-----------------------------------------------------------------------------
\* The inductive invariant.
TypeOK ==
    /\ node \in [Nodes -> [prev : Nodes \cup {NULL}, next : Nodes \cup {NULL},
                           val : Vals \cup {NULL}]]
    /\ allocated \subseteq Nodes /\ len \in Nat
    /\ it \in [next : Nodes \cup {NULL}, direction : Directions] \cup {NULL}
    /\ result \in Nodes \cup {NULL}
    /\ passed \in Seq(Nodes) /\ disturbed \in BOOLEAN

\* The links of the nodes of s make s the list from first to last.
Chained(s, links, first, last, heap) ==
    /\ s \in Seq(heap)
    /\ \A k, l \in 1 .. Len(s) : s[k] = s[l] => k = l
    /\ \A k \in 1 .. Len(s) :
         /\ links[s[k]].prev = IF k = 1 THEN NULL ELSE s[k - 1]
         /\ links[s[k]].next = IF k = Len(s) THEN NULL ELSE s[k + 1]
    /\ first = IF Len(s) = 0 THEN NULL ELSE s[1]
    /\ last = IF Len(s) = 0 THEN NULL ELSE s[Len(s)]

\* An iteration that returned the nodes of back is at n, in list s.
Reached(s, n, back) == \E a, b \in 1 .. Len(s) :
    /\ a <= b /\ s[b] = n /\ Len(back) = b - a
    /\ \A k \in 1 .. Len(back) : back[k] = s[a + k - 1]

ListInv ==
    /\ TypeOK
    /\ Chained(Walk("LIST_HEAD"), node, head, tail, allocated)
    /\ it # NULL /\ it.next # NULL /\ ~disturbed =>
         Reached(Walk(it.direction), it.next, passed)

-----------------------------------------------------------------------------
\* The list implements the deque.
AsDeque == INSTANCE Deque WITH
    Elements <- Nodes, None <- NULL,
    content <- Walk("LIST_HEAD"), returned <- result
ImplementsDeque == AsDeque!DSpec
=============================================================================

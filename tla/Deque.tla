-------------------------------- MODULE Deque --------------------------------
(***************************************************************************)
(* What list.h promises: a sequence of nodes, pushed and popped at both    *)
(* ends, searched, indexed from either end and removed from anywhere.      *)
(***************************************************************************)
EXTENDS Integers, Sequences

CONSTANTS Elements, None

VARIABLES content, returned

dvars == <<content, returned>>

DInit == content = <<>> /\ returned = None

Listed == {content[k] : k \in 1 .. Len(content)}

RPush(e) == /\ e \notin Listed
            /\ content' = Append(content, e) /\ returned' = e

LPush(e) == /\ e \notin Listed
            /\ content' = <<e>> \o content /\ returned' = e

RPop == /\ content # <<>>
        /\ content' = SubSeq(content, 1, Len(content) - 1)
        /\ returned' = content[Len(content)]

LPop == /\ content # <<>>
        /\ content' = Tail(content) /\ returned' = Head(content)

PopEmpty == content = <<>> /\ returned' = None /\ UNCHANGED content

Remove(k) == /\ content' = SubSeq(content, 1, k - 1) \o
                           SubSeq(content, k + 1, Len(content))
             /\ UNCHANGED returned

Clear == content' = <<>> /\ UNCHANGED returned

\* Reading the list gives an element of it, one it gave before, or none.
Read == UNCHANGED content /\ returned' \in Elements \cup {None}

DNext == \/ \E e \in Elements : RPush(e) \/ LPush(e)
         \/ RPop \/ LPop \/ PopEmpty \/ Clear \/ Read
         \/ \E k \in 1 .. Len(content) : Remove(k)

DSpec == DInit /\ [][DNext]_dvars
=============================================================================

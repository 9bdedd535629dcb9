------------------------------ MODULE SparseFile ------------------------------
(***************************************************************************)
(* What a file promises to the programs that write, truncate and free      *)
(* parts of it: a sequence of bytes, here the first is number 1, in which  *)
(* what was never written reads as zero.                                   *)
(***************************************************************************)
EXTENDS Integers, Sequences

CONSTANT MAX_SIZE
VARIABLE content

Init == content = <<>>

\* A byte at position p, with zeroes up to it when the file was shorter.
Write(p) == content' = [k \in 1 .. (IF p < Len(content) THEN Len(content) ELSE p + 1) |->
                          IF k = p + 1 THEN 1
                          ELSE IF k <= Len(content) THEN content[k] ELSE 0]

\* The file gets length n: it is cut, or extended with zeroes.
Truncate(n) == content' = [k \in 1 .. n |->
                             IF k <= Len(content) THEN content[k] ELSE 0]

\* The bytes from position start to before end are zero, the others as before.
Free(start, end) == content' = [k \in DOMAIN content |->
                                  IF k - 1 \in start .. end - 1 THEN 0 ELSE content[k]]

Next == \/ \E p \in 0 .. MAX_SIZE - 1 : Write(p)
        \/ \E n \in 0 .. MAX_SIZE : Truncate(n)
        \/ \E start, end \in 0 .. MAX_SIZE : Free(start, end)

Spec == Init /\ [][Next]_content
=============================================================================

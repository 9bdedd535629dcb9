------------------------------ MODULE ShellOrder ------------------------------
(***************************************************************************)
(* What the shell does with parentheses and commas before it parses a      *)
(* line: validateparenthes and changesequence of CS551P1's main.c.         *)
(*                                                                         *)
(* A line is typed with spaces between words only and has no aliases; it   *)
(* is a sequence of words, which begin and end with a letter or digit, and *)
(* of characters that are neither.                                         *)
(***************************************************************************)
EXTENDS ShellParse, FiniteSetsExt, Integers

CONSTANT Letters    \* the words of one character

ASSUME LettersAssumption ==
    /\ Letters \subseteq Words
    /\ Words \cap {"(", ")", ",", " ", "fault"} = {}

\* A line on which the code reads or writes outside its arrays, or cuts a word.
Fault == <<"fault">>

Many(line, k, c) == Cardinality({i \in 1 .. k : line[i] = c})

\* times, behind position k.
Depth(line, k) == Many(line, k, "(") - Many(line, k, ")")

\* Every ")" closes a "(" before it, and every "(" is closed.
validateparenthes(line) ==
    /\ \A k \in DOMAIN line : Depth(line, k) >= 0
    /\ Depth(line, Len(line)) = 0

\* convertalias where no word is an alias: a space behind the last word, and
\* a last comma behind that.
convertalias(line) ==
    IF line # <<>> /\ Last(line) = "," THEN Front(line) \o <<" ", ",">> ELSE Append(line, " ")

-----------------------------------------------------------------------------
FirstOf(S, default) == IF S = {} THEN default ELSE Min(S)

\* The place of the ")" that closes the first group, and of its "(".
Right(d) == FirstOf({k \in DOMAIN d : d[k] = ")" /\ Depth(d, k) = 0}, Len(d))
Left(d) == FirstOf({k \in 1 .. Right(d) : d[k] = "(" /\ Depth(d, k - 1) = 0}, 1)

WordsIn(d, from, to) == {k \in from .. to : d[k] \in Words}

\* Mutant: the ")" is taken for a part of the group.
InnerToParenthesis(d) ==
    IF Many(d, Right(d), "(") > 0 THEN SubSeq(d, Left(d) + 1, Right(d))
    ELSE [k \in DOMAIN d |-> IF d[k] = "," THEN "|" ELSE d[k]]

\* The group without its parentheses; if there is none, the line with its commas
\* as pipes.
Inner(d) ==
    IF Many(d, Right(d), "(") > 0 THEN SubSeq(d, Left(d) + 1, Right(d) - 1)
    ELSE [k \in DOMAIN d |-> IF d[k] = "," THEN "|" ELSE d[k]]

\* What is before the group is put behind it, from its first to its last word.
Before(d) ==
    IF Left(d) = 1 THEN <<>>
    ELSE LET words == WordsIn(d, 1, Left(d))
         IN  IF words = {} THEN Fault
             ELSE <<";">> \o SubSeq(d, Min(WordsIn(d, 1, Len(d))), Max(words))

\* The test left > 0, left being the end of the last word before the group.
MovedLeft(d) == Left(d) > 1 /\ ~(Max(WordsIn(d, 1, Left(d))) = 1 /\ d[1] \in Letters)

\* What is behind the group follows it: from its first word on, or, where there
\* is a ";", from the ")" to the character behind the last word.
After(d) ==
    LET right == Right(d)
        words == WordsIn(d, right, Len(d))
        last == Max(WordsIn(d, 1, Len(d)))
    IN  CASE right = Len(d) \/ (right = Len(d) - 1 /\ Last(d) \notin Words \ Letters) -> <<>>
          [] OTHER ->
               IF WordsIn(d, 1, Len(d)) = {} THEN Fault
               ELSE IF \E k \in right .. Len(d) : d[k] = ";"
               THEN IF last < right - 1 THEN SubSeq(d, right + 1, Len(d))
                    ELSE SubSeq(d, right + 1, Min({last + 1, Len(d)}))
               ELSE IF words = {} THEN Fault
               ELSE (IF MovedLeft(d) THEN <<"|">> ELSE <<";">>) \o SubSeq(d, Min(words), last)

\* A "(" that is not closed any more: the last character is taken for its ")".
CutShort(d) ==
    /\ Many(d, Right(d), "(") > 0
    /\ Left(d) = Right(d) \/ (Last(d) \in Words \ Letters /\ d[Right(d)] # ")")

\* changesequence once.
Changed(d) ==
    IF CutShort(d) \/ Before(d) = Fault THEN Fault
    ELSE IF After(d) = Fault THEN Fault
    ELSE Inner(d) \o Before(d) \o After(d)

\* It calls itself while there is a "(" or a ",".
changesequence(line) ==
    LET after[k \in 0 .. Len(line) + 1] ==
          IF k = 0 THEN line
          ELSE LET d == after[k - 1]
               IN  IF {"(", ","} \cap ToSet(d) = {} /\ k > 1 THEN d ELSE Changed(d)
    IN  after[Len(line) + 1]

\* Without spaces.
Unspaced(line) ==
    LET kept[k \in 0 .. Len(line)] ==
          IF k = 0 THEN <<>>
          ELSE IF line[k] = " " THEN kept[k - 1] ELSE Append(kept[k - 1], line[k])
    IN  kept[Len(line)]

\* The line that parsecmd gets, which skips spaces.
Linear(line) == Unspaced(changesequence(convertalias(line)))
=============================================================================

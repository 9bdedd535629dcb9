------------------------------ MODULE ShellParse ------------------------------
(***************************************************************************)
(* The parser of the shell (parsecmd to parseredirs in CS551P1's main.c),  *)
(* on lines that are sequences of tokens: words and the five symbols.      *)
(*                                                                         *)
(* The parser walks along the line; here each of its functions is a        *)
(* function of the position where it begins, which returns the command and *)
(* the position where it ends.                                             *)
(***************************************************************************)
EXTENDS Naturals, Sequences, SequencesExt, FiniteSets

CONSTANTS
    Words,      \* what is not a symbol
    MAXARGS     \* the size of argv, the end mark included

ASSUME WordsAssumption ==
    /\ Words \cap {"<", ">", "&", "|", ";", "end"} = {}
    /\ MAXARGS \in Nat \ {0}

Arrows == {"<", ">"}

\* Commands, and Error: the parser has written a message and ended.
execcmd(argv) == [type |-> " ", argv |-> argv]
redircmd(cmd, file, type) == [type |-> type, cmd |-> cmd, file |-> file]
pipecmd(left, right) == [type |-> "|", left |-> left, right |-> right]
listcmd(left, right) == [type |-> ";", left |-> left, right |-> right]
backcmd(cmd) == [type |-> "&", cmd |-> cmd]
Error == [type |-> "error"]

\* gettoken and peek at a position: a token or the end of the line.
Token(line, i) == IF i \in DOMAIN line THEN line[i] ELSE "end"

\* The first position from i on whose token is not among, or is among, toks.
Beyond(line, i, toks) == CHOOSE j \in i .. Len(line) + 1 :
    Token(line, j) \notin toks /\ \A k \in i .. j - 1 : line[k] \in toks

Until(line, i, toks) == CHOOSE j \in i .. Len(line) + 1 :
    Token(line, j) \in toks \cup {"end"} /\ \A k \in i .. j - 1 : line[k] \notin toks

\* The part of s at the positions in S.
At(s, S) ==
    LET upto[k \in 0 .. Len(s)] ==
          IF k = 0 THEN <<>>
          ELSE IF k \in S THEN Append(upto[k - 1], s[k]) ELSE upto[k - 1]
    IN  upto[Len(s)]

-----------------------------------------------------------------------------
\* The arrows of s, and the words that are files after them.
ArrowsOf(s) == {k \in DOMAIN s : s[k] \in Arrows}
FilesOf(s) == {k \in DOMAIN s : k - 1 \in ArrowsOf(s)}

\* parseredirs: each file wraps the command so far.
parseredirs(cmd, s) ==
    LET wrapped[k \in 0 .. Len(s)] ==
          IF k = 0 THEN cmd
          ELSE IF s[k] \in Arrows THEN redircmd(wrapped[k - 1], s[k + 1], s[k])
          ELSE wrapped[k - 1]
    IN  wrapped[Len(s)]

\* A program, its arguments and files, up to the next ";", "|" or "&".
parseexec(line, i) ==
    LET s == SubSeq(line, i, Until(line, i, {";", "|", "&"}) - 1)
        argv == At(s, DOMAIN s \ (ArrowsOf(s) \cup FilesOf(s)))
    IN  IF \/ \E k \in ArrowsOf(s) : Token(s, k + 1) \notin Words
           \/ Len(argv) >= MAXARGS
        THEN Error
        ELSE parseredirs(execcmd(argv), s)

\* The command so far, joined by op with the rest of the line when tok follows;
\* an error of either side is the line's.
Joined(line, left, tok, op(_, _), rest) ==
    IF Token(line, left.next) # tok THEN left
    ELSE LET right == rest[left.next + 1]
         IN  [cmd |-> IF Error \in {left.cmd, right.cmd} THEN Error ELSE op(left.cmd, right.cmd),
              next |-> right.next]

parsepipe(line) ==
    LET pipe[i \in 1 .. Len(line) + 1] ==
          Joined(line, [cmd |-> parseexec(line, i), next |-> Until(line, i, {";", "|", "&"})],
                 "|", pipecmd, pipe)
    IN  pipe

\* Mutant: "&" is taken once.
InBackgroundOnce(cmd, n) == IF cmd = Error \/ n = 0 THEN cmd ELSE backcmd(cmd)

\* A command with n times "&" after it.
InBackground(cmd, n) ==
    LET back[k \in 0 .. n] == IF k = 0 THEN cmd ELSE backcmd(back[k - 1])
    IN  IF cmd = Error THEN Error ELSE back[n]

\* parseline's loop: what parsepipe returned, with the "&" after it.
Backed(line, p) ==
    LET j == Beyond(line, p.next, {"&"})
    IN  [cmd |-> InBackground(p.cmd, j - p.next), next |-> j]

parseline(line) ==
    LET rest[i \in 1 .. Len(line) + 1] ==
          Joined(line, Backed(line, parsepipe(line)[i]), ";", listcmd, rest)
    IN  rest

\* The line must be used up ("leftovers").
parsecmd(line) ==
    LET p == parseline(line)[1]
    IN  IF p.next = Len(line) + 1 THEN p.cmd ELSE Error

-----------------------------------------------------------------------------
\* What a line means without the parser: which lines are commands.
WellFormed(line) ==
    /\ \A k \in DOMAIN line :
          /\ line[k] \in Arrows => Token(line, k + 1) \in Words
          /\ line[k] = "&" => Token(line, k + 1) \in {"&", ";", "end"}
    /\ \A i, j \in DOMAIN line :
          (\A k \in i .. j : line[k] \notin {"|", ";", "&"}) =>
            Cardinality({k \in i .. j : line[k] \in Words /\ k - 1 \notin ArrowsOf(line)}) < MAXARGS
=============================================================================

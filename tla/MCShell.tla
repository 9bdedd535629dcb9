------------------------------- MODULE MCShell -------------------------------
(* Pipes that end from either end, lists, a background line, a program that *)
(* is not there and lines that are none; for the parser, every short line;  *)
(* for changesequence, groups in groups.                                    *)
EXTENDS Shell

MCWords == {"yes", "cat", "head", "echo", "f"}
MCLetters == {"f"}

MCLines == {
    <<"yes", ",", "cat", ",", "head">>,
    <<"echo", "|", "cat", ">", "f", ";">>,
    <<"yes", "|", "head", "&">>,
    <<"echo", ",", "(", "f", ")">>,
    <<"echo", "<">>,
    <<"(">>}

-----------------------------------------------------------------------------
\* A command written as a line, each file behind the words.
RECURSIVE Written(_)
Written(cmd) ==
    CASE cmd.type = " " -> cmd.argv
      [] cmd.type \in Arrows -> Written(cmd.cmd) \o <<cmd.type, cmd.file>>
      [] cmd.type \in {"|", ";"} -> Written(cmd.left) \o <<cmd.type>> \o Written(cmd.right)
      [] cmd.type = "&" -> Written(cmd.cmd) \o <<"&">>

\* ";" binds less than "&", "&" less than "|", and that less than an arrow.
Binding(type) == CASE type = ";" -> 1 [] type = "&" -> 2 [] type = "|" -> 3
                   [] type \in Arrows -> 4 [] type = " " -> 5

RECURSIVE Nested(_)
Nested(cmd) ==
    CASE cmd.type = " " -> TRUE
      [] cmd.type \in Arrows \cup {"&"} ->
           Nested(cmd.cmd) /\ Binding(cmd.type) <= Binding(cmd.cmd.type)
      [] cmd.type \in {"|", ";"} ->
           /\ Nested(cmd.left) /\ Binding(cmd.type) < Binding(cmd.left.type)
           /\ Nested(cmd.right) /\ Binding(cmd.type) <= Binding(cmd.right.type)

\* The files of a line in order, and all the rest in order.
Files(line) == At(line, ArrowsOf(line) \cup FilesOf(line))
Rest(line) == At(line, DOMAIN line \ (ArrowsOf(line) \cup FilesOf(line)))

\* The parser accepts the lines that are well formed, and the command it makes
\* of one is the line, token for token, nested by how the operators bind.
ParsesRight(line) ==
    LET cmd == parsecmd(line)
    IN  /\ cmd # Error <=> WellFormed(line)
        /\ cmd # Error => /\ Nested(cmd)
                          /\ Files(Written(cmd)) = Files(line)
                          /\ Rest(Written(cmd)) = Rest(line)

\* All lines of up to four tokens, of which two are words.
ShortLines == UNION {[1 .. n -> {"f", "cat", "<", "|", "&", ";"}] : n \in 0 .. 4}

\* Every short line is parsed as it is written (parsecmd to parseredirs).
ShortLinesParsed ==
    inputs = 0 => \A line \in ShortLines : ParsesRight(line)

-----------------------------------------------------------------------------
\* A group with words before and behind it; words as a line of commands.
Commas(words) == FoldLeft(LAMBDA line, w : line \o (IF line = <<>> THEN <<w>> ELSE <<",", w>>),
                          <<>>, words)
Around(before, group, after) ==
    (IF before = <<>> THEN <<>> ELSE Append(Commas(before), ","))
      \o <<"(">> \o group \o <<")">>
      \o (IF after = <<>> THEN <<>> ELSE <<",">> \o Commas(after))

\* The commands of groups within groups come out each once, those of an inner
\* group before those around it and from left to right in each, and without
\* parentheses, so that they are parsed: changesequence's "parenthesized
\* commands supersedes that order".
ParenthesesFirst ==
    inputs = 0 =>
      \A inner \in {<<"yes">>, <<"yes", "head">>}, b1 \in {<<>>, <<"cat">>}, a1 \in {<<>>, <<"echo">>},
         b2, a2 \in {<<>>, <<"f">>, <<"head", "f">>} :
        LET line == Around(b2, Around(b1, Commas(inner), a1), a2)
        IN  /\ validateparenthes(line)
            /\ SelectSeq(Linear(line), LAMBDA t : t \in Words) = inner \o b1 \o a1 \o b2 \o a2
            /\ parsecmd(Linear(line)) # Error
            /\ {"(", ")", ","} \cap ToSet(Linear(line)) = {}
=============================================================================

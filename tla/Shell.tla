-------------------------------- MODULE Shell --------------------------------
(***************************************************************************)
(* The shell as processes: its loop, the child that runs a line, and what  *)
(* runcmd forks for it (CS551P1's main.c).  Each fork, pipe, wait, read    *)
(* and write is a step, and any fork or pipe may fail.                     *)
(*                                                                         *)
(* The lines are without aliases.  What programs do is external: four      *)
(* kinds that read, write and end in the ways that matter to a pipe.       *)
(***************************************************************************)
EXTENDS ShellOrder

CONSTANTS
    Lines,          \* the lines that are typed
    NPROCS, NPIPES, \* how many processes and pipes there can be
    PIPE_SIZE,      \* what a pipe holds before its writer waits
    MaxInputs       \* bound: how often the user types a line or ctrl-c

ASSUME LinesAssumption ==
    Lines \subseteq Seq(Words \cup {"<", ">", "&", "|", ";", "(", ")", ","})

ASSUME ShellAssumption ==
    /\ \A line \in Lines : validateparenthes(line) => changesequence(convertalias(line)) # Fault
    /\ {NPROCS, NPIPES, PIPE_SIZE} \subseteq Nat \ {0}
    /\ MaxInputs \in Nat

Pids == 1 .. NPROCS
Root == 1
Pipes == 1 .. NPIPES

VARIABLES
    proc,       \* the processes
    buf,        \* how much is in a pipe
    inputs,     \* how many lines and ctrl-c were typed
    strays      \* history: how often a child may have become a second shell

vars == <<proc, buf, inputs, strays>>

Nothing == [type |-> "none"]
Typed(line) == [type |-> "line", line |-> line]

\* do: what the process is at.  p: the pipe it made last; own: the pipes of
\* which it has both ends open; in, out: the pipes that are file descriptors 0 and 1 (0: a file or the
\* terminal).  full: a program has read what it has not written.  The last
\* three are history: how many ";" and "|" lie before the program in its line,
\* and whether it runs in the background.
None == [do |-> "none", cmd |-> Nothing, then |-> "exit", waits |-> 0, parent |-> 0,
         p |-> 0, own |-> {}, in |-> 0, out |-> 0, full |-> FALSE,
         turn |-> 0, stage |-> 0, bg |-> FALSE]

Init ==
    /\ proc = [p \in Pids |-> IF p = Root THEN [None EXCEPT !.do = "prompt"] ELSE None]
    /\ buf = [k \in Pipes |-> 0]
    /\ inputs = 0 /\ strays = 0

-----------------------------------------------------------------------------
Live(p) == proc[p].do \notin {"none", "zombie"}

Readers(k) == {p \in Pids : Live(p) /\ (k \in proc[p].own \/ k = proc[p].in)}
Writers(k) == {p \in Pids : Live(p) /\ (k \in proc[p].own \/ k = proc[p].out)}

\* The processes when those in S have ended: their parents have not waited for
\* them, and init inherits and awaits their children.
Ended(S) == [q \in Pids |->
    LET orphan == proc[q].parent \in S \cup {0}
    IN  CASE q \in S /\ orphan -> None
          [] q \in S /\ ~orphan -> [None EXCEPT !.do = "zombie", !.parent = proc[q].parent]
          [] q \notin S /\ proc[q].parent \in S /\ ~Live(q) -> None
          [] q \notin S /\ proc[q].parent \in S /\ Live(q) -> [proc[q] EXCEPT !.parent = 0]
          [] OTHER -> proc[q]]

Exit(p) == proc' = Ended({p}) /\ UNCHANGED <<buf, inputs, strays>>

\* p goes on as mine, and unless fork fails there is a child, yours.
fork1(p, mine, yours) ==
    \/ proc' = [proc EXCEPT ![p] = mine]
    \/ /\ \E c \in Pids : proc[c].do = "none"
       /\ LET c == Min({x \in Pids : proc[x].do = "none"})
          IN  proc' = [proc EXCEPT ![p] = mine, ![c] = [yours EXCEPT !.parent = p]]

Awaiting(p, n, then) == [proc[p] EXCEPT !.do = "wait", !.waits = n, !.then = then]

-----------------------------------------------------------------------------
\* main reads a line, forks a child for it and waits for a child.  "exit", or
\* the end of the input, ends the process.
main(p) ==
    /\ proc[p].do = "prompt" /\ inputs < MaxInputs
    /\ inputs' = inputs + 1
    /\ UNCHANGED <<buf, strays>>
    /\ \/ proc' = Ended({p})
       \/ \E line \in Lines :
            fork1(p, Awaiting(p, 1, "prompt"),
                  [proc[p] EXCEPT !.do = "line", !.cmd = Typed(line)])

Unmatched == {line \in Lines : ~validateparenthes(line)}
Parsed == [line \in Lines \ Unmatched |-> parsecmd(Linear(line))]

\* The child: with unmatched parentheses it runs nothing and goes on in main,
\* behind the if, where it waits and reads lines like its parent.
child(p) ==
    /\ proc[p].do = "line"
    /\ UNCHANGED <<buf, inputs>>
    /\ \/ /\ proc[p].cmd.line \in Unmatched
          /\ proc' = [proc EXCEPT ![p].do = "wait", ![p].waits = 1,
                                  ![p].then = "prompt", ![p].cmd = Nothing]
          /\ strays' = strays + 1
       \/ /\ proc[p].cmd.line \notin Unmatched
          /\ LET cmd == Parsed[proc[p].cmd.line]
             IN  proc' = IF cmd = Error THEN Ended({p})
                         ELSE [proc EXCEPT ![p].do = "run", ![p].cmd = cmd]
          /\ UNCHANGED strays

\* wait returns for any child, and at once when there is none.
wait(p) ==
    /\ proc[p].do = "wait" /\ proc[p].waits > 0
    /\ UNCHANGED <<buf, inputs, strays>>
    /\ \/ \E c \in Pids : /\ proc[c].do = "zombie" /\ proc[c].parent = p
                          /\ proc' = [proc EXCEPT ![c] = None, ![p].waits = @ - 1]
       \/ /\ \A c \in Pids : proc[c].do # "none" => proc[c].parent # p
          /\ proc' = [proc EXCEPT ![p].waits = @ - 1]

waited(p) ==
    /\ proc[p].do = "wait" /\ proc[p].waits = 0
    /\ \/ proc[p].then = "exit" /\ Exit(p)
       \/ /\ proc[p].then # "exit"
          /\ proc' = [proc EXCEPT ![p].do = proc[p].then,
                                  ![p].turn = IF proc[p].then = "run" THEN @ + 1 ELSE @]
          /\ UNCHANGED <<buf, inputs, strays>>

-----------------------------------------------------------------------------
\* runcmd, a case each.
RunProgram(p) ==
    /\ proc[p].cmd.type = " "
    /\ \/ proc[p].cmd.argv = <<>> /\ Exit(p)
       \/ /\ proc[p].cmd.argv # <<>>
          /\ proc' = [proc EXCEPT ![p].do = "program"]
          /\ UNCHANGED <<buf, inputs, strays>>

RunRedirected(p) ==
    /\ proc[p].cmd.type \in Arrows
    /\ \/ Exit(p)
       \/ /\ proc' = [proc EXCEPT ![p].cmd = proc[p].cmd.cmd,
                                  ![p].in = IF proc[p].cmd.type = "<" THEN 0 ELSE @,
                                  ![p].out = IF proc[p].cmd.type = ">" THEN 0 ELSE @]
          /\ UNCHANGED <<buf, inputs, strays>>

\* Mutant: the right side does not wait for the left one.
ListAtOnce(p) ==
    /\ proc[p].cmd.type = ";"
    /\ fork1(p, [Awaiting(p, 0, "run") EXCEPT !.cmd = proc[p].cmd.right],
             [proc[p] EXCEPT !.cmd = proc[p].cmd.left])
    /\ UNCHANGED <<buf, inputs, strays>>

RunList(p) ==
    /\ proc[p].cmd.type = ";"
    /\ fork1(p, [Awaiting(p, 1, "run") EXCEPT !.cmd = proc[p].cmd.right],
             [proc[p] EXCEPT !.cmd = proc[p].cmd.left])
    /\ UNCHANGED <<buf, inputs, strays>>

RunBackground(p) ==
    /\ proc[p].cmd.type = "&"
    /\ fork1(p, [Awaiting(p, 0, "exit") EXCEPT !.cmd = Nothing],
             [proc[p] EXCEPT !.cmd = proc[p].cmd.cmd, !.bg = TRUE])
    /\ UNCHANGED <<buf, inputs, strays>>

FreePipes == {k \in Pipes : Readers(k) \cup Writers(k) = {}}

\* The pipe; then a child for each side; then both ends are closed.
RunPipe(p) ==
    /\ proc[p].cmd.type = "|"
    /\ \/ Exit(p)
       \/ /\ FreePipes # {}
          /\ LET k == Min(FreePipes)
             IN  /\ proc' = [proc EXCEPT ![p].p = k, ![p].own = @ \cup {k}, ![p].do = "fork left"]
                 /\ buf' = [buf EXCEPT ![k] = 0]
          /\ UNCHANGED <<inputs, strays>>

runcmd(p) ==
    /\ proc[p].do = "run"
    /\ RunProgram(p) \/ RunRedirected(p) \/ RunList(p) \/ RunBackground(p) \/ RunPipe(p)

\* Mutant: the parent waits with the pipe open.
PipeLeftOpen(p) ==
    /\ \/ /\ proc[p].do = "fork left"
          /\ fork1(p, [proc[p] EXCEPT !.do = "fork right"], [proc[p] EXCEPT !.do = "left"])
       \/ /\ proc[p].do = "fork right"
          /\ fork1(p, [Awaiting(p, 2, "exit") EXCEPT !.cmd = Nothing],
                   [proc[p] EXCEPT !.do = "right"])
    /\ UNCHANGED <<buf, inputs, strays>>

\* Mutant: one wait for the two children.
PipeWaitsOnce(p) ==
    /\ \/ /\ proc[p].do = "fork left"
          /\ fork1(p, [proc[p] EXCEPT !.do = "fork right"], [proc[p] EXCEPT !.do = "left"])
       \/ /\ proc[p].do = "fork right"
          /\ fork1(p, [Awaiting(p, 1, "exit") EXCEPT !.cmd = Nothing, !.own = @ \ {proc[p].p}],
                   [proc[p] EXCEPT !.do = "right"])
    /\ UNCHANGED <<buf, inputs, strays>>

PipeForks(p) ==
    /\ \/ /\ proc[p].do = "fork left"
          /\ fork1(p, [proc[p] EXCEPT !.do = "fork right"], [proc[p] EXCEPT !.do = "left"])
       \/ /\ proc[p].do = "fork right"
          /\ fork1(p, [Awaiting(p, 2, "exit") EXCEPT !.cmd = Nothing, !.own = @ \ {proc[p].p}],
                   [proc[p] EXCEPT !.do = "right"])
    /\ UNCHANGED <<buf, inputs, strays>>

\* Mutant: the right child takes both ends.
PipeBothEnds(p) ==
    /\ proc[p].do \in {"left", "right"}
    /\ proc' = [proc EXCEPT ![p] =
          [@ EXCEPT !.do = "run", !.cmd = IF proc[p].do = "left" THEN @.left ELSE @.right,
                    !.in = IF proc[p].do = "left" THEN @ ELSE proc[p].p,
                    !.out = proc[p].p, !.own = @ \ {proc[p].p},
                    !.stage = IF proc[p].do = "left" THEN @ ELSE @ + 1]]
    /\ UNCHANGED <<buf, inputs, strays>>

\* A child takes its end of the pipe as descriptor 1 or 0 and closes p.
PipeChild(p) ==
    LET me == proc[p]
        own == me.own \ {me.p}
    IN  /\ me.do \in {"left", "right"}
        /\ proc' = [proc EXCEPT ![p] =
              IF me.do = "left"
              THEN [me EXCEPT !.do = "run", !.cmd = me.cmd.left, !.out = me.p, !.own = own]
              ELSE [me EXCEPT !.do = "run", !.cmd = me.cmd.right, !.in = me.p, !.own = own,
                              !.stage = me.stage + 1]]
        /\ UNCHANGED <<buf, inputs, strays>>

-----------------------------------------------------------------------------
\* Programs.  "yes" writes until it is stopped, "echo" once; "cat" writes what
\* it reads, to the end of its input; "head" reads once.  There is no other, so
\* execvp fails and the child exits.
Name(p) == IF proc[p].do = "program" THEN proc[p].cmd.argv[1] ELSE "none"

\* A read from a pipe waits for a writer; what else is read may end or not.
Read(p) ==
    /\ Name(p) \in {"cat", "head"} /\ ~proc[p].full
    /\ LET k == proc[p].in
           got == IF Name(p) = "head" THEN Ended({p}) ELSE [proc EXCEPT ![p].full = TRUE]
       IN  \/ k = 0 /\ proc' \in {got, Ended({p})} /\ UNCHANGED buf
           \/ /\ k # 0 /\ buf[k] > 0
              /\ proc' = got /\ buf' = [buf EXCEPT ![k] = @ - 1]
           \/ /\ k # 0 /\ buf[k] = 0 /\ Writers(k) = {}
              /\ proc' = Ended({p}) /\ UNCHANGED buf
    /\ UNCHANGED <<inputs, strays>>

\* A write to a pipe waits for room, and kills the writer when nobody reads.
Write(p) ==
    /\ Name(p) \in {"yes", "echo"} \/ (Name(p) = "cat" /\ proc[p].full)
    /\ LET k == proc[p].out
           put == IF Name(p) = "echo" THEN Ended({p}) ELSE [proc EXCEPT ![p].full = FALSE]
       IN  \/ k = 0 /\ proc' = put /\ UNCHANGED buf
           \/ k # 0 /\ Readers(k) = {} /\ proc' = Ended({p}) /\ UNCHANGED buf
           \/ /\ k # 0 /\ Readers(k) # {} /\ buf[k] < PIPE_SIZE
              /\ proc' = put /\ buf' = [buf EXCEPT ![k] = @ + 1]
    /\ UNCHANGED <<inputs, strays>>

\* Mutant: when execvp fails the child goes back to main.
NoProgramReturns(p) ==
    /\ Name(p) \notin {"none", "yes", "echo", "cat", "head"}
    /\ proc' = [proc EXCEPT ![p].do = "prompt", ![p].cmd = Nothing]
    /\ UNCHANGED <<buf, inputs, strays>>

NoProgram(p) == Name(p) \notin {"none", "yes", "echo", "cat", "head"} /\ Exit(p)

-----------------------------------------------------------------------------
\* ctrl-c kills every program; every other process asks, in ctrl_c.
Interrupt ==
    /\ inputs < MaxInputs /\ inputs' = inputs + 1
    /\ LET left == Ended({p \in Pids : Name(p) # "none"})
       IN  proc' = [q \in Pids |->
             IF left[q].do \in {"none", "zombie"} THEN left[q]
             ELSE [left[q] EXCEPT !.do = "asked", !.cmd = Nothing, !.waits = 0]]
    /\ UNCHANGED <<buf, strays>>

\* With "y" the process ends; else it goes, by longjmp, to the loop in main,
\* the children of the shell too.
ctrl_c(p) ==
    /\ proc[p].do = "asked"
    /\ \/ Exit(p)
       \/ /\ proc' = [proc EXCEPT ![p].do = "prompt"]
          /\ strays' = strays + 1
          /\ UNCHANGED <<buf, inputs>>

Step(p) ==
    child(p) \/ wait(p) \/ waited(p) \/ runcmd(p) \/ PipeForks(p) \/ PipeChild(p)
      \/ Read(p) \/ Write(p) \/ NoProgram(p)

Next == Interrupt \/ \E p \in Pids : main(p) \/ ctrl_c(p) \/ Step(p)

Spec == Init /\ [][Next]_vars

\* Every process gets to run; the user need not type.
Fairness == \A p \in Pids : WF_vars(Step(p))

FairSpec == Spec /\ Fairness

-----------------------------------------------------------------------------
Foreground == {p \in Pids : Live(p) /\ ~proc[p].bg /\ p # Root}

\* When the shell prompts, nothing of the lines before still runs but what was
\* sent to the background, and no pipe is left: the waits of all processes
\* together await every child, a fork that fails notwithstanding.  Only a ctrl-c
\* that is answered with no, or parentheses that do not match, break that.
PromptWhenDone ==
    proc[Root].do = "prompt" /\ strays = 0 => Foreground = {}

\* Programs before a ";" have ended when those behind it run.
InTurn == \A p, q \in Foreground :
    strays = 0 /\ {Name(p), Name(q)} \cap {"none"} = {} => proc[p].turn = proc[q].turn

\* A pipe joins a program with the next one of the same line, and no others: not
\* those of another pipe of the line or of a line in the background.  A child of
\* a pipe that answers ctrl-c with no reads lines with the pipe still in place.
Wired == \A p, q \in Pids : \A k \in Pipes :
    strays = 0 /\ {Name(p), Name(q)} \cap {"none"} = {}
      /\ proc[p].out = k /\ proc[q].in = k =>
        /\ proc[q].stage = proc[p].stage + 1
        /\ proc[q].turn = proc[p].turn /\ proc[q].bg = proc[p].bg

\* The processes that read lines, or will when what they wait for has ended.
Shells == {p \in Pids : proc[p].do = "prompt"
                          \/ (proc[p].do = "wait" /\ proc[p].then = "prompt")}

\* Only the shell reads lines, but for a child each that was given unmatched
\* parentheses or a no: no error of exec, open, pipe or fork leads a child back
\* into the loop.
OneReader == Cardinality(Shells) <= 1 + strays

\* A line of which the last programs end by themselves comes to its end, so that
\* the shell prompts again: every end of a pipe is closed by all but the program
\* that uses it, and readers see its end, writers are stopped.
LineEnds == (proc[Root].do = "wait" /\ strays = 0) ~> (proc[Root].do # "wait" \/ strays > 0)

-----------------------------------------------------------------------------
\* The inductive invariant of PromptWhenDone and OneReader.
Doings == {"none", "prompt", "line", "wait", "run", "program", "fork left", "fork right",
           "left", "right", "asked", "zombie"}

Kept(r) == [do |-> r.do, cmd |-> r.cmd, then |-> r.then, waits |-> r.waits,
            parent |-> r.parent, p |-> r.p, own |-> r.own, in |-> r.in, out |-> r.out,
            full |-> r.full, turn |-> r.turn, stage |-> r.stage, bg |-> r.bg]

Process(r) ==
    /\ r = Kept(r)
    /\ r.do \in Doings /\ r.then \in {"exit", "run", "prompt"} /\ r.waits \in {0, 1, 2}
    /\ r.parent \in Pids \cup {0} /\ r.bg \in BOOLEAN

\* The children of p that it has not waited for.
Kids(p) == {c \in Pids : proc[c].do # "none" /\ proc[c].parent = p}

ShellTypeOK ==
    /\ proc = [p \in Pids |-> proc[p]] /\ \A p \in Pids : Process(proc[p])
    /\ strays \in Nat
    /\ \A p \in Pids : ~Live(p) => Kids(p) = {}

\* p waits at least once for each child, but for what it left in the background.
Minded(p) ==
    /\ proc[p].do \in {"prompt", "line", "run", "program", "fork left", "left", "right"} =>
         Kids(p) = {}
    /\ proc[p].do = "fork right" => Cardinality(Kids(p)) <= 1
    /\ proc[p].do = "wait" =>
         \/ Cardinality(Kids(p)) <= proc[p].waits
         \/ /\ proc[p].waits = 0 /\ proc[p].then = "exit"
            /\ \A c \in Kids(p) : Live(c) => proc[c].bg

\* Every line that runs in the foreground is awaited by the shell: each process
\* of it is minded by its parent, and none of them are their own ancestors.
Attended ==
    /\ Shells = {Root} /\ ~proc[Root].bg
    /\ \A p \in Pids : proc[p].do # "asked" /\ (Live(p) /\ ~proc[p].bg => Minded(p))
    /\ \A p \in Foreground :
         /\ proc[p].parent \in Pids
         /\ proc[p].parent \in Foreground \cup {Root}
    /\ \A S \in SUBSET Foreground : S # {} => \E p \in S : proc[p].parent \notin S

\* The shell has ended, and only lines in the background go on.
LeftBehind ==
    /\ Shells = {}
    /\ \A p \in Pids : proc[p].do # "asked" /\ (Live(p) => proc[p].bg)

\* Every process asks whether to end, since a ctrl-c.
AllAsked == \A p \in Pids : Live(p) => proc[p].do = "asked"

ShellInv ==
    /\ ShellTypeOK /\ OneReader
    /\ strays = 0 => Attended \/ LeftBehind \/ AllAsked
=============================================================================

------------------------------- MODULE PMLoop -------------------------------
(***************************************************************************)
(* The main loop of the process manager (project2/main.c): calls, answers  *)
(* of VFS and signals come in one by one, each is handled to its end, and  *)
(* then the replies that are due are sent.                                 *)
(*                                                                         *)
(* What main.c calls is modelled from its use there: the handlers of       *)
(* call_vec (some answer at once, some after VFS has answered, fork makes  *)
(* a process), exit_proc and exit_restart (an exiting process is gone when *)
(* VFS has answered; its children become INIT's, as mp_parent must always  *)
(* name a slot in use), exec_restart, and restart_sigs (a signal waits for *)
(* as long as VFS works for the process).  Waiting for children, tracing   *)
(* and the shutdown (PM_REBOOT_REPLY) are left out.                        *)
(***************************************************************************)
EXTENDS Naturals, FiniteSets

CONSTANTS
    Procs,      \* slots of mproc
    INIT_PROC_NR,       \* INIT_PROC_NR
    NONE

(* One variable, the record of what PM, the processes and VFS know:          *)
(*   flags[p]   mp_flags of the slot                                         *)
(*   parent[p]  mp_parent                                                    *)
(*   res[p]     mp_reply.reply_res: the call it is an answer to              *)
(*   signal[p]  a signal that waits: NONE, "lethal" or "caught"              *)
(*   call[p]    the call the process is blocked in, NONE while it runs       *)
(*   taken      processes whose call PM has received                         *)
(*   vfs        requests VFS has not answered                                *)
(*   misled     processes just answered though they are exiting, or blocked   *)
(*              in another call or in none                                   *)
(*   panic      handle_vfs_reply panicked                                    *)
VARIABLE pm

vars == <<pm>>

Flags == {"IN_USE", "EXITING", "REPLY", "VFS_CALL", "UNPAUSED"}

\* Calls that are answered at once, as the group calls are; after VFS has been
\* asked (setuid, setgid, setgroups, setsid); and the others.
Calls == {"now", "set", "exec", "fork", "srv_fork", "exit", "kill"}

\* What is asked of VFS.
Requests == {"set", "exec", "exit", "fork", "srv_fork", "unpause"}

ASSUME ProcsAssumption ==
    /\ INIT_PROC_NR \in Procs
    /\ NONE \notin Procs \cup Calls \cup {"child", "lethal", "caught"}

Init ==
    pm = [flags |-> [p \in Procs |-> IF p = INIT_PROC_NR THEN {"IN_USE"} ELSE {}],
          parent |-> [p \in Procs |-> INIT_PROC_NR],
          res |-> [p \in Procs |-> NONE],
          signal |-> [p \in Procs |-> NONE],
          call |-> [p \in Procs |-> NONE],
          taken |-> {}, vfs |-> {}, misled |-> {}, panic |-> FALSE]

Is(m, p, f) == f \in m.flags[p]
Lives(m, p) == Is(m, p, "IN_USE") /\ ~Is(m, p, "EXITING")
Set(m, p, f) == [m EXCEPT !.flags[p] = @ \cup f]
Clear(m, p, f) == [m EXCEPT !.flags[p] = @ \ f]

-----------------------------------------------------------------------------
(* Replies.                                                                 *)

setreply(m, p, answer) == [Set(m, p, {"REPLY"}) EXCEPT !.res[p] = answer]

\* Mutant: an exiting process is answered, too.
DueToAll(m, p) == {"REPLY", "IN_USE"} \subseteq m.flags[p]

\* Who gets a reply now.
Due(m, p) == m.flags[p] \cap {"REPLY", "IN_USE", "EXITING"} = {"REPLY", "IN_USE"}

\* sendreply: every reply that is due.  One to a process that does not wait for
\* the answer to a call PM has received fails and is lost.
sendreply(m) ==
    [m EXCEPT
        !.flags = [p \in Procs |-> IF Due(m, p) THEN @[p] \ {"REPLY"} ELSE @[p]],
        !.res = [p \in Procs |-> IF Due(m, p) THEN NONE ELSE @[p]],
        !.call = [p \in Procs |-> IF Due(m, p) /\ p \in m.taken THEN NONE ELSE @[p]],
        !.taken = {p \in @ : ~Due(m, p)},
        !.misled = {p \in Procs : Due(m, p) /\ \/ m.call[p] # m.res[p]
                                               \/ p \notin m.taken
                                               \/ Is(m, p, "EXITING")}]

-----------------------------------------------------------------------------
(* Outside main.c.                                                          *)

tell_vfs(m, p, req) == [Set(m, p, {"VFS_CALL"}) EXCEPT !.vfs = @ \cup {<<p, req>>}]

exit_proc(m, p) ==
    [tell_vfs(Set(m, p, {"EXITING"}), p, "exit") EXCEPT
        !.signal[p] = NONE,
        !.parent = [c \in Procs |-> IF @[c] = p THEN INIT_PROC_NR ELSE @[c]]]

\* The slot is free; what the process had sent is gone with it.
exit_restart(m, p) ==
    [m EXCEPT !.flags[p] = {}, !.call[p] = NONE, !.res[p] = NONE,
              !.taken = @ \ {p}]

\* A signal waits while VFS works for the process, kills it, or is caught: then
\* VFS, where the process may be blocked, lets go of it first.
restart_sigs(m, p) ==
    IF Is(m, p, "VFS_CALL") \/ m.signal[p] = NONE THEN m
    ELSE IF m.signal[p] = "lethal" THEN exit_proc(Clear(m, p, {"UNPAUSED"}), p)
    ELSE IF Is(m, p, "UNPAUSED")
         THEN [Clear(m, p, {"UNPAUSED"}) EXCEPT !.signal[p] = NONE]
    ELSE tell_vfs(m, p, "unpause")

Signalled(m, p, sort) ==
    IF ~Lives(m, p) \/ p = INIT_PROC_NR \/ m.signal[p] = "lethal" THEN m
    ELSE restart_sigs([m EXCEPT !.signal[p] = sort], p)

\* Signals that reach p now.  One that is caught has to stop p first, which the
\* kernel puts off while PM has not received the call p has sent.
SortsFor(m, p) == {"lethal"} \cup {s \in {"caught"} : m.call[p] = NONE \/ p \in m.taken}

\* A process of its own slot, blocked until it is told that it is the child.
NewChild(m, p, c) ==
    [Set(m, c, {"IN_USE"}) EXCEPT !.parent[c] = p, !.call[c] = "child",
                                  !.taken = @ \cup {c}, !.signal[c] = NONE]

-----------------------------------------------------------------------------
(* main: a call.                                                            *)

FreeSlots == {c \in Procs : ~Is(pm, c, "IN_USE")}

\* What the handler in call_vec leaves of m; SUSPEND is that it sets no reply.
Handled(m, p) ==
    CASE m.call[p] = "now" -> {setreply(m, p, "now")}
      [] m.call[p] \in {"set", "exec"} -> {tell_vfs(m, p, m.call[p])}
      [] m.call[p] = "exit" -> {exit_proc(m, p)}
      [] m.call[p] = "kill" ->
            UNION {{setreply(Signalled(m, q, sort), p, "kill") : sort \in SortsFor(m, q)} :
                      q \in Procs}
      [] m.call[p] \in {"fork", "srv_fork"} /\ FreeSlots = {} -> {setreply(m, p, m.call[p])}
      [] m.call[p] = "fork" /\ FreeSlots # {} ->
            {tell_vfs(NewChild(m, p, c), c, "fork") : c \in FreeSlots}
      [] m.call[p] = "srv_fork" /\ FreeSlots # {} ->
            {setreply(setreply(tell_vfs(NewChild(m, p, c), c, "srv_fork"), c, "child"),
                      p, "srv_fork") : c \in FreeSlots}

\* A process makes a call, unless VFS works for it.
SendCall(p) ==
    /\ Lives(pm, p) /\ ~Is(pm, p, "VFS_CALL") /\ pm.call[p] = NONE
    /\ \E c \in Calls :
          /\ p = INIT_PROC_NR => c # "exit"
          /\ pm' = [pm EXCEPT !.call[p] = c, !.misled = {}]

\* One round of the loop for a call; that of an exiting process is dropped.
HandleCall(p) ==
    LET received == [pm EXCEPT !.taken = @ \cup {p}]
    IN  /\ ~pm.panic
        /\ pm.call[p] # NONE /\ p \notin pm.taken
        /\ IF Is(pm, p, "EXITING")
           THEN pm' = [received EXCEPT !.misled = {}]
           ELSE \E m \in Handled(received, p) : pm' = sendreply(m)

-----------------------------------------------------------------------------
(* main: an answer of VFS.                                                  *)

\* Mutant: INIT is told in place of the parent.
ToldToInit(m, p) == setreply(exit_proc(m, p), INIT_PROC_NR, "fork")

\* The child could not be scheduled: it is torn down and the fork fails.
FailedFork(m, p) == setreply(exit_proc(m, p), m.parent[p], "fork")

\* The part of handle_vfs_reply for each request; ok is VFS's status or, for a
\* fork, whether the child could be scheduled.
Answered(m, p, req, ok) ==
    CASE req = "set" -> setreply(m, p, "set")
      [] req = "exec" /\ ~ok -> setreply(m, p, "exec")
      [] req = "exec" /\ ok -> [m EXCEPT !.call[p] = NONE, !.taken = @ \ {p}]
      [] req = "exit" -> exit_restart(m, p)
      [] req = "fork" /\ ok -> setreply(setreply(m, p, "child"), m.parent[p], "fork")
      [] req = "fork" /\ ~ok -> FailedFork(m, p)
      [] req = "srv_fork" -> m
      [] req = "unpause" -> Set(m, p, {"UNPAUSED"})

\* Mutant: the process is marked idle at the end.
IdleAtLast(m, p, req, ok) == Clear(Answered(m, p, req, ok), p, {"VFS_CALL"})

\* Mutant: signals that came in the meantime are not looked at.
SignalsForgotten(m, p, req, ok) == Answered(Clear(m, p, {"VFS_CALL"}), p, req, ok)

\* The process is idle again, then its request is dealt with, then its signals.
handle_vfs_reply(m, p, req, ok) ==
    LET n == Answered(Clear(m, p, {"VFS_CALL"}), p, req, ok)
    IN  IF Lives(n, p) THEN restart_sigs(n, p) ELSE n

HandleVfsReply(p) ==
    /\ ~pm.panic
    /\ \E req \in Requests, ok \in BOOLEAN :
          /\ <<p, req>> \in pm.vfs
          /\ IF ~Is(pm, p, "VFS_CALL") \/ Is(pm, p, "UNPAUSED")
             THEN pm' = [pm EXCEPT !.panic = TRUE]
             ELSE LET rest == [pm EXCEPT !.vfs = @ \ {<<p, req>>}]
                  IN  \E m \in {handle_vfs_reply(rest, p, req, ok)} : pm' = sendreply(m)

-----------------------------------------------------------------------------
\* sef_cb_signal_manager, and the notification of a timer that ran out: also
\* while p waits for an answer and while VFS works for it.
Signal(p) ==
    /\ ~pm.panic
    /\ \E sort \in SortsFor(pm, p) :
          \E m \in {Signalled(pm, p, sort)} : m # pm /\ pm' = sendreply(m)

Next ==
    \E p \in Procs : SendCall(p) \/ HandleCall(p) \/ HandleVfsReply(p) \/ Signal(p)

Spec == Init /\ [][Next]_vars

\* PM takes every message, and VFS answers every request, in time.  Processes
\* need not call and signals need not come.
Fairness == \A p \in Procs : WF_vars(HandleCall(p)) /\ WF_vars(HandleVfsReply(p))

FairSpec == Spec /\ Fairness

-----------------------------------------------------------------------------
\* The panics of handle_vfs_reply are not reached: VFS works on one request for
\* a process at a time, and a signal is done with before the next.
NoPanic == ~pm.panic

\* A reply goes to a process that is blocked in the very call it answers, never
\* to one that has been killed, and each call is answered once: all but those
\* that reach INIT, which is told of the fork of a parent killed in the meantime.
RightAnswers == pm.misled \subseteq {INIT_PROC_NR}

\* A process that made a call is answered, starts a new program or is gone.
CallsAnswered == \A p \in Procs : pm.call[p] # NONE ~> pm.call[p] = NONE

\* A signal that had to wait for VFS is not forgotten.
SignalsArrive == \A p \in Procs : pm.signal[p] # NONE ~> pm.signal[p] = NONE
=============================================================================

----------------------------- MODULE PMLoopProofs -----------------------------
(***************************************************************************)
(* Proof that handle_vfs_reply never panics and that no process but INIT   *)
(* gets a reply it does not wait for, for any number of slots.             *)
(*                                                                         *)
(* The inductive invariant says what is known of a process while VFS works *)
(* for it, and which replies are due before they are sent.                 *)
(***************************************************************************)
EXTENDS PMLoop, TLAPS

Sorts == {NONE, "lethal", "caught"}
Blocks == Calls \cup {"child", NONE}

PMState == [flags : [Procs -> SUBSET Flags], parent : [Procs -> Procs],
            res : [Procs -> Blocks], signal : [Procs -> Sorts], call : [Procs -> Blocks],
            taken : SUBSET Procs, vfs : SUBSET (Procs \X Requests),
            misled : SUBSET Procs, panic : BOOLEAN]

\* A slot by itself.
Slot(m, p) ==
    /\ ~Is(m, p, "IN_USE") => /\ ~Is(m, p, "EXITING") /\ ~Is(m, p, "VFS_CALL")
                              /\ ~Is(m, p, "REPLY") /\ m.call[p] = NONE /\ m.signal[p] = NONE
    /\ m.call[p] = "child" => p \in m.taken
    /\ Is(m, p, "VFS_CALL") /\ ~Is(m, p, "EXITING") /\ m.call[p] # NONE => p \in m.taken
    /\ m.signal[p] = "caught" => m.call[p] = NONE \/ p \in m.taken
    /\ m.signal[p] # NONE => ~Is(m, p, "EXITING")

\* The parent waits for the fork of c, for no other, or has been killed.
ForkAwaited(m, c) ==
    \/ m.parent[c] = INIT_PROC_NR
    \/ /\ m.call[m.parent[c]] = "fork" /\ m.parent[c] \in m.taken
       /\ ~Is(m, m.parent[c], "EXITING") /\ ~Due(m, m.parent[c])
       /\ \A d \in Procs : <<d, "fork">> \in m.vfs /\ m.parent[d] = m.parent[c] => d = c

\* What is known while VFS works on request r for p.
Served(m, p, r) ==
    /\ Is(m, p, "VFS_CALL")
    /\ r = "exit" <=> Is(m, p, "EXITING")
    /\ \A s \in Requests : <<p, s>> \in m.vfs => s = r
    /\ r = "unpause" => m.signal[p] # NONE
    /\ r \in {"set", "exec"} /\ p # INIT_PROC_NR => m.call[p] = r /\ ~Due(m, p)
    /\ r = "fork" => /\ p # INIT_PROC_NR /\ m.call[p] = "child" /\ ~Due(m, p)
                     /\ ForkAwaited(m, p)

Base(m) ==
    /\ m \in PMState /\ m.panic = FALSE
    /\ Is(m, INIT_PROC_NR, "IN_USE") /\ ~Is(m, INIT_PROC_NR, "EXITING")
    /\ m.signal[INIT_PROC_NR] = NONE /\ m.call[INIT_PROC_NR] # "exit"
    /\ \A p \in Procs : Slot(m, p)
    /\ \A p \in Procs : \A r \in Requests : <<p, r>> \in m.vfs => Served(m, p, r)

\* No signal of p is left that could be dealt with now.
Quiet(m, p) == ~Is(m, p, "UNPAUSED") /\ (m.signal[p] # NONE => Is(m, p, "VFS_CALL"))

Good(m) == Base(m) /\ \A p \in Procs : Quiet(m, p)

\* The signals of p are to be looked at.
Between(m, p) ==
    /\ Base(m) /\ \A q \in Procs \ {p} : Quiet(m, q)
    /\ Is(m, p, "UNPAUSED") => m.signal[p] # NONE /\ ~Is(m, p, "VFS_CALL")

Awaited(m) == \A p \in Procs \ {INIT_PROC_NR} : Due(m, p) =>
    m.call[p] = m.res[p] /\ p \in m.taken

PMInv == Good(pm) /\ (\A p \in Procs : ~Due(pm, p)) /\ RightAnswers
-----------------------------------------------------------------------------
\* What each part of a step changes.
LEMMA DueMeans ==
  ASSUME NEW m \in PMState, NEW p \in Procs
  PROVE  Due(m, p) <=> Is(m, p, "REPLY") /\ Is(m, p, "IN_USE") /\ ~Is(m, p, "EXITING")
BY DEF Due, Is

\* Of m's fields all but res, flags, vfs, signal and parent are n's.
SameCalls(m, n) ==
    /\ n \in PMState /\ n.call = m.call /\ n.taken = m.taken /\ n.misled = m.misled
    /\ n.panic = m.panic

Replied(m, n, p, a) ==
    /\ SameCalls(m, n) /\ n.parent = m.parent /\ n.signal = m.signal /\ n.vfs = m.vfs
    /\ \A q \in Procs : n.res[q] = IF q = p THEN a ELSE m.res[q]
    /\ \A q \in Procs : \A f \in Flags : Is(n, q, f) <=> Is(m, q, f) \/ (q = p /\ f = "REPLY")

Told(m, n, p, r) ==
    /\ SameCalls(m, n) /\ n.parent = m.parent /\ n.signal = m.signal /\ n.res = m.res
    /\ \A q \in Procs : \A s \in Requests :
          <<q, s>> \in n.vfs <=> <<q, s>> \in m.vfs \/ (q = p /\ s = r)
    /\ \A q \in Procs : \A f \in Flags : Is(n, q, f) <=> Is(m, q, f) \/ (q = p /\ f = "VFS_CALL")

Marked(m, n, p, f) ==
    /\ SameCalls(m, n) /\ n.parent = m.parent /\ n.signal = m.signal /\ n.res = m.res
    /\ n.vfs = m.vfs
    /\ \A q \in Procs : \A e \in Flags : Is(n, q, e) <=> Is(m, q, e) \/ (q = p /\ e = f)

Unmarked(m, n, p, f) ==
    /\ SameCalls(m, n) /\ n.parent = m.parent /\ n.signal = m.signal /\ n.res = m.res
    /\ n.vfs = m.vfs
    /\ \A q \in Procs : \A e \in Flags : Is(n, q, e) <=> Is(m, q, e) /\ ~(q = p /\ e = f)

Exited(m, n, p) ==
    /\ SameCalls(m, n) /\ n.res = m.res
    /\ \A q \in Procs : n.signal[q] = IF q = p THEN NONE ELSE m.signal[q]
    /\ \A q \in Procs : n.parent[q] = IF m.parent[q] = p THEN INIT_PROC_NR ELSE m.parent[q]
    /\ \A q \in Procs : \A s \in Requests :
          <<q, s>> \in n.vfs <=> <<q, s>> \in m.vfs \/ (q = p /\ s = "exit")
    /\ \A q \in Procs : \A f \in Flags :
          Is(n, q, f) <=> Is(m, q, f) \/ (q = p /\ f \in {"VFS_CALL", "EXITING"})

LEMMA SetreplyFacts ==
  ASSUME NEW m \in PMState, NEW p \in Procs, NEW a \in Blocks
  PROVE  Replied(m, setreply(m, p, a), p, a)
<1>1. PICK n : n = setreply(m, p, a)
  OBVIOUS
<1>2. /\ n.parent = m.parent /\ n.signal = m.signal /\ n.vfs = m.vfs /\ n.call = m.call
      /\ n.taken = m.taken /\ n.misled = m.misled /\ n.panic = m.panic
      /\ n.flags = [m.flags EXCEPT ![p] = m.flags[p] \cup {"REPLY"}]
      /\ n.res = [m.res EXCEPT ![p] = a] /\ n \in PMState
  BY <1>1 DEF setreply, Set, PMState, Flags
<1>3. Replied(m, n, p, a)
  BY <1>2 DEF Replied, SameCalls, Is, PMState
<1> QED  BY <1>1, <1>3

LEMMA SetFacts ==
  ASSUME NEW m \in PMState, NEW p \in Procs, NEW f \in Flags
  PROVE  Marked(m, Set(m, p, {f}), p, f)
<1>1. PICK n : n = Set(m, p, {f})
  OBVIOUS
<1>2. /\ n.parent = m.parent /\ n.signal = m.signal /\ n.vfs = m.vfs /\ n.call = m.call
      /\ n.taken = m.taken /\ n.misled = m.misled /\ n.panic = m.panic /\ n.res = m.res
      /\ n.flags = [m.flags EXCEPT ![p] = m.flags[p] \cup {f}] /\ n \in PMState
  BY <1>1 DEF Set, PMState
<1>3. Marked(m, n, p, f)
  BY <1>2 DEF Marked, SameCalls, Is, PMState
<1> QED  BY <1>1, <1>3

LEMMA ClearFacts ==
  ASSUME NEW m \in PMState, NEW p \in Procs, NEW f \in Flags
  PROVE  Unmarked(m, Clear(m, p, {f}), p, f)
<1>1. PICK n : n = Clear(m, p, {f})
  OBVIOUS
<1>2. /\ n.parent = m.parent /\ n.signal = m.signal /\ n.vfs = m.vfs /\ n.call = m.call
      /\ n.taken = m.taken /\ n.misled = m.misled /\ n.panic = m.panic /\ n.res = m.res
      /\ n.flags = [m.flags EXCEPT ![p] = m.flags[p] \ {f}] /\ n \in PMState
  BY <1>1 DEF Clear, PMState
<1>3. Unmarked(m, n, p, f)
  BY <1>2 DEF Unmarked, SameCalls, Is, PMState
<1> QED  BY <1>1, <1>3

LEMMA TellFacts ==
  ASSUME NEW m \in PMState, NEW p \in Procs, NEW r \in Requests
  PROVE  Told(m, tell_vfs(m, p, r), p, r)
<1>1. PICK e : e = Set(m, p, {"VFS_CALL"})
  OBVIOUS
<1>2. PICK n : n = tell_vfs(m, p, r)
  OBVIOUS
<1>3. Marked(m, e, p, "VFS_CALL")
  BY <1>1, SetFacts DEF Flags
<1>4. e \in PMState
  BY <1>3 DEF Marked, SameCalls
<1>5. n = [e EXCEPT !.vfs = @ \cup {<<p, r>>}]
  BY <1>1, <1>2 DEF tell_vfs
<1>6. /\ n.parent = e.parent /\ n.signal = e.signal /\ n.call = e.call
      /\ n.taken = e.taken /\ n.misled = e.misled /\ n.panic = e.panic /\ n.res = e.res
      /\ n.flags = e.flags /\ n.vfs = e.vfs \cup {<<p, r>>} /\ n \in PMState
  BY <1>4, <1>5 DEF PMState
<1>7. \A q \in Procs : \A s \in Requests :
         <<q, s>> \in n.vfs <=> <<q, s>> \in e.vfs \/ (q = p /\ s = r)
  BY <1>6
<1>8. \A q \in Procs : \A f \in Flags : Is(n, q, f) <=> Is(e, q, f)
  BY <1>6 DEF Is
<1>9. Told(m, n, p, r)
  BY <1>3, <1>6, <1>7, <1>8 DEF Told, Marked, SameCalls
<1> QED  BY <1>2, <1>9

LEMMA ExitFacts ==
  ASSUME NEW m \in PMState, NEW p \in Procs
  PROVE  Exited(m, exit_proc(m, p), p)
<1>1. PICK e : e = Set(m, p, {"EXITING"})
  OBVIOUS
<1>2. PICK l : l = tell_vfs(e, p, "exit")
  OBVIOUS
<1>3. PICK n : n = exit_proc(m, p)
  OBVIOUS
<1>4. Marked(m, e, p, "EXITING")
  BY <1>1, SetFacts DEF Flags
<1>5. Told(e, l, p, "exit")
  <2>1. e \in PMState
    BY <1>4 DEF Marked, SameCalls
  <2> QED  BY <1>2, <2>1, TellFacts DEF Requests
<1>6. n = [l EXCEPT !.signal[p] = NONE,
                    !.parent = [c \in Procs |-> IF @[c] = p THEN INIT_PROC_NR ELSE @[c]]]
  BY <1>1, <1>2, <1>3 DEF exit_proc
<1>7. l \in PMState
  BY <1>5 DEF Told, SameCalls
<1>8. /\ n.call = l.call /\ n.taken = l.taken /\ n.misled = l.misled /\ n.panic = l.panic
      /\ n.res = l.res /\ n.vfs = l.vfs /\ n.flags = l.flags
      /\ n.signal = [l.signal EXCEPT ![p] = NONE]
      /\ n.parent = [c \in Procs |-> IF l.parent[c] = p THEN INIT_PROC_NR ELSE l.parent[c]]
      /\ n \in PMState
  BY <1>6, <1>7, ProcsAssumption DEF PMState, Sorts
<1>9. /\ l.signal = m.signal /\ l.parent = m.parent /\ m.signal \in [Procs -> Sorts]
  BY <1>4, <1>5 DEF Marked, Told, PMState
<1>10. /\ \A q \in Procs : n.signal[q] = IF q = p THEN NONE ELSE m.signal[q]
       /\ \A q \in Procs : n.parent[q] = IF m.parent[q] = p THEN INIT_PROC_NR ELSE m.parent[q]
  BY <1>8, <1>9
<1>11. SameCalls(m, n) /\ n.res = m.res
  BY <1>4, <1>5, <1>8 DEF Marked, Told, SameCalls
<1>12. \A q \in Procs : \A s \in Requests :
          <<q, s>> \in n.vfs <=> <<q, s>> \in m.vfs \/ (q = p /\ s = "exit")
  BY <1>4, <1>5, <1>8 DEF Marked, Told
<1>13. \A q \in Procs : \A f \in Flags :
          Is(n, q, f) <=> Is(m, q, f) \/ (q = p /\ f \in {"VFS_CALL", "EXITING"})
  <2>1. \A q \in Procs : \A f \in Flags : Is(n, q, f) <=> Is(l, q, f)
    BY <1>8 DEF Is
  <2> QED  BY <1>4, <1>5, <2>1 DEF Marked, Told
<1>14. Exited(m, n, p)
  BY <1>10, <1>11, <1>12, <1>13 DEF Exited
<1> QED  BY <1>3, <1>14
\* A slot that is free again.
Freed(m, n, p) ==
    /\ n \in PMState /\ n.parent = m.parent /\ n.signal = m.signal /\ n.vfs = m.vfs
    /\ n.panic = m.panic
    /\ \A q \in Procs : /\ n.call[q] = IF q = p THEN NONE ELSE m.call[q]
                        /\ n.res[q] = IF q = p THEN NONE ELSE m.res[q]
                        /\ q \in n.taken <=> q \in m.taken /\ q # p
    /\ \A q \in Procs : \A f \in Flags : Is(n, q, f) <=> Is(m, q, f) /\ q # p

LEMMA RestartFacts ==
  ASSUME NEW m \in PMState, NEW p \in Procs
  PROVE  Freed(m, exit_restart(m, p), p)
<1>1. PICK n : n = exit_restart(m, p)
  OBVIOUS
<1>2. /\ n.parent = m.parent /\ n.signal = m.signal /\ n.vfs = m.vfs /\ n.panic = m.panic
      /\ n.call = [m.call EXCEPT ![p] = NONE] /\ n.res = [m.res EXCEPT ![p] = NONE]
      /\ n.taken = m.taken \ {p} /\ n.flags = [m.flags EXCEPT ![p] = {}] /\ n \in PMState
  BY <1>1 DEF exit_restart, PMState, Blocks
<1>3. Freed(m, n, p)
  BY <1>2 DEF Freed, Is, PMState
<1> QED  BY <1>1, <1>3

\* A slot that is taken by the child of p.
Born(m, n, p, c) ==
    /\ n \in PMState /\ n.vfs = m.vfs /\ n.panic = m.panic /\ n.res = m.res
    /\ \A q \in Procs : /\ n.call[q] = IF q = c THEN "child" ELSE m.call[q]
                        /\ n.parent[q] = IF q = c THEN p ELSE m.parent[q]
                        /\ n.signal[q] = IF q = c THEN NONE ELSE m.signal[q]
                        /\ q \in n.taken <=> q \in m.taken \/ q = c
    /\ \A q \in Procs : \A f \in Flags : Is(n, q, f) <=> Is(m, q, f) \/ (q = c /\ f = "IN_USE")

LEMMA ChildFacts ==
  ASSUME NEW m \in PMState, NEW p \in Procs, NEW c \in Procs
  PROVE  Born(m, NewChild(m, p, c), p, c)
<1>1. PICK e : e = Set(m, c, {"IN_USE"})
  OBVIOUS
<1>2. PICK n : n = NewChild(m, p, c)
  OBVIOUS
<1>3. Marked(m, e, c, "IN_USE")
  BY <1>1, SetFacts DEF Flags
<1>4. e \in PMState
  BY <1>3 DEF Marked, SameCalls
<1>5. n = [e EXCEPT !.parent[c] = p, !.call[c] = "child",
                    !.taken = @ \cup {c}, !.signal[c] = NONE]
  BY <1>1, <1>2 DEF NewChild
<1>6. /\ n.vfs = e.vfs /\ n.panic = e.panic /\ n.res = e.res /\ n.flags = e.flags
      /\ n.call = [e.call EXCEPT ![c] = "child"] /\ n.parent = [e.parent EXCEPT ![c] = p]
      /\ n.signal = [e.signal EXCEPT ![c] = NONE] /\ n.taken = e.taken \cup {c}
      /\ n \in PMState
  BY <1>4, <1>5 DEF PMState, Sorts, Blocks
<1>7. /\ \A q \in Procs : n.call[q] = IF q = c THEN "child" ELSE e.call[q]
      /\ \A q \in Procs : n.parent[q] = IF q = c THEN p ELSE e.parent[q]
      /\ \A q \in Procs : n.signal[q] = IF q = c THEN NONE ELSE e.signal[q]
      /\ \A q \in Procs : q \in n.taken <=> q \in e.taken \/ q = c
      /\ \A q \in Procs : \A f \in Flags : Is(n, q, f) <=> Is(e, q, f)
  BY <1>4, <1>6 DEF PMState, Is
<1>8. Born(m, n, p, c)
  BY <1>3, <1>6, <1>7 DEF Born, Marked, SameCalls
<1> QED  BY <1>2, <1>8

\* The replies that are due are sent.
Sent(m, n) ==
    /\ n \in PMState /\ n.parent = m.parent /\ n.signal = m.signal /\ n.vfs = m.vfs
    /\ n.panic = m.panic
    /\ \A q \in Procs :
          /\ n.call[q] = IF Due(m, q) /\ q \in m.taken THEN NONE ELSE m.call[q]
          /\ q \in n.taken <=> q \in m.taken /\ ~Due(m, q)
          /\ q \in n.misled <=> Due(m, q) /\ \/ m.call[q] # m.res[q]
                                             \/ q \notin m.taken
                                             \/ Is(m, q, "EXITING")
    /\ \A q \in Procs : \A f \in Flags :
          Is(n, q, f) <=> Is(m, q, f) /\ ~(Due(m, q) /\ f = "REPLY")

LEMMA SendreplyFacts ==
  ASSUME NEW m \in PMState
  PROVE  Sent(m, sendreply(m))
<1>1. PICK n : n = sendreply(m)
  OBVIOUS
<1>2. /\ n.parent = m.parent /\ n.signal = m.signal /\ n.vfs = m.vfs /\ n.panic = m.panic
      /\ n.flags = [q \in Procs |-> IF Due(m, q) THEN m.flags[q] \ {"REPLY"} ELSE m.flags[q]]
      /\ n.res = [q \in Procs |-> IF Due(m, q) THEN NONE ELSE m.res[q]]
      /\ n.call = [q \in Procs |-> IF Due(m, q) /\ q \in m.taken THEN NONE ELSE m.call[q]]
      /\ n.taken = {q \in m.taken : ~Due(m, q)}
      /\ n.misled = {q \in Procs : Due(m, q) /\ \/ m.call[q] # m.res[q]
                                                \/ q \notin m.taken
                                                \/ Is(m, q, "EXITING")}
  BY <1>1 DEF sendreply, PMState
<1>3. /\ n.flags \in [Procs -> SUBSET Flags] /\ n.res \in [Procs -> Blocks]
      /\ n.call \in [Procs -> Blocks] /\ n.taken \subseteq Procs /\ n.misled \subseteq Procs
  BY <1>2 DEF PMState, Blocks
<1>4. n \in PMState
  BY <1>1, <1>3 DEF sendreply, PMState
<1>5. Sent(m, n)
  BY <1>2, <1>3, <1>4 DEF Sent, Is, PMState
<1> QED  BY <1>1, <1>5
-----------------------------------------------------------------------------
\* The invariant along the way.  No request is under way that p, or a child of
\* p, answers for.
Unasked(m, p) ==
    /\ p # INIT_PROC_NR =>
          \A r \in {"set", "exec", "fork"} : <<p, r>> \notin m.vfs
    /\ p # INIT_PROC_NR =>
          \A c \in Procs : <<c, "fork">> \in m.vfs => m.parent[c] # p

LEMMA ReplyBase ==
  ASSUME NEW m, Base(m), NEW p \in Procs, NEW a \in Blocks, Unasked(m, p), Is(m, p, "IN_USE"),
         NEW n, Replied(m, n, p, a)
  PROVE  /\ Base(n) /\ \A q \in Procs : Quiet(m, q) => Quiet(n, q)
         /\ p = INIT_PROC_NR \/ Is(m, p, "EXITING") \/ (m.call[p] = a /\ p \in m.taken) =>
               (Awaited(m) => Awaited(n))
<1>1. m \in PMState /\ n \in PMState
  BY DEF Base, Replied, SameCalls
<1>2. \A q \in Procs : /\ Is(n, q, "IN_USE") <=> Is(m, q, "IN_USE")
                       /\ Is(n, q, "EXITING") <=> Is(m, q, "EXITING")
                       /\ Is(n, q, "VFS_CALL") <=> Is(m, q, "VFS_CALL")
                       /\ Is(n, q, "UNPAUSED") <=> Is(m, q, "UNPAUSED")
                       /\ Is(n, q, "REPLY") <=> Is(m, q, "REPLY") \/ q = p
  BY DEF Replied, Flags
<1>3. \A q \in Procs : q # p => (Due(n, q) <=> Due(m, q))
  BY <1>1, <1>2, DueMeans
<1>4. n.call = m.call /\ n.taken = m.taken /\ n.parent = m.parent /\ n.signal = m.signal
      /\ n.vfs = m.vfs /\ n.panic = m.panic
  BY DEF Replied, SameCalls
<1>5. ASSUME NEW q \in Procs PROVE Slot(n, q)
  BY <1>2, <1>4 DEF Base, Slot
<1>6. ASSUME NEW q \in Procs, NEW r \in Requests, <<q, r>> \in n.vfs PROVE Served(n, q, r)
  <2>1. Served(m, q, r)
    BY <1>4, <1>6 DEF Base
  <2>2. r = "fork" => ForkAwaited(n, q)
    <3> SUFFICES ASSUME r = "fork" PROVE ForkAwaited(n, q)
      OBVIOUS
    <3>1. ForkAwaited(m, q) /\ m.parent[q] \in Procs
      BY <1>1, <2>1 DEF Served, PMState
    <3>2. m.parent[q] = INIT_PROC_NR \/ m.parent[q] # p
      BY <1>4, <1>6 DEF Unasked
    <3> QED  BY <1>2, <1>3, <1>4, <3>1, <3>2 DEF ForkAwaited
  <2>3. q = p /\ p # INIT_PROC_NR => r \notin {"set", "exec", "fork"}
    BY <1>4, <1>6 DEF Unasked
  <2>4. r \in {"set", "exec"} /\ q # INIT_PROC_NR => n.call[q] = r /\ ~Due(n, q)
    BY <1>3, <1>4, <2>1, <2>3 DEF Served
  <2>5. r = "fork" => q # INIT_PROC_NR /\ n.call[q] = "child" /\ ~Due(n, q)
    BY <1>3, <1>4, <2>1, <2>3 DEF Served
  <2> QED  BY <1>2, <1>4, <2>1, <2>2, <2>4, <2>5 DEF Served
<1>7. Base(n)
  BY <1>1, <1>2, <1>4, <1>5, <1>6, ProcsAssumption DEF Base
<1>8. \A q \in Procs : Quiet(m, q) => Quiet(n, q)
  BY <1>2, <1>4 DEF Quiet
<1>9. ASSUME p = INIT_PROC_NR \/ Is(m, p, "EXITING") \/ (m.call[p] = a /\ p \in m.taken),
             Awaited(m), NEW q \in Procs \ {INIT_PROC_NR}, Due(n, q)
      PROVE  n.call[q] = n.res[q] /\ q \in n.taken
  <2>1. \A z \in Procs : n.res[z] = IF z = p THEN a ELSE m.res[z]
    BY DEF Replied
  <2>2. CASE q = p
    BY <1>1, <1>2, <1>4, <1>9, <2>1, <2>2, DueMeans
  <2>3. CASE q # p
    BY <1>3, <1>4, <1>9, <2>1, <2>3 DEF Awaited
  <2> QED  BY <2>2, <2>3
<1> QED  BY <1>7, <1>8, <1>9 DEF Awaited

\* A living process that VFS does not work for begins to exit.
Untouched(m, n) ==
    /\ n.call = m.call /\ n.res = m.res /\ n.taken = m.taken
    /\ \A q \in Procs : Due(n, q) => Due(m, q)

LEMMA ExitBase ==
  ASSUME NEW m, Base(m), NEW p \in Procs, p # INIT_PROC_NR, Lives(m, p),
         ~Is(m, p, "VFS_CALL"), NEW n, Exited(m, n, p)
  PROVE  /\ Base(n) /\ Untouched(m, n)
         /\ \A q \in Procs : q # p /\ Quiet(m, q) => Quiet(n, q)
         /\ ~Is(m, p, "UNPAUSED") => Quiet(n, p)
         /\ ~Due(n, p) /\ Is(n, p, "EXITING")
<1>1. m \in PMState /\ n \in PMState
  BY DEF Base, Exited, SameCalls
<1>2. \A q \in Procs : /\ Is(n, q, "IN_USE") <=> Is(m, q, "IN_USE")
                       /\ Is(n, q, "EXITING") <=> Is(m, q, "EXITING") \/ q = p
                       /\ Is(n, q, "VFS_CALL") <=> Is(m, q, "VFS_CALL") \/ q = p
                       /\ Is(n, q, "UNPAUSED") <=> Is(m, q, "UNPAUSED")
                       /\ Is(n, q, "REPLY") <=> Is(m, q, "REPLY")
  BY DEF Exited, Flags
<1>3. \A q \in Procs : Due(n, q) <=> Due(m, q) /\ q # p
  BY <1>1, <1>2, DueMeans
<1>4. /\ n.call = m.call /\ n.taken = m.taken /\ n.panic = m.panic /\ n.res = m.res
      /\ \A q \in Procs : n.signal[q] = IF q = p THEN NONE ELSE m.signal[q]
      /\ \A q \in Procs : n.parent[q] = IF m.parent[q] = p THEN INIT_PROC_NR ELSE m.parent[q]
      /\ \A q \in Procs : \A s \in Requests :
            <<q, s>> \in n.vfs <=> <<q, s>> \in m.vfs \/ (q = p /\ s = "exit")
  BY DEF Exited, SameCalls
<1>5. \A s \in Requests : <<p, s>> \notin m.vfs
  BY DEF Base, Served
<1>6. ASSUME NEW q \in Procs PROVE Slot(n, q)
  <2>1. Slot(m, q)
    BY DEF Base
  <2>2. CASE q = p
    BY <1>2, <1>4, <2>1, <2>2, ProcsAssumption DEF Slot, Lives
  <2>3. CASE q # p
    BY <1>2, <1>4, <2>1, <2>3 DEF Slot
  <2> QED  BY <2>2, <2>3
<1>7. ASSUME NEW q \in Procs, NEW r \in Requests, <<q, r>> \in n.vfs PROVE Served(n, q, r)
  <2>1. CASE q = p
    <3>1. r = "exit"
      BY <1>4, <1>5, <1>7, <2>1
    <3>2. \A s \in Requests : <<q, s>> \in n.vfs => s = r
      BY <1>4, <1>5, <2>1, <3>1
    <3> QED  BY <1>2, <2>1, <3>1, <3>2 DEF Served
  <2>2. CASE q # p
    <3>1. <<q, r>> \in m.vfs
      BY <1>4, <1>7, <2>2
    <3>2. Served(m, q, r)
      BY <3>1 DEF Base
    <3>3. \A s \in Requests : <<q, s>> \in n.vfs => s = r
      BY <1>4, <2>2, <3>2 DEF Served
    <3>4. r = "fork" => ForkAwaited(n, q)
      <4> SUFFICES ASSUME r = "fork" PROVE ForkAwaited(n, q)
        OBVIOUS
      <4>1. ForkAwaited(m, q) /\ m.parent[q] \in Procs
        BY <1>1, <3>2 DEF Served, PMState
      <4>2. CASE m.parent[q] \in {p, INIT_PROC_NR}
        BY <1>4, <4>2 DEF ForkAwaited
      <4>3. CASE m.parent[q] \notin {p, INIT_PROC_NR}
        <5>1. n.parent[q] = m.parent[q]
          BY <1>4, <4>3
        <5>2. \A d \in Procs : <<d, "fork">> \in n.vfs /\ n.parent[d] = n.parent[q] => d = q
          <6>1. \A d \in Procs : <<d, "fork">> \in n.vfs => <<d, "fork">> \in m.vfs
            BY <1>4 DEF Requests
          <6>2. \A d \in Procs : n.parent[d] = n.parent[q] => m.parent[d] = m.parent[q]
            BY <1>4, <4>3, <5>1
          <6> QED  BY <4>1, <4>3, <6>1, <6>2 DEF ForkAwaited
        <5> QED  BY <1>2, <1>3, <1>4, <4>1, <4>3, <5>1, <5>2 DEF ForkAwaited
      <4> QED  BY <4>2, <4>3
    <3> QED  BY <1>2, <1>3, <1>4, <2>2, <3>2, <3>3, <3>4 DEF Served
  <2> QED  BY <2>1, <2>2
<1>8. Base(n)
  <2>1. n.signal[INIT_PROC_NR] = NONE
    BY <1>4, ProcsAssumption DEF Base
  <2> QED  BY <1>1, <1>2, <1>4, <1>6, <1>7, <2>1, ProcsAssumption DEF Base
<1>9. Untouched(m, n)
  BY <1>3, <1>4 DEF Untouched
<1>10. \A q \in Procs : q # p /\ Quiet(m, q) => Quiet(n, q)
  BY <1>2, <1>4 DEF Quiet
<1>11. ~Is(m, p, "UNPAUSED") => Quiet(n, p)
  BY <1>2, <1>4 DEF Quiet
<1> QED  BY <1>2, <1>3, <1>8, <1>9, <1>10, <1>11
\* VFS is asked to do something else than an exit for p.
LEMMA TellBase ==
  ASSUME NEW m, Base(m), NEW p \in Procs, NEW r \in Requests \ {"exit"},
         Lives(m, p), ~Is(m, p, "VFS_CALL"), m.call[p] # NONE => p \in m.taken,
         r = "unpause" => m.signal[p] # NONE,
         r \in {"set", "exec"} /\ p # INIT_PROC_NR => m.call[p] = r /\ ~Due(m, p),
         r = "fork" =>
            /\ p # INIT_PROC_NR /\ m.call[p] = "child" /\ ~Due(m, p)
            /\ \/ m.parent[p] = INIT_PROC_NR
               \/ /\ m.call[m.parent[p]] = "fork" /\ m.parent[p] \in m.taken
                  /\ ~Is(m, m.parent[p], "EXITING") /\ ~Due(m, m.parent[p])
                  /\ \A d \in Procs : <<d, "fork">> \in m.vfs => m.parent[d] # m.parent[p],
         NEW n, Told(m, n, p, r)
  PROVE  /\ Base(n) /\ Untouched(m, n) /\ \A q \in Procs : Quiet(m, q) => Quiet(n, q)
         /\ ~Is(m, p, "UNPAUSED") => Quiet(n, p)
<1>1. m \in PMState /\ n \in PMState
  BY DEF Base, Told, SameCalls
<1>2. \A q \in Procs : /\ Is(n, q, "IN_USE") <=> Is(m, q, "IN_USE")
                       /\ Is(n, q, "EXITING") <=> Is(m, q, "EXITING")
                       /\ Is(n, q, "VFS_CALL") <=> Is(m, q, "VFS_CALL") \/ q = p
                       /\ Is(n, q, "UNPAUSED") <=> Is(m, q, "UNPAUSED")
                       /\ Is(n, q, "REPLY") <=> Is(m, q, "REPLY")
  BY DEF Told, Flags
<1>3. \A q \in Procs : Due(n, q) <=> Due(m, q)
  BY <1>1, <1>2, DueMeans
<1>4. /\ n.call = m.call /\ n.taken = m.taken /\ n.panic = m.panic /\ n.res = m.res
      /\ n.signal = m.signal /\ n.parent = m.parent
      /\ \A q \in Procs : \A s \in Requests :
            <<q, s>> \in n.vfs <=> <<q, s>> \in m.vfs \/ (q = p /\ s = r)
  BY DEF Told, SameCalls
<1>5. \A s \in Requests : <<p, s>> \notin m.vfs
  BY DEF Base, Served
<1>6. ASSUME NEW q \in Procs PROVE Slot(n, q)
  BY <1>2, <1>4 DEF Slot, Base, Lives
<1>7. \A d \in Procs : <<d, "fork">> \in n.vfs <=> <<d, "fork">> \in m.vfs \/ (d = p /\ r = "fork")
  BY <1>4 DEF Requests
<1>8. ASSUME NEW q \in Procs, NEW s \in Requests, <<q, s>> \in n.vfs PROVE Served(n, q, s)
  <2>1. CASE q = p
    <3>1. s = r
      BY <1>4, <1>5, <1>8, <2>1
    <3>2. \A z \in Requests : <<q, z>> \in n.vfs => z = s
      BY <1>4, <1>5, <2>1, <3>1
    <3>3. s = "fork" => ForkAwaited(n, q)
      BY <1>1, <1>2, <1>3, <1>4, <1>7, <2>1, <3>1 DEF ForkAwaited, PMState
    <3> QED  BY <1>2, <1>3, <1>4, <2>1, <3>1, <3>2, <3>3 DEF Served, Lives
  <2>2. CASE q # p
    <3>1. <<q, s>> \in m.vfs
      BY <1>4, <1>8, <2>2
    <3>2. Served(m, q, s)
      BY <3>1 DEF Base
    <3>3. \A z \in Requests : <<q, z>> \in n.vfs => z = s
      BY <1>4, <2>2, <3>2 DEF Served
    <3>4. s = "fork" => ForkAwaited(n, q)
      <4> SUFFICES ASSUME s = "fork" PROVE ForkAwaited(n, q)
        OBVIOUS
      <4>1. ForkAwaited(m, q) /\ m.parent[q] \in Procs
        BY <1>1, <3>2 DEF Served, PMState
      <4>2. CASE m.parent[q] = INIT_PROC_NR
        BY <1>4, <4>2 DEF ForkAwaited
      <4>3. CASE m.parent[q] # INIT_PROC_NR
        <5>1. r = "fork" => m.parent[p] # m.parent[q]
          BY <3>1, <4>3
        <5>2. \A d \in Procs : <<d, "fork">> \in n.vfs /\ n.parent[d] = n.parent[q] => d = q
          BY <1>4, <1>7, <4>1, <4>3, <5>1 DEF ForkAwaited
        <5> QED  BY <1>2, <1>3, <1>4, <4>1, <4>3, <5>2 DEF ForkAwaited
      <4> QED  BY <4>2, <4>3
    <3> QED  BY <1>2, <1>3, <1>4, <2>2, <3>2, <3>3, <3>4 DEF Served
  <2> QED  BY <2>1, <2>2
<1>9. Base(n)
  BY <1>1, <1>2, <1>4, <1>6, <1>8, ProcsAssumption DEF Base
<1> QED  BY <1>2, <1>3, <1>4, <1>9 DEF Untouched, Quiet

\* Marks that nothing above speaks of, and the mark of a process for which VFS
\* has nothing to do.
LEMMA MarkBase ==
  ASSUME NEW m, Base(m), NEW p \in Procs, NEW n, NEW f,
         \/ f = "UNPAUSED" /\ (Marked(m, n, p, f) \/ Unmarked(m, n, p, f))
         \/ /\ f = "VFS_CALL" /\ Unmarked(m, n, p, f)
            /\ \A r \in Requests : <<p, r>> \notin m.vfs
  PROVE  Base(n) /\ Untouched(m, n)
<1>1. m \in PMState /\ n \in PMState
  BY DEF Base, Marked, Unmarked, SameCalls
<1>2. \A q \in Procs : /\ Is(n, q, "IN_USE") <=> Is(m, q, "IN_USE")
                       /\ Is(n, q, "EXITING") <=> Is(m, q, "EXITING")
                       /\ Is(n, q, "VFS_CALL") => Is(m, q, "VFS_CALL")
                       /\ Is(m, q, "VFS_CALL") => Is(n, q, "VFS_CALL") \/ (q = p /\ f = "VFS_CALL")
                       /\ Is(n, q, "REPLY") <=> Is(m, q, "REPLY")
  BY DEF Marked, Unmarked, Flags
<1>3. \A q \in Procs : Due(n, q) <=> Due(m, q)
  BY <1>1, <1>2, DueMeans
<1>4. /\ n.call = m.call /\ n.taken = m.taken /\ n.panic = m.panic /\ n.res = m.res
      /\ n.signal = m.signal /\ n.parent = m.parent /\ n.vfs = m.vfs
  BY DEF Marked, Unmarked, SameCalls
<1>5. ASSUME NEW q \in Procs PROVE Slot(n, q)
  BY <1>2, <1>4 DEF Slot, Base
<1>6. ASSUME NEW q \in Procs, NEW s \in Requests, <<q, s>> \in n.vfs PROVE Served(n, q, s)
  <2>1. Served(m, q, s)
    BY <1>4, <1>6 DEF Base
  <2>2. f = "VFS_CALL" => q # p
    BY <1>4, <1>6
  <2>3. s = "fork" => ForkAwaited(n, q)
    BY <1>1, <1>2, <1>3, <1>4, <2>1 DEF Served, ForkAwaited, PMState
  <2> QED  BY <1>2, <1>3, <1>4, <2>1, <2>2, <2>3 DEF Served
<1>7. Base(n)
  BY <1>1, <1>2, <1>4, <1>5, <1>6, ProcsAssumption DEF Base
<1> QED  BY <1>3, <1>4, <1>7 DEF Untouched

\* The signal that waits is dealt with.
LEMMA RestartGood ==
  ASSUME NEW m, NEW p \in Procs, Between(m, p)
  PROVE  Good(restart_sigs(m, p)) /\ Untouched(m, restart_sigs(m, p))
<1>1. PICK n : n = restart_sigs(m, p)
  OBVIOUS
<1>2. /\ Base(m) /\ \A q \in Procs \ {p} : Quiet(m, q)
      /\ Is(m, p, "UNPAUSED") => m.signal[p] # NONE /\ ~Is(m, p, "VFS_CALL")
      /\ m \in PMState /\ m.signal[p] \in Sorts
  BY DEF Between, Base, PMState
<1>3. CASE Is(m, p, "VFS_CALL") \/ m.signal[p] = NONE
  <2>1. n = m
    BY <1>1, <1>3 DEF restart_sigs
  <2>2. Quiet(m, p)
    BY <1>2, <1>3 DEF Quiet
  <2> QED  BY <1>1, <1>2, <2>1, <2>2 DEF Good, Untouched
<1>4. ASSUME ~Is(m, p, "VFS_CALL"), m.signal[p] # NONE
      PROVE  p # INIT_PROC_NR /\ Lives(m, p)
  BY <1>2, <1>4 DEF Base, Slot, Lives
<1>5. CASE ~Is(m, p, "VFS_CALL") /\ m.signal[p] = "lethal"
  <2>1. PICK e : e = Clear(m, p, {"UNPAUSED"})
    OBVIOUS
  <2>2. Unmarked(m, e, p, "UNPAUSED")
    BY <1>2, <2>1, ClearFacts DEF Flags
  <2>3. Base(e) /\ Untouched(m, e)
    BY <1>2, <2>2, MarkBase
  <2>4. e \in PMState
    BY <2>3 DEF Base
  <2>5. Exited(e, exit_proc(e, p), p)
    BY <2>4, ExitFacts
  <2>6. "lethal" # NONE
    BY ProcsAssumption
  <2>7. Lives(e, p) /\ ~Is(e, p, "VFS_CALL") /\ ~Is(e, p, "UNPAUSED") /\ p # INIT_PROC_NR
    BY <1>4, <1>5, <2>2, <2>6 DEF Unmarked, Lives, Flags
  <2>8. \A q \in Procs \ {p} : Quiet(e, q)
    BY <1>2, <2>2 DEF Unmarked, Quiet, Flags
  <2>9. n = exit_proc(e, p)
    BY <1>1, <1>5, <2>1, <2>6 DEF restart_sigs
  <2>10. Base(n) /\ Untouched(e, n) /\ Quiet(n, p) /\ \A q \in Procs \ {p} : Quiet(n, q)
    BY <2>3, <2>5, <2>7, <2>8, <2>9, ExitBase
  <2> QED  BY <1>1, <2>3, <2>10 DEF Good, Untouched
<1>6. CASE ~Is(m, p, "VFS_CALL") /\ m.signal[p] = "caught" /\ Is(m, p, "UNPAUSED")
  <2>1. PICK e : e = Clear(m, p, {"UNPAUSED"})
    OBVIOUS
  <2>2. Unmarked(m, e, p, "UNPAUSED")
    BY <1>2, <2>1, ClearFacts DEF Flags
  <2>3. Base(e) /\ Untouched(m, e)
    BY <1>2, <2>2, MarkBase
  <2>4. n = [e EXCEPT !.signal[p] = NONE]
    BY <1>1, <1>6, <2>1, ProcsAssumption DEF restart_sigs
  <2>5. e \in PMState
    BY <2>3 DEF Base
  <2>6. /\ n \in PMState /\ n.call = e.call /\ n.taken = e.taken /\ n.res = e.res
        /\ n.parent = e.parent /\ n.vfs = e.vfs /\ n.flags = e.flags /\ n.panic = e.panic
        /\ n.signal = [e.signal EXCEPT ![p] = NONE]
    BY <2>4, <2>5 DEF PMState, Sorts
  <2>7. \A q \in Procs : n.signal[q] = IF q = p THEN NONE ELSE e.signal[q]
    BY <2>5, <2>6 DEF PMState
  <2>8. \A q \in Procs : \A f \in Flags : Is(n, q, f) <=> Is(e, q, f)
    BY <2>6 DEF Is
  <2>9. \A q \in Procs : /\ Is(n, q, "IN_USE") <=> Is(e, q, "IN_USE")
                         /\ Is(n, q, "EXITING") <=> Is(e, q, "EXITING")
                         /\ Is(n, q, "VFS_CALL") <=> Is(e, q, "VFS_CALL")
                         /\ Is(n, q, "UNPAUSED") <=> Is(e, q, "UNPAUSED")
                         /\ Is(n, q, "REPLY") <=> Is(e, q, "REPLY")
                         /\ Due(n, q) <=> Due(e, q)
    BY <2>6, <2>8 DEF Flags, Due
  <2>10. ASSUME NEW q \in Procs PROVE Slot(n, q)
    BY <2>3, <2>6, <2>7, <2>9, ProcsAssumption DEF Slot, Base
  <2>11. \A s \in Requests : <<p, s>> \notin e.vfs
    BY <1>6, <2>2, <2>3 DEF Base, Served, Unmarked, Flags
  <2>12. ASSUME NEW q \in Procs, NEW s \in Requests, <<q, s>> \in n.vfs PROVE Served(n, q, s)
    <3>1. Served(e, q, s) /\ q # p
      BY <2>3, <2>6, <2>11, <2>12 DEF Base
    <3>2. s = "fork" => ForkAwaited(n, q)
      BY <2>5, <2>6, <2>9, <3>1 DEF Served, ForkAwaited, PMState
    <3> QED  BY <2>6, <2>7, <2>9, <3>1, <3>2 DEF Served
  <2>13. Base(n)
    <3>1. n.signal[INIT_PROC_NR] = NONE
      BY <2>3, <2>7, ProcsAssumption DEF Base
    <3> QED  BY <2>3, <2>6, <2>9, <2>10, <2>12, <3>1, ProcsAssumption DEF Base
  <2>14. \A q \in Procs : Quiet(n, q)
    BY <1>2, <2>2, <2>6, <2>7, <2>9 DEF Quiet, Unmarked, Flags
  <2> QED  BY <1>1, <2>3, <2>6, <2>9, <2>13, <2>14 DEF Good, Untouched
<1>7. CASE ~Is(m, p, "VFS_CALL") /\ m.signal[p] = "caught" /\ ~Is(m, p, "UNPAUSED")
  <2>1. n = tell_vfs(m, p, "unpause")
    BY <1>1, <1>7, ProcsAssumption DEF restart_sigs
  <2>2. Told(m, n, p, "unpause")
    BY <1>2, <2>1, TellFacts DEF Requests
  <2>3. m.signal[p] # NONE
    BY <1>7, ProcsAssumption
  <2>4. Lives(m, p) /\ (m.call[p] = NONE \/ p \in m.taken)
    BY <1>2, <1>4, <1>7, <2>3 DEF Base, Slot
  <2>5. "unpause" \in Requests \ {"exit"}
    BY DEF Requests
  <2>6. /\ Base(n) /\ Untouched(m, n) /\ \A q \in Procs : Quiet(m, q) => Quiet(n, q)
        /\ ~Is(m, p, "UNPAUSED") => Quiet(n, p)
    BY <1>2, <1>7, <2>2, <2>3, <2>4, <2>5, TellBase
  <2> QED  BY <1>1, <1>2, <1>7, <2>6 DEF Good
<1> QED  BY <1>2, <1>3, <1>5, <1>6, <1>7 DEF Sorts
-----------------------------------------------------------------------------
\* The steps.
LEMMA SendGood ==
  ASSUME NEW m, Good(m), Awaited(m), pm' = sendreply(m)
  PROVE  PMInv'
<1>1. PICK n : n = sendreply(m)
  OBVIOUS
<1>2. m \in PMState
  BY DEF Good, Base
<1>3. Sent(m, n)
  BY <1>1, <1>2, SendreplyFacts
<1>4. n \in PMState
  BY <1>3 DEF Sent
<1>5. \A q \in Procs : /\ Is(n, q, "IN_USE") <=> Is(m, q, "IN_USE")
                       /\ Is(n, q, "EXITING") <=> Is(m, q, "EXITING")
                       /\ Is(n, q, "VFS_CALL") <=> Is(m, q, "VFS_CALL")
                       /\ Is(n, q, "UNPAUSED") <=> Is(m, q, "UNPAUSED")
                       /\ Is(n, q, "REPLY") <=> Is(m, q, "REPLY") /\ ~Due(m, q)
  BY <1>3 DEF Sent, Flags
<1>6. \A q \in Procs : ~Due(n, q)
  BY <1>2, <1>4, <1>5, DueMeans
<1>7. /\ n.parent = m.parent /\ n.signal = m.signal /\ n.vfs = m.vfs /\ n.panic = m.panic
      /\ \A q \in Procs : /\ n.call[q] = IF Due(m, q) /\ q \in m.taken THEN NONE ELSE m.call[q]
                          /\ q \in n.taken <=> q \in m.taken /\ ~Due(m, q)
  BY <1>3 DEF Sent
<1>8. ASSUME NEW q \in Procs PROVE Slot(n, q)
  <2>1. Slot(m, q)
    BY DEF Good, Base
  <2>2. NONE # "child"
    BY ProcsAssumption
  <2> QED  BY <1>5, <1>7, <2>1, <2>2 DEF Slot
<1>9. ASSUME NEW q \in Procs, NEW r \in Requests, <<q, r>> \in n.vfs PROVE Served(n, q, r)
  <2>1. Served(m, q, r)
    BY <1>7, <1>9 DEF Good, Base
  <2>2. r = "fork" => ForkAwaited(n, q)
    <3> SUFFICES ASSUME r = "fork" PROVE ForkAwaited(n, q)
      OBVIOUS
    <3>1. ForkAwaited(m, q) /\ m.parent[q] \in Procs
      BY <1>2, <2>1 DEF Served, PMState
    <3> QED  BY <1>5, <1>6, <1>7, <3>1 DEF ForkAwaited
  <2> QED  BY <1>5, <1>6, <1>7, <2>1, <2>2 DEF Served
<1>10. Base(n)
  <2>1. n.call[INIT_PROC_NR] # "exit"
    BY <1>7, ProcsAssumption DEF Good, Base, Calls
  <2> QED  BY <1>4, <1>5, <1>7, <1>8, <1>9, <2>1, ProcsAssumption DEF Base, Good
<1>11. \A q \in Procs : Quiet(n, q)
  BY <1>5, <1>7 DEF Good, Quiet
<1>12. n.misled \subseteq {INIT_PROC_NR}
  <2>1. ASSUME NEW q \in Procs, q \in n.misled PROVE q = INIT_PROC_NR
    <3>1. Due(m, q) /\ \/ m.call[q] # m.res[q] \/ q \notin m.taken \/ Is(m, q, "EXITING")
      BY <1>3, <2>1 DEF Sent
    <3>2. ~Is(m, q, "EXITING")
      BY <1>2, <3>1, DueMeans
    <3> QED  BY <3>1, <3>2 DEF Awaited
  <2> QED  BY <1>4, <2>1 DEF PMState
<1>13. pm' = n
  BY <1>1
<1> QED  BY <1>6, <1>10, <1>11, <1>12, <1>13 DEF PMInv, Good, RightAnswers

LEMMA GoodBetween ==
  ASSUME NEW m, Good(m), NEW p \in Procs
  PROVE  Between(m, p)
BY DEF Good, Between, Quiet

\* A signal is noted and, if it can be, dealt with.
LEMMA SignalledGood ==
  ASSUME NEW m, Good(m), NEW p \in Procs, NEW sort \in {"lethal", "caught"},
         sort = "caught" => m.call[p] = NONE \/ p \in m.taken
  PROVE  Good(Signalled(m, p, sort)) /\ Untouched(m, Signalled(m, p, sort))
<1>1. CASE ~Lives(m, p) \/ p = INIT_PROC_NR \/ m.signal[p] = "lethal"
  BY <1>1 DEF Signalled, Untouched
<1>2. CASE Lives(m, p) /\ p # INIT_PROC_NR /\ m.signal[p] # "lethal"
  <2>1. PICK n : n = [m EXCEPT !.signal[p] = sort]
    OBVIOUS
  <2>2. m \in PMState /\ Base(m)
    BY DEF Good, Base
  <2>3. /\ n \in PMState /\ n.call = m.call /\ n.taken = m.taken /\ n.res = m.res
        /\ n.parent = m.parent /\ n.vfs = m.vfs /\ n.flags = m.flags /\ n.panic = m.panic
        /\ n.signal = [m.signal EXCEPT ![p] = sort]
    BY <2>1, <2>2 DEF PMState, Sorts
  <2>4. \A q \in Procs : n.signal[q] = IF q = p THEN sort ELSE m.signal[q]
    BY <2>2, <2>3 DEF PMState
  <2>5. \A q \in Procs : \A f : (Is(n, q, f) <=> Is(m, q, f)) /\ (Due(n, q) <=> Due(m, q))
    BY <2>3 DEF Is, Due
  <2>6. ASSUME NEW q \in Procs PROVE Slot(n, q)
    BY <1>2, <2>2, <2>3, <2>4, <2>5 DEF Slot, Base, Lives
  <2>7. ASSUME NEW q \in Procs, NEW s \in Requests, <<q, s>> \in n.vfs PROVE Served(n, q, s)
    <3>1. Served(m, q, s)
      BY <2>2, <2>3, <2>7 DEF Base
    <3>2. s = "fork" => ForkAwaited(n, q)
      BY <2>2, <2>3, <2>5, <3>1 DEF Served, ForkAwaited, PMState
    <3>3. sort # NONE
      BY ProcsAssumption
    <3> QED  BY <2>3, <2>4, <2>5, <3>1, <3>2, <3>3 DEF Served
  <2>8. n.signal[INIT_PROC_NR] = NONE
    BY <1>2, <2>2, <2>4, ProcsAssumption DEF Base
  <2>9. Base(n)
    BY <2>2, <2>3, <2>5, <2>6, <2>7, <2>8, ProcsAssumption DEF Base
  <2>10. \A q \in Procs \ {p} : Quiet(n, q)
    BY <2>4, <2>5 DEF Good, Quiet
  <2>11. ~Is(n, p, "UNPAUSED")
    BY <2>5 DEF Good, Quiet
  <2>12. Between(n, p)
    BY <2>9, <2>10, <2>11 DEF Between
  <2>13. Good(restart_sigs(n, p)) /\ Untouched(n, restart_sigs(n, p))
    BY <2>12, RestartGood
  <2>14. Signalled(m, p, sort) = restart_sigs(n, p)
    BY <1>2, <2>1 DEF Signalled
  <2> QED  BY <2>3, <2>5, <2>13, <2>14 DEF Untouched
<1> QED  BY <1>1, <1>2

\* Nothing is due before the step.
LEMMA NoneDue ==
  ASSUME NEW m, \A q \in Procs : ~Due(m, q), NEW n, Untouched(m, n)
  PROVE  Awaited(n)
BY DEF Untouched, Awaited

LEMMA SignalStep ==
  ASSUME PMInv, NEW p \in Procs, Signal(p)
  PROVE  PMInv'
<1>1. PICK sort \in {"lethal", "caught"} :
         /\ sort = "caught" => pm.call[p] = NONE \/ p \in pm.taken
         /\ pm' = sendreply(Signalled(pm, p, sort))
  BY DEF Signal, SortsFor
<1>2. Good(Signalled(pm, p, sort)) /\ Untouched(pm, Signalled(pm, p, sort))
  BY <1>1, SignalledGood DEF PMInv
<1>3. Awaited(Signalled(pm, p, sort))
  BY <1>2, NoneDue DEF PMInv
<1> QED  BY <1>1, <1>2, <1>3, SendGood

LEMMA SendCallStep ==
  ASSUME PMInv, NEW p \in Procs, SendCall(p)
  PROVE  PMInv'
<1>1. PICK c \in Calls : /\ p = INIT_PROC_NR => c # "exit"
                        /\ pm' = [pm EXCEPT !.call[p] = c, !.misled = {}]
  BY DEF SendCall
<1>2. PICK n : n = [pm EXCEPT !.call[p] = c, !.misled = {}]
  OBVIOUS
<1>3. pm \in PMState /\ Base(pm) /\ \A q \in Procs : Quiet(pm, q) /\ ~Due(pm, q)
  BY DEF PMInv, Good, Base
<1>4. /\ n \in PMState /\ n.signal = pm.signal /\ n.taken = pm.taken /\ n.res = pm.res
      /\ n.parent = pm.parent /\ n.vfs = pm.vfs /\ n.flags = pm.flags /\ n.panic = pm.panic
      /\ n.call = [pm.call EXCEPT ![p] = c] /\ n.misled = {}
  BY <1>2, <1>3 DEF PMState, Blocks
<1>5. \A q \in Procs : n.call[q] = IF q = p THEN c ELSE pm.call[q]
  BY <1>3, <1>4 DEF PMState
<1>6. \A q \in Procs : \A f : (Is(n, q, f) <=> Is(pm, q, f)) /\ (Due(n, q) <=> Due(pm, q))
  BY <1>4 DEF Is, Due
<1>7. Lives(pm, p) /\ ~Is(pm, p, "VFS_CALL") /\ pm.call[p] = NONE
  BY DEF SendCall
<1>8. c # "child" /\ c # NONE
  BY ProcsAssumption DEF Calls
<1>9. pm.signal[p] = NONE
  BY <1>3, <1>7 DEF Quiet
<1>10. ASSUME NEW q \in Procs PROVE Slot(n, q)
  <2>1. Slot(pm, q)
    BY <1>3 DEF Base
  <2>2. NONE # "caught"
    BY ProcsAssumption
  <2> QED  BY <1>4, <1>5, <1>6, <1>7, <1>8, <1>9, <2>1, <2>2 DEF Slot, Lives
<1>11. ASSUME NEW q \in Procs, NEW s \in Requests, <<q, s>> \in n.vfs PROVE Served(n, q, s)
  <2>1. Served(pm, q, s)
    BY <1>3, <1>4, <1>11 DEF Base
  <2>2. q # p
    BY <1>7, <2>1 DEF Served
  <2>3. s = "fork" => ForkAwaited(n, q)
    <3>1. ForkAwaited(pm, q) => pm.parent[q] = INIT_PROC_NR \/ pm.parent[q] # p
      BY <1>7, ProcsAssumption DEF ForkAwaited, Calls
    <3> QED  BY <1>3, <1>4, <1>5, <1>6, <2>1, <3>1 DEF Served, ForkAwaited, PMState
  <2> QED  BY <1>4, <1>5, <1>6, <2>1, <2>2, <2>3 DEF Served
<1>12. Base(n)
  <2>1. n.call[INIT_PROC_NR] # "exit"
    BY <1>1, <1>3, <1>5, ProcsAssumption DEF Base
  <2> QED  BY <1>3, <1>4, <1>6, <1>10, <1>11, <2>1, ProcsAssumption DEF Base
<1>13. \A q \in Procs : Quiet(n, q) /\ ~Due(n, q)
  BY <1>3, <1>4, <1>6 DEF Quiet
<1>14. pm' = n
  BY <1>1, <1>2
<1> QED  BY <1>4, <1>12, <1>13, <1>14 DEF PMInv, Good, RightAnswers
-----------------------------------------------------------------------------
\* A call is received and handled.
LEMMA StillAwaited ==
  ASSUME NEW m, Awaited(m), NEW n, Untouched(m, n)
  PROVE  Awaited(n)
BY DEF Untouched, Awaited

LEMMA UnaskedBecause ==
  ASSUME NEW m, Base(m), NEW p \in Procs, m.call[p] \notin {"set", "exec", "fork", "child"}
  PROVE  Unasked(m, p)
<1>1. ASSUME NEW r \in {"set", "exec", "fork"}, p # INIT_PROC_NR, <<p, r>> \in m.vfs PROVE FALSE
  BY <1>1 DEF Base, Served, Requests
<1>2. ASSUME NEW c \in Procs, p # INIT_PROC_NR, <<c, "fork">> \in m.vfs, m.parent[c] = p PROVE FALSE
  BY <1>2 DEF Base, Served, ForkAwaited, Requests
<1> QED  BY <1>1, <1>2 DEF Unasked

LEMMA ReceivedFacts ==
  ASSUME PMInv, NEW p \in Procs, pm.call[p] # NONE, p \notin pm.taken,
         NEW m, m = [pm EXCEPT !.taken = @ \cup {p}]
  PROVE  /\ Good(m) /\ \A q \in Procs : ~Due(m, q)
         /\ m.call = pm.call /\ m.flags = pm.flags /\ m.misled = pm.misled
         /\ p \in m.taken /\ m.call[p] \in Calls
         /\ ~Is(m, p, "EXITING") => /\ Lives(m, p) /\ ~Is(m, p, "VFS_CALL")
                                    /\ Unasked(m, p)
<1>1. pm \in PMState /\ Base(pm) /\ \A q \in Procs : Quiet(pm, q) /\ ~Due(pm, q)
  BY DEF PMInv, Good, Base
<1>2. /\ m \in PMState /\ m.signal = pm.signal /\ m.call = pm.call /\ m.res = pm.res
      /\ m.parent = pm.parent /\ m.vfs = pm.vfs /\ m.flags = pm.flags /\ m.panic = pm.panic
      /\ m.taken = pm.taken \cup {p} /\ m.misled = pm.misled
  BY <1>1 DEF PMState
<1>3. \A q \in Procs : \A f : (Is(m, q, f) <=> Is(pm, q, f)) /\ (Due(m, q) <=> Due(pm, q))
  BY <1>2 DEF Is, Due
<1>4. ASSUME NEW q \in Procs PROVE Slot(m, q)
  BY <1>1, <1>2, <1>3 DEF Slot, Base
<1>5. ASSUME NEW q \in Procs, NEW s \in Requests, <<q, s>> \in m.vfs PROVE Served(m, q, s)
  <2>1. Served(pm, q, s)
    BY <1>1, <1>2, <1>5 DEF Base
  <2>2. s = "fork" => ForkAwaited(m, q)
    BY <1>1, <1>2, <1>3, <2>1 DEF Served, ForkAwaited, PMState
  <2> QED  BY <1>2, <1>3, <2>1, <2>2 DEF Served
<1>6. Base(m)
  BY <1>1, <1>2, <1>3, <1>4, <1>5, ProcsAssumption DEF Base
<1>7. \A q \in Procs : Quiet(m, q) /\ ~Due(m, q)
  BY <1>1, <1>2, <1>3 DEF Quiet
<1>8. Slot(pm, p) /\ pm.call[p] \in Blocks
  BY <1>1 DEF Base, PMState
<1>9. m.call[p] \in Calls
  BY <1>2, <1>8 DEF Slot, Blocks
<1>10. ASSUME ~Is(m, p, "EXITING")
       PROVE  Lives(m, p) /\ ~Is(m, p, "VFS_CALL") /\ Unasked(m, p)
  <2>1. Lives(m, p) /\ ~Is(m, p, "VFS_CALL")
    BY <1>3, <1>8, <1>10 DEF Slot, Lives
  <2>2. \A r \in {"set", "exec", "fork"} : <<p, r>> \notin m.vfs
    BY <1>6, <2>1 DEF Base, Served, Requests
  <2>3. ASSUME NEW c \in Procs, <<c, "fork">> \in m.vfs, m.parent[c] = p, p # INIT_PROC_NR
        PROVE  FALSE
    <3>1. ForkAwaited(pm, c)
      BY <1>1, <1>2, <2>3 DEF Base, Served, Requests
    <3> QED  BY <1>2, <2>3, <3>1 DEF ForkAwaited
  <2> QED  BY <2>1, <2>2, <2>3 DEF Unasked
<1> QED  BY <1>2, <1>6, <1>7, <1>9, <1>10 DEF Good

\* The caller is answered at once.
LEMMA ReplyGood ==
  ASSUME NEW m, Good(m), Awaited(m), NEW p \in Procs, Is(m, p, "IN_USE"), p \in m.taken,
         m.call[p] \in Calls \cup {"child"}, Unasked(m, p)
  PROVE  LET n == setreply(m, p, m.call[p])
         IN  Good(n) /\ Awaited(n) /\ Replied(m, n, p, m.call[p])
<1>1. PICK n : n = setreply(m, p, m.call[p])
  OBVIOUS
<1>2. m \in PMState /\ m.call[p] \in Blocks /\ Base(m)
  BY DEF Good, Base, Blocks
<1>3. Replied(m, n, p, m.call[p])
  BY <1>1, <1>2, SetreplyFacts
<1>4. /\ Base(n) /\ \A q \in Procs : Quiet(m, q) => Quiet(n, q)
      /\ p = INIT_PROC_NR \/ Is(m, p, "EXITING") \/ (m.call[p] = m.call[p] /\ p \in m.taken) =>
            (Awaited(m) => Awaited(n))
  BY <1>2, <1>3, ReplyBase
<1>5. Good(n) /\ Awaited(n)
  BY <1>4 DEF Good
<1> QED  BY <1>1, <1>3, <1>5

LEMMA BornBase ==
  ASSUME NEW m, Good(m), \A q \in Procs : ~Due(m, q), NEW p \in Procs, Is(m, p, "IN_USE"),
         NEW c \in Procs, ~Is(m, c, "IN_USE"), NEW n, Born(m, n, p, c)
  PROVE  /\ Good(n) /\ (\A q \in Procs : ~Due(n, q)) /\ Awaited(n)
         /\ c # p /\ c # INIT_PROC_NR /\ Lives(n, c) /\ ~Is(n, c, "VFS_CALL")
<1>1. m \in PMState /\ n \in PMState /\ Base(m)
  BY DEF Good, Base, Born
<1>2. \A q \in Procs : /\ Is(n, q, "IN_USE") <=> Is(m, q, "IN_USE") \/ q = c
                       /\ Is(n, q, "EXITING") <=> Is(m, q, "EXITING")
                       /\ Is(n, q, "VFS_CALL") <=> Is(m, q, "VFS_CALL")
                       /\ Is(n, q, "UNPAUSED") <=> Is(m, q, "UNPAUSED")
                       /\ Is(n, q, "REPLY") <=> Is(m, q, "REPLY")
  BY DEF Born, Flags
<1>3. /\ ~Is(m, c, "EXITING") /\ ~Is(m, c, "VFS_CALL") /\ ~Is(m, c, "REPLY")
      /\ m.call[c] = NONE /\ m.signal[c] = NONE /\ c # INIT_PROC_NR /\ c # p
  BY <1>1 DEF Base, Slot
<1>4. \A q \in Procs : ~Due(n, q)
  BY <1>1, <1>2, <1>3, DueMeans
<1>5. /\ n.vfs = m.vfs /\ n.panic = m.panic /\ n.res = m.res
      /\ \A q \in Procs : /\ n.call[q] = IF q = c THEN "child" ELSE m.call[q]
                          /\ n.parent[q] = IF q = c THEN p ELSE m.parent[q]
                          /\ n.signal[q] = IF q = c THEN NONE ELSE m.signal[q]
                          /\ q \in n.taken <=> q \in m.taken \/ q = c
  BY DEF Born
<1>6. ASSUME NEW q \in Procs PROVE Slot(n, q)
  <2>1. Slot(m, q) /\ NONE # "caught"
    BY <1>1, ProcsAssumption DEF Base
  <2> QED  BY <1>2, <1>3, <1>5, <2>1 DEF Slot
<1>7. \A r \in Requests : <<c, r>> \notin m.vfs
  BY <1>1, <1>3 DEF Base, Served
<1>8. ASSUME NEW q \in Procs, NEW s \in Requests, <<q, s>> \in n.vfs PROVE Served(n, q, s)
  <2>1. Served(m, q, s) /\ q # c
    BY <1>1, <1>5, <1>7, <1>8 DEF Base
  <2>2. s = "fork" => ForkAwaited(n, q)
    <3> SUFFICES ASSUME s = "fork" PROVE ForkAwaited(n, q)
      OBVIOUS
    <3>1. ForkAwaited(m, q) /\ m.parent[q] \in Procs
      BY <1>1, <2>1 DEF Served, PMState
    <3>2. m.parent[q] # c
      BY <1>3, <3>1, ProcsAssumption DEF ForkAwaited, Calls
    <3>3. \A d \in Procs : <<d, "fork">> \in n.vfs => d # c
      BY <1>5, <1>7 DEF Requests
    <3>4. CASE m.parent[q] = INIT_PROC_NR
      BY <1>5, <2>1, <3>4 DEF ForkAwaited
    <3>5. CASE m.parent[q] # INIT_PROC_NR
      BY <1>2, <1>4, <1>5, <2>1, <3>1, <3>2, <3>3, <3>5 DEF ForkAwaited
    <3> QED  BY <3>4, <3>5
  <2> QED  BY <1>2, <1>4, <1>5, <2>1, <2>2 DEF Served
<1>9. Base(n)
  <2>1. n.signal[INIT_PROC_NR] = NONE /\ n.call[INIT_PROC_NR] # "exit"
    BY <1>1, <1>3, <1>5, ProcsAssumption DEF Base
  <2> QED  BY <1>1, <1>2, <1>5, <1>6, <1>8, <2>1, ProcsAssumption DEF Base
<1>10. \A q \in Procs : Quiet(n, q)
  BY <1>2, <1>5 DEF Good, Quiet
<1>11. Lives(n, c) /\ ~Is(n, c, "VFS_CALL") /\ Awaited(n)
  BY <1>2, <1>3, <1>4 DEF Lives, Awaited
<1> QED  BY <1>3, <1>4, <1>9, <1>10, <1>11 DEF Good
\* HandleCall: what the handler leaves is sound, and the replies it sets are awaited.
LEMMA HandledGood ==
  ASSUME NEW m, Good(m), \A q \in Procs : ~Due(m, q), NEW p \in Procs, p \in m.taken,
         m.call[p] \in Calls, m.flags = pm.flags, Lives(m, p), ~Is(m, p, "VFS_CALL"),
         Unasked(m, p), NEW n \in Handled(m, p)
  PROVE  Good(n) /\ Awaited(n)
<1>1. /\ m \in PMState /\ Base(m) /\ Awaited(m) /\ Is(m, p, "IN_USE")
      /\ \A q \in Procs : Quiet(m, q)
      /\ m.call[p] \in Blocks /\ m.call[p] \in Calls \cup {"child"}
  BY DEF Good, Base, Awaited, Lives, Blocks
<1>2. ASSUME NEW k \in Calls, n = setreply(m, p, k), m.call[p] = k PROVE Good(n) /\ Awaited(n)
  <2>1. n = setreply(m, p, m.call[p])
    BY <1>2
  <2> QED  BY <1>1, <2>1, ReplyGood
<1>3. CASE m.call[p] = "now"
  <2>1. n = setreply(m, p, "now")
    BY <1>3 DEF Handled
  <2> QED  BY <1>2, <1>3, <2>1 DEF Calls
<1>4. CASE m.call[p] \in {"set", "exec"}
  <2>1. n = tell_vfs(m, p, m.call[p])
    BY <1>4 DEF Handled
  <2>2. m.call[p] \in Requests \ {"exit"}
    BY <1>4 DEF Requests
  <2>3. Told(m, n, p, m.call[p])
    BY <1>1, <2>1, <2>2, TellFacts
  <2>4. m.call[p] \notin {"unpause", "fork"}
    BY <1>4
  <2>5. /\ Base(n) /\ Untouched(m, n) /\ \A q \in Procs : Quiet(m, q) => Quiet(n, q)
    BY <1>1, <2>2, <2>3, <2>4, TellBase
  <2>6. Awaited(n)
    BY <2>5, StillAwaited, <1>1
  <2> QED  BY <1>1, <2>5, <2>6 DEF Good
<1>5. CASE m.call[p] = "exit"
  <2>1. n = exit_proc(m, p)
    BY <1>5 DEF Handled
  <2>2. Exited(m, n, p)
    BY <1>1, <2>1, ExitFacts
  <2>3. p # INIT_PROC_NR
    BY <1>1, <1>5 DEF Base
  <2>4. /\ Base(n) /\ Untouched(m, n)
        /\ \A q \in Procs : q # p /\ Quiet(m, q) => Quiet(n, q)
        /\ ~Is(m, p, "UNPAUSED") => Quiet(n, p)
    BY <1>1, <2>2, <2>3, ExitBase
  <2>5. Awaited(n)
    BY <2>4, StillAwaited, <1>1
  <2> QED  BY <1>1, <2>4, <2>5 DEF Good, Quiet
<1>6. CASE m.call[p] = "kill"
  <2>1. PICK q \in Procs : \E sort \in SortsFor(m, q) :
           n = setreply(Signalled(m, q, sort), p, "kill")
    BY <1>6 DEF Handled
  <2>2. PICK sort \in SortsFor(m, q) : n = setreply(Signalled(m, q, sort), p, "kill")
    BY <2>1
  <2>3. PICK e : e = Signalled(m, q, sort)
    OBVIOUS
  <2>4. /\ sort \in {"lethal", "caught"}
        /\ sort = "caught" => m.call[q] = NONE \/ q \in m.taken
    BY DEF SortsFor
  <2>5. Good(e) /\ Untouched(m, e)
    BY <2>3, <2>4, SignalledGood
  <2>6. e.call[p] = "kill" /\ p \in e.taken /\ Awaited(e)
    BY <1>1, <1>6, <2>5, StillAwaited DEF Untouched
  <2>7. Is(e, p, "IN_USE") /\ Base(e)
    BY <2>5, <2>6, ProcsAssumption DEF Good, Base, Slot, Calls
  <2>8. Unasked(e, p)
    BY <2>6, <2>7, UnaskedBecause
  <2>9. "kill" \in Calls \cup {"child"} /\ n = setreply(e, p, e.call[p])
    BY <2>2, <2>3, <2>6 DEF Calls
  <2> QED  BY <2>5, <2>6, <2>7, <2>8, <2>9, ReplyGood
<1>7. CASE FreeSlots = {} /\ m.call[p] \in {"fork", "srv_fork"}
  <2>1. n = setreply(m, p, m.call[p])
    BY <1>7 DEF Handled
  <2> QED  BY <1>1, <2>1, ReplyGood
<1>8. CASE FreeSlots # {} /\ m.call[p] = "fork"
  <2>1. PICK c \in FreeSlots : n = tell_vfs(NewChild(m, p, c), c, "fork")
    BY <1>8 DEF Handled
  <2>2. PICK e : e = NewChild(m, p, c)
    OBVIOUS
  <2>3. c \in Procs /\ ~Is(m, c, "IN_USE")
    BY DEF FreeSlots, Is
  <2>4. Born(m, e, p, c)
    BY <1>1, <2>2, <2>3, ChildFacts
  <2>5. /\ Good(e) /\ (\A q \in Procs : ~Due(e, q)) /\ Awaited(e)
        /\ c # p /\ c # INIT_PROC_NR /\ Lives(e, c) /\ ~Is(e, c, "VFS_CALL")
    BY <1>1, <2>3, <2>4, BornBase
  <2>6. Base(e) /\ e \in PMState /\ \A q \in Procs : Quiet(e, q)
    BY <2>5 DEF Good, Base
  <2>7. /\ e.call[c] = "child" /\ e.parent[c] = p /\ c \in e.taken
        /\ e.call[p] = "fork" /\ p \in e.taken /\ e.vfs = m.vfs
        /\ \A d \in Procs : d # c => e.parent[d] = m.parent[d]
    BY <1>8, <2>3, <2>4, <2>5 DEF Born
  <2>8. ~Is(e, p, "EXITING")
    BY <2>4, <2>5 DEF Born, Lives, Flags
  <2>9. <<c, "fork">> \notin m.vfs
    BY <2>3, <2>5, <2>6, <2>7 DEF Base, Served, Requests
  <2>10. p # INIT_PROC_NR => \A d \in Procs : <<d, "fork">> \in e.vfs => e.parent[d] # p
    BY <2>7, <2>9 DEF Unasked
  <2>11. "fork" \in Requests \ {"exit"}
    BY DEF Requests
  <2>12. Told(e, n, c, "fork")
    BY <2>1, <2>2, <2>3, <2>6, <2>11, TellFacts
  <2>13. \/ e.parent[c] = INIT_PROC_NR
         \/ /\ e.call[e.parent[c]] = "fork" /\ e.parent[c] \in e.taken
            /\ ~Is(e, e.parent[c], "EXITING") /\ ~Due(e, e.parent[c])
            /\ \A d \in Procs : <<d, "fork">> \in e.vfs => e.parent[d] # e.parent[c]
    BY <2>5, <2>7, <2>8, <2>10
  <2>14. /\ Base(n) /\ Untouched(e, n) /\ \A q \in Procs : Quiet(e, q) => Quiet(n, q)
    BY <2>3, <2>5, <2>6, <2>7, <2>11, <2>12, <2>13, TellBase
  <2>15. Awaited(n)
    BY <2>5, <2>14, StillAwaited
  <2> QED  BY <2>6, <2>14, <2>15 DEF Good
<1>9. CASE FreeSlots # {} /\ m.call[p] = "srv_fork"
  <2>1. PICK c \in FreeSlots :
          n = setreply(setreply(tell_vfs(NewChild(m, p, c), c, "srv_fork"), c, "child"),
                       p, "srv_fork")
    BY <1>9 DEF Handled
  <2>2. PICK e : e = NewChild(m, p, c)
    OBVIOUS
  <2>3. c \in Procs /\ ~Is(m, c, "IN_USE")
    BY DEF FreeSlots, Is
  <2>4. Born(m, e, p, c)
    BY <1>1, <2>2, <2>3, ChildFacts
  <2>5. /\ Good(e) /\ (\A q \in Procs : ~Due(e, q)) /\ Awaited(e)
        /\ c # p /\ c # INIT_PROC_NR /\ Lives(e, c) /\ ~Is(e, c, "VFS_CALL")
    BY <1>1, <2>3, <2>4, BornBase
  <2>6. Base(e) /\ e \in PMState /\ \A q \in Procs : Quiet(e, q)
    BY <2>5 DEF Good, Base
  <2>7. /\ e.call[c] = "child" /\ c \in e.taken /\ e.call[p] = "srv_fork" /\ p \in e.taken
    BY <1>9, <2>3, <2>4, <2>5 DEF Born
  <2>8. "srv_fork" \in Requests \ {"exit"}
    BY DEF Requests
  <2>9. PICK t : t = tell_vfs(e, c, "srv_fork")
    OBVIOUS
  <2>10. Told(e, t, c, "srv_fork")
    BY <2>3, <2>6, <2>8, <2>9, TellFacts
  <2>11. /\ Base(t) /\ Untouched(e, t) /\ \A q \in Procs : Quiet(e, q) => Quiet(t, q)
    BY <2>3, <2>5, <2>6, <2>7, <2>8, <2>10, TellBase
  <2>12. Good(t) /\ Awaited(t) /\ t.call[c] = "child" /\ c \in t.taken
         /\ t.call[p] = "srv_fork" /\ p \in t.taken
    BY <2>5, <2>6, <2>7, <2>11, StillAwaited DEF Good, Untouched
  <2>13. Is(t, c, "IN_USE") /\ Is(t, p, "IN_USE")
    BY <2>3, <2>11, <2>12, ProcsAssumption DEF Base, Slot, Calls
  <2>14. Unasked(t, c)
    <3>1. \A s \in Requests : <<c, s>> \in t.vfs => s = "srv_fork"
      <4>1. <<c, "srv_fork">> \in t.vfs
        BY <2>3, <2>8, <2>10 DEF Told
      <4> QED  BY <2>3, <2>8, <2>11, <4>1 DEF Base, Served
    <3>2. ASSUME NEW d \in Procs, <<d, "fork">> \in t.vfs PROVE t.parent[d] # c
      BY <2>5, <2>11, <2>12, <3>2 DEF Base, Served, ForkAwaited, Requests
    <3> QED  BY <3>1, <3>2 DEF Unasked, Requests
  <2>15. PICK a : a = setreply(t, c, t.call[c])
    OBVIOUS
  <2>16. Good(a) /\ Awaited(a) /\ Replied(t, a, c, t.call[c])
    BY <2>3, <2>12, <2>13, <2>14, <2>15, ReplyGood
  <2>17. a.call[p] = "srv_fork" /\ p \in a.taken
    BY <2>12, <2>16 DEF Replied, SameCalls
  <2>18. Is(a, p, "IN_USE")
    BY <2>13, <2>16 DEF Replied, Flags
  <2>19. Unasked(a, p)
    BY <2>16, <2>17, UnaskedBecause DEF Good
  <2>20. n = setreply(a, p, a.call[p])
    BY <2>1, <2>2, <2>9, <2>12, <2>15, <2>17
  <2>21. "srv_fork" \in Calls \cup {"child"}
    BY DEF Calls
  <2> QED  BY <2>16, <2>17, <2>18, <2>19, <2>20, <2>21, ReplyGood
<1> QED  BY <1>3, <1>4, <1>5, <1>6, <1>7, <1>8, <1>9 DEF Calls

LEMMA HandleCallStep ==
  ASSUME PMInv, NEW p \in Procs, HandleCall(p)
  PROVE  PMInv'
<1>1. PICK m : m = [pm EXCEPT !.taken = @ \cup {p}]
  OBVIOUS
<1>2. pm.call[p] # NONE /\ p \notin pm.taken
  BY DEF HandleCall
<1>3. /\ Good(m) /\ \A q \in Procs : ~Due(m, q)
      /\ m.call = pm.call /\ m.flags = pm.flags /\ m.misled = pm.misled
      /\ p \in m.taken /\ m.call[p] \in Calls
      /\ ~Is(m, p, "EXITING") => /\ Lives(m, p) /\ ~Is(m, p, "VFS_CALL")
                                 /\ Unasked(m, p)
  BY <1>1, <1>2, ReceivedFacts
<1>4. Is(m, p, "EXITING") <=> Is(pm, p, "EXITING")
  BY <1>3 DEF Is
<1>5. CASE Is(pm, p, "EXITING")
  <2>1. pm' = [m EXCEPT !.misled = {}]
    BY <1>1, <1>5 DEF HandleCall
  <2>2. PICK n : n = [m EXCEPT !.misled = {}]
    OBVIOUS
  <2>3. m \in PMState /\ Base(m)
    BY <1>3 DEF Good, Base
  <2>4. /\ n \in PMState /\ n.signal = m.signal /\ n.call = m.call /\ n.res = m.res
        /\ n.parent = m.parent /\ n.vfs = m.vfs /\ n.flags = m.flags /\ n.panic = m.panic
        /\ n.taken = m.taken /\ n.misled = {}
    BY <2>2, <2>3 DEF PMState
  <2>5. \A q \in Procs : \A f : (Is(n, q, f) <=> Is(m, q, f)) /\ (Due(n, q) <=> Due(m, q))
    BY <2>4 DEF Is, Due
  <2>6. ASSUME NEW q \in Procs PROVE Slot(n, q)
    BY <2>3, <2>4, <2>5 DEF Slot, Base
  <2>7. ASSUME NEW q \in Procs, NEW s \in Requests, <<q, s>> \in n.vfs PROVE Served(n, q, s)
    <3>1. Served(m, q, s)
      BY <2>3, <2>4, <2>7 DEF Base
    <3>2. s = "fork" => ForkAwaited(n, q)
      BY <2>3, <2>4, <2>5, <3>1 DEF Served, ForkAwaited, PMState
    <3> QED  BY <2>4, <2>5, <3>1, <3>2 DEF Served
  <2>8. Base(n)
    BY <2>3, <2>4, <2>5, <2>6, <2>7, ProcsAssumption DEF Base
  <2>9. \A q \in Procs : Quiet(n, q) /\ ~Due(n, q)
    BY <1>3, <2>4, <2>5 DEF Good, Quiet
  <2>10. pm' = n
    BY <2>1, <2>2
  <2> QED  BY <2>4, <2>8, <2>9, <2>10 DEF PMInv, Good, RightAnswers
<1>6. CASE ~Is(pm, p, "EXITING")
  <2>1. PICK n \in Handled(m, p) : pm' = sendreply(n)
    BY <1>1, <1>6 DEF HandleCall
  <2>2. Good(n) /\ Awaited(n)
    BY <1>3, <1>4, <1>6, HandledGood
  <2> QED  BY <2>1, <2>2, SendGood
<1> QED  BY <1>5, <1>6
-----------------------------------------------------------------------------
\* An answer of VFS is dealt with.  The process is idle, its request is gone.
Cleared(m, p) ==
    /\ Base(m) /\ (\A q \in Procs \ {p} : Quiet(m, q)) /\ (\A q \in Procs : ~Due(m, q))
    /\ ~Is(m, p, "VFS_CALL") /\ ~Is(m, p, "UNPAUSED") /\ Is(m, p, "IN_USE")
    /\ \A s \in Requests : <<p, s>> \notin m.vfs

\* What is left of Served for the process whose request was answered.
WasServed(m, p, r) ==
    /\ r = "exit" <=> Is(m, p, "EXITING")
    /\ r = "unpause" => m.signal[p] # NONE
    /\ r \in {"set", "exec"} /\ p # INIT_PROC_NR => m.call[p] = r /\ p \in m.taken
    /\ r = "fork" => /\ p # INIT_PROC_NR /\ m.call[p] = "child" /\ p \in m.taken
                     /\ \/ m.parent[p] = INIT_PROC_NR
                        \/ /\ m.call[m.parent[p]] = "fork" /\ m.parent[p] \in m.taken
                           /\ \A d \in Procs : <<d, "fork">> \in m.vfs => m.parent[d] # m.parent[p]

LEMMA ClearedFor ==
  ASSUME PMInv, NEW p \in Procs, NEW r \in Requests, <<p, r>> \in pm.vfs,
         NEW m, m = Clear([pm EXCEPT !.vfs = @ \ {<<p, r>>}], p, {"VFS_CALL"})
  PROVE  Cleared(m, p) /\ WasServed(m, p, r)
<1>1. PICK e : e = [pm EXCEPT !.vfs = @ \ {<<p, r>>}]
  OBVIOUS
<1>2. pm \in PMState /\ Base(pm) /\ \A q \in Procs : Quiet(pm, q) /\ ~Due(pm, q)
  BY DEF PMInv, Good, Base
<1>3. Served(pm, p, r) /\ Slot(pm, p)
  BY <1>2 DEF Base
<1>4. /\ e \in PMState /\ e.signal = pm.signal /\ e.call = pm.call /\ e.res = pm.res
      /\ e.parent = pm.parent /\ e.taken = pm.taken /\ e.flags = pm.flags
      /\ e.panic = pm.panic /\ e.vfs = pm.vfs \ {<<p, r>>}
  BY <1>1, <1>2 DEF PMState
<1>5. Unmarked(e, m, p, "VFS_CALL")
  BY <1>1, <1>4, ClearFacts DEF Flags
<1>6. /\ m \in PMState /\ m.signal = pm.signal /\ m.call = pm.call /\ m.res = pm.res
      /\ m.parent = pm.parent /\ m.taken = pm.taken /\ m.panic = pm.panic
      /\ m.vfs = pm.vfs \ {<<p, r>>}
  BY <1>4, <1>5 DEF Unmarked, SameCalls
<1>7. \A q \in Procs : /\ Is(m, q, "IN_USE") <=> Is(pm, q, "IN_USE")
                       /\ Is(m, q, "EXITING") <=> Is(pm, q, "EXITING")
                       /\ Is(m, q, "VFS_CALL") <=> Is(pm, q, "VFS_CALL") /\ q # p
                       /\ Is(m, q, "UNPAUSED") <=> Is(pm, q, "UNPAUSED")
                       /\ Is(m, q, "REPLY") <=> Is(pm, q, "REPLY")
  <2>1. \A q \in Procs : \A f : Is(e, q, f) <=> Is(pm, q, f)
    BY <1>4 DEF Is
  <2> QED  BY <1>5, <2>1 DEF Unmarked, Flags
<1>8. \A q \in Procs : ~Due(m, q)
  BY <1>2, <1>6, <1>7, DueMeans
<1>9. \A s \in Requests : <<p, s>> \notin m.vfs
  BY <1>3, <1>6 DEF Served
<1>10. ASSUME NEW q \in Procs PROVE Slot(m, q)
  BY <1>2, <1>6, <1>7 DEF Slot, Base
<1>11. ASSUME NEW q \in Procs, NEW s \in Requests, <<q, s>> \in m.vfs PROVE Served(m, q, s)
  <2>1. Served(pm, q, s) /\ q # p
    BY <1>2, <1>6, <1>9, <1>11 DEF Base
  <2>2. s = "fork" => ForkAwaited(m, q)
    <3> SUFFICES ASSUME s = "fork" PROVE ForkAwaited(m, q)
      OBVIOUS
    <3>1. ForkAwaited(pm, q) /\ pm.parent[q] \in Procs
      BY <1>2, <2>1 DEF Served, PMState
    <3> QED  BY <1>6, <1>7, <1>8, <3>1 DEF ForkAwaited
  <2> QED  BY <1>6, <1>7, <1>8, <2>1, <2>2 DEF Served
<1>12. Base(m)
  BY <1>2, <1>6, <1>7, <1>10, <1>11, ProcsAssumption DEF Base
<1>13. Cleared(m, p)
  <2>1. \A q \in Procs \ {p} : Quiet(m, q)
    BY <1>2, <1>6, <1>7 DEF Quiet
  <2>2. Is(m, p, "IN_USE") /\ ~Is(m, p, "VFS_CALL") /\ ~Is(m, p, "UNPAUSED")
    BY <1>2, <1>3, <1>7 DEF Served, Slot, Quiet
  <2> QED  BY <1>8, <1>9, <1>12, <2>1, <2>2 DEF Cleared
<1>14. WasServed(m, p, r)
  <2>1. (r = "exit" <=> Is(m, p, "EXITING")) /\ (r = "unpause" => m.signal[p] # NONE)
    BY <1>3, <1>6, <1>7 DEF Served
  <2>2. r \in {"set", "exec"} /\ p # INIT_PROC_NR => m.call[p] = r /\ p \in m.taken
    BY <1>3, <1>6, ProcsAssumption DEF Served, Slot, Calls
  <2>3. r = "fork" => p # INIT_PROC_NR /\ m.call[p] = "child" /\ p \in m.taken
    BY <1>3, <1>6 DEF Served, Slot
  <2>4. r = "fork" => \/ m.parent[p] = INIT_PROC_NR
                      \/ /\ m.call[m.parent[p]] = "fork" /\ m.parent[p] \in m.taken
                         /\ \A d \in Procs : <<d, "fork">> \in m.vfs => m.parent[d] # m.parent[p]
    BY <1>3, <1>6, <1>9 DEF Served, ForkAwaited, Requests
  <2> QED  BY <2>1, <2>2, <2>3, <2>4 DEF WasServed
<1> QED  BY <1>13, <1>14

\* The end of handle_vfs_reply, and the replies.
LEMMA IdleGood ==
  ASSUME NEW n, NEW p \in Procs, Between(n, p), Awaited(n),
         pm' = sendreply(IF Lives(n, p) THEN restart_sigs(n, p) ELSE n)
  PROVE  PMInv'
<1>1. CASE Lives(n, p)
  <2>1. PICK e : e = restart_sigs(n, p)
    OBVIOUS
  <2>2. Good(e) /\ Untouched(n, e)
    BY <2>1, RestartGood
  <2>3. Awaited(e)
    BY <2>2, StillAwaited
  <2>4. pm' = sendreply(e)
    BY <1>1, <2>1
  <2> QED  BY <2>2, <2>3, <2>4, SendGood
<1>2. CASE ~Lives(n, p)
  <2>1. Quiet(n, p)
    BY <1>2 DEF Between, Base, Slot, Lives, Quiet
  <2>2. Good(n)
    BY <2>1 DEF Good, Between
  <2>3. pm' = sendreply(n)
    BY <1>2
  <2> QED  BY <2>2, <2>3, SendGood
<1> QED  BY <1>1, <1>2

\* A reply to the process itself.
LEMMA OwnReply ==
  ASSUME NEW m, NEW p \in Procs, Cleared(m, p), NEW a \in {"set", "exec", "child"},
         p # INIT_PROC_NR => m.call[p] = a /\ p \in m.taken,
         NEW n, n = setreply(m, p, a)
  PROVE  /\ Between(n, p) /\ Awaited(n) /\ Replied(m, n, p, a)
<1>1. m \in PMState /\ Base(m) /\ a \in Blocks
  BY DEF Cleared, Base, Blocks, Calls
<1>2. Replied(m, n, p, a)
  BY <1>1, SetreplyFacts
<1>3. Unasked(m, p)
  <2>1. ASSUME NEW c \in Procs, p # INIT_PROC_NR, <<c, "fork">> \in m.vfs, m.parent[c] = p
        PROVE  FALSE
    BY <1>1, <2>1 DEF Base, Served, ForkAwaited, Requests
  <2>2. \A r \in {"set", "exec", "fork"} : <<p, r>> \notin m.vfs
    BY DEF Cleared, Requests
  <2> QED  BY <2>1, <2>2 DEF Unasked
<1>4. Awaited(m)
  BY DEF Cleared, Awaited
<1>5. /\ Base(n) /\ Awaited(n) /\ \A q \in Procs : Quiet(m, q) => Quiet(n, q)
  BY <1>1, <1>2, <1>3, <1>4, ReplyBase DEF Cleared
<1>6. ~Is(n, p, "UNPAUSED")
  BY <1>2 DEF Replied, Flags, Cleared
<1>7. Between(n, p)
  BY <1>5, <1>6 DEF Between, Cleared
<1> QED  BY <1>2, <1>5, <1>7
\* The new program starts: there is no answer to its exec.
LEMMA ExecStarts ==
  ASSUME NEW m, NEW p \in Procs, Cleared(m, p), p # INIT_PROC_NR => m.call[p] = "exec",
         NEW n, n = [m EXCEPT !.call[p] = NONE, !.taken = @ \ {p}]
  PROVE  Between(n, p) /\ Awaited(n)
<1>1. m \in PMState /\ Base(m)
  BY DEF Cleared, Base
<1>2. /\ n \in PMState /\ n.signal = m.signal /\ n.res = m.res /\ n.parent = m.parent
      /\ n.vfs = m.vfs /\ n.flags = m.flags /\ n.panic = m.panic
      /\ n.call = [m.call EXCEPT ![p] = NONE] /\ n.taken = m.taken \ {p}
  BY <1>1 DEF PMState, Blocks
<1>3. \A q \in Procs : n.call[q] = IF q = p THEN NONE ELSE m.call[q]
  BY <1>1, <1>2 DEF PMState
<1>4. \A q \in Procs : \A f : (Is(n, q, f) <=> Is(m, q, f)) /\ (Due(n, q) <=> Due(m, q))
  BY <1>2 DEF Is, Due
<1>5. NONE # "child" /\ NONE # "exit"
  BY ProcsAssumption DEF Calls
<1>6. ASSUME NEW q \in Procs PROVE Slot(n, q)
  <2>1. Slot(m, q)
    BY <1>1 DEF Base
  <2>2. CASE q = p
    BY <1>2, <1>3, <1>4, <1>5, <2>1, <2>2 DEF Slot
  <2>3. CASE q # p
    BY <1>2, <1>3, <1>4, <2>1, <2>3 DEF Slot
  <2> QED  BY <2>2, <2>3
<1>7. ASSUME NEW q \in Procs, NEW s \in Requests, <<q, s>> \in n.vfs PROVE Served(n, q, s)
  <2>1. Served(m, q, s) /\ q # p
    BY <1>1, <1>2, <1>7 DEF Base, Cleared
  <2>2. s = "fork" => ForkAwaited(n, q)
    <3> SUFFICES ASSUME s = "fork" PROVE ForkAwaited(n, q)
      OBVIOUS
    <3>1. ForkAwaited(m, q) /\ m.parent[q] \in Procs
      BY <1>1, <2>1 DEF Served, PMState
    <3>2. m.parent[q] = INIT_PROC_NR \/ m.parent[q] # p
      BY <3>1 DEF ForkAwaited
    <3> QED  BY <1>2, <1>3, <1>4, <3>1, <3>2 DEF ForkAwaited
  <2> QED  BY <1>2, <1>3, <1>4, <2>1, <2>2 DEF Served
<1>8. Base(n)
  <2>1. n.call[INIT_PROC_NR] # "exit"
    BY <1>1, <1>3, <1>5, ProcsAssumption DEF Base
  <2> QED  BY <1>1, <1>2, <1>4, <1>6, <1>7, <2>1, ProcsAssumption DEF Base
<1>9. (\A q \in Procs \ {p} : Quiet(n, q)) /\ ~Is(n, p, "UNPAUSED")
  BY <1>2, <1>4 DEF Cleared, Quiet
<1>10. Awaited(n)
  BY <1>4 DEF Cleared, Awaited
<1> QED  BY <1>8, <1>9, <1>10 DEF Between

\* The slot of a process that has exited is free.
LEMMA ExitEnds ==
  ASSUME NEW m, NEW p \in Procs, Cleared(m, p), Is(m, p, "EXITING"),
         NEW n, n = exit_restart(m, p)
  PROVE  Between(n, p) /\ Awaited(n)
<1>1. m \in PMState /\ Base(m) /\ Slot(m, p) /\ p # INIT_PROC_NR
  BY DEF Cleared, Base
<1>2. Freed(m, n, p)
  BY <1>1, RestartFacts
<1>3. /\ n \in PMState /\ n.parent = m.parent /\ n.signal = m.signal /\ n.vfs = m.vfs
      /\ n.panic = m.panic
      /\ \A q \in Procs : /\ n.call[q] = IF q = p THEN NONE ELSE m.call[q]
                          /\ q \in n.taken <=> q \in m.taken /\ q # p
  BY <1>2 DEF Freed
<1>4. \A q \in Procs : /\ Is(n, q, "IN_USE") <=> Is(m, q, "IN_USE") /\ q # p
                       /\ Is(n, q, "EXITING") <=> Is(m, q, "EXITING") /\ q # p
                       /\ Is(n, q, "VFS_CALL") <=> Is(m, q, "VFS_CALL") /\ q # p
                       /\ Is(n, q, "UNPAUSED") <=> Is(m, q, "UNPAUSED") /\ q # p
                       /\ Is(n, q, "REPLY") <=> Is(m, q, "REPLY") /\ q # p
  BY <1>2 DEF Freed, Flags
<1>5. \A q \in Procs : ~Due(n, q)
  BY <1>1, <1>3, <1>4, DueMeans DEF Cleared
<1>6. NONE # "child" /\ NONE # "caught"
  BY ProcsAssumption
<1>7. ASSUME NEW q \in Procs PROVE Slot(n, q)
  <2>1. Slot(m, q)
    BY <1>1 DEF Base
  <2>2. CASE q = p
    BY <1>1, <1>3, <1>4, <1>6, <2>2 DEF Slot
  <2>3. CASE q # p
    BY <1>3, <1>4, <2>1, <2>3 DEF Slot
  <2> QED  BY <2>2, <2>3
<1>8. ASSUME NEW q \in Procs, NEW s \in Requests, <<q, s>> \in n.vfs PROVE Served(n, q, s)
  <2>1. Served(m, q, s) /\ q # p
    BY <1>1, <1>3, <1>8 DEF Base, Cleared
  <2>2. s = "fork" => ForkAwaited(n, q)
    <3> SUFFICES ASSUME s = "fork" PROVE ForkAwaited(n, q)
      OBVIOUS
    <3>1. ForkAwaited(m, q) /\ m.parent[q] \in Procs
      BY <1>1, <2>1 DEF Served, PMState
    <3>2. m.parent[q] = INIT_PROC_NR \/ m.parent[q] # p
      BY <3>1 DEF ForkAwaited
    <3> QED  BY <1>3, <1>4, <1>5, <3>1, <3>2 DEF ForkAwaited
  <2> QED  BY <1>3, <1>4, <1>5, <2>1, <2>2 DEF Served
<1>9. Base(n)
  BY <1>1, <1>3, <1>4, <1>7, <1>8, ProcsAssumption DEF Base
<1>10. (\A q \in Procs \ {p} : Quiet(n, q)) /\ ~Is(n, p, "UNPAUSED")
  BY <1>3, <1>4 DEF Cleared, Quiet
<1>11. Awaited(n)
  BY <1>5 DEF Awaited
<1> QED  BY <1>9, <1>10, <1>11 DEF Between

\* The parent of a child whose fork is answered waits for nothing else.
LEMMA ParentUnasked ==
  ASSUME NEW m, NEW p \in Procs, Cleared(m, p), WasServed(m, p, "fork"),
         NEW n, Base(n), n.call = m.call, n.taken = m.taken,
         \A q \in Procs : \A s \in Requests :
            <<q, s>> \in n.vfs => <<q, s>> \in m.vfs \/ s = "exit",
         \A q \in Procs : n.parent[q] # INIT_PROC_NR => n.parent[q] = m.parent[q],
         Awaited(n), NEW e, e = setreply(n, m.parent[p], "fork")
  PROVE  /\ Base(e) /\ Awaited(e) /\ (\A q \in Procs : Quiet(n, q) => Quiet(e, q))
         /\ \A f \in Flags : Is(e, p, f) => Is(n, p, f) \/ f = "REPLY"
<1>1. m \in PMState /\ n \in PMState /\ m.parent[p] \in Procs /\ "fork" \in Blocks
  BY DEF Cleared, Base, PMState, Blocks, Calls
<1>2. PICK parent \in Procs : parent = m.parent[p]
  BY <1>1
<1>3. \/ parent = INIT_PROC_NR
      \/ /\ n.call[parent] = "fork" /\ parent \in n.taken
         /\ \A d \in Procs : <<d, "fork">> \in m.vfs => m.parent[d] # parent
  BY <1>2 DEF WasServed
<1>4. Is(n, parent, "IN_USE")
  <2>1. CASE parent = INIT_PROC_NR
    BY <2>1 DEF Base
  <2>2. CASE parent # INIT_PROC_NR
    BY <1>3, <2>2, ProcsAssumption DEF Base, Slot, Calls
  <2> QED  BY <2>1, <2>2
<1>5. Unasked(n, parent)
  <2>1. ASSUME NEW r \in {"set", "exec", "fork"}, parent # INIT_PROC_NR, <<parent, r>> \in n.vfs
        PROVE  FALSE
    BY <1>3, <2>1 DEF Base, Served, Requests
  <2>2. ASSUME NEW c \in Procs, parent # INIT_PROC_NR, <<c, "fork">> \in n.vfs,
               n.parent[c] = parent
        PROVE  FALSE
    <3>1. <<c, "fork">> \in m.vfs /\ m.parent[c] = parent
      BY <2>2 DEF Requests
    <3> QED  BY <1>3, <2>2, <3>1
  <2> QED  BY <2>1, <2>2 DEF Unasked
<1>6. Replied(n, e, parent, "fork")
  BY <1>1, <1>2, SetreplyFacts
<1>7. /\ Base(e) /\ \A q \in Procs : Quiet(n, q) => Quiet(e, q)
      /\ parent = INIT_PROC_NR \/ Is(n, parent, "EXITING")
            \/ (n.call[parent] = "fork" /\ parent \in n.taken) =>
            (Awaited(n) => Awaited(e))
  BY <1>1, <1>4, <1>5, <1>6, ReplyBase
<1>8. Awaited(e)
  BY <1>3, <1>7
<1>9. \A f \in Flags : Is(e, p, f) => Is(n, p, f) \/ f = "REPLY"
  BY <1>6 DEF Replied
<1> QED  BY <1>7, <1>8, <1>9
LEMMA AnsweredGood ==
  ASSUME NEW m, NEW p \in Procs, Cleared(m, p), NEW r \in Requests, WasServed(m, p, r),
         NEW ok \in BOOLEAN, NEW n, n = Answered(m, p, r, ok)
  PROVE  Between(n, p) /\ Awaited(n)
<1>1. m \in PMState /\ Base(m) /\ Awaited(m)
  BY DEF Cleared, Base, Awaited
<1>2. CASE r = "set"
  BY <1>2, OwnReply DEF Answered, WasServed
<1>3. CASE r = "exec" /\ ~ok
  <2>1. n = setreply(m, p, "exec")
    BY <1>3 DEF Answered
  <2> QED  BY <1>3, <2>1, OwnReply DEF WasServed
<1>4. CASE r = "exec" /\ ok
  <2>1. n = [m EXCEPT !.call[p] = NONE, !.taken = @ \ {p}]
    BY <1>4 DEF Answered
  <2> QED  BY <1>4, <2>1, ExecStarts DEF WasServed
<1>5. CASE r = "exit"
  <2>1. n = exit_restart(m, p)
    BY <1>5 DEF Answered
  <2> QED  BY <1>5, <2>1, ExitEnds DEF WasServed
<1>6. CASE r = "fork" /\ ok
  <2>1. PICK c : c = setreply(m, p, "child")
    OBVIOUS
  <2>2. Between(c, p) /\ Awaited(c) /\ Replied(m, c, p, "child")
    BY <1>6, <2>1, OwnReply DEF WasServed
  <2>3. n = setreply(c, m.parent[p], "fork")
    BY <1>6, <2>1 DEF Answered
  <2>4. /\ c.call = m.call /\ c.taken = m.taken /\ c.vfs = m.vfs /\ c.parent = m.parent
        /\ Base(c)
    BY <2>2 DEF Replied, SameCalls, Between
  <2>5. /\ Base(n) /\ Awaited(n) /\ (\A q \in Procs : Quiet(c, q) => Quiet(n, q))
        /\ \A f \in Flags : Is(n, p, f) => Is(c, p, f) \/ f = "REPLY"
    BY <1>6, <2>2, <2>3, <2>4, ParentUnasked
  <2>6. ~Is(n, p, "UNPAUSED")
    BY <2>2, <2>5 DEF Replied, Flags, Cleared
  <2> QED  BY <2>2, <2>5, <2>6 DEF Between
<1>7. CASE r = "fork" /\ ~ok
  <2>1. PICK c : c = exit_proc(m, p)
    OBVIOUS
  <2>2. Exited(m, c, p)
    BY <1>1, <2>1, ExitFacts
  <2>3. p # INIT_PROC_NR /\ Lives(m, p)
    BY <1>7 DEF WasServed, Cleared, Lives
  <2>4. /\ Base(c) /\ Untouched(m, c) /\ Quiet(c, p)
        /\ \A q \in Procs : q # p /\ Quiet(m, q) => Quiet(c, q)
    BY <1>1, <2>2, <2>3, ExitBase DEF Cleared
  <2>5. Awaited(c)
    BY <1>1, <2>4, StillAwaited
  <2>6. n = setreply(c, m.parent[p], "fork")
    BY <1>7, <2>1 DEF Answered, FailedFork
  <2>7. \A q \in Procs : \A s \in Requests :
            <<q, s>> \in c.vfs => <<q, s>> \in m.vfs \/ s = "exit"
    BY <2>2 DEF Exited
  <2>8. \A q \in Procs : c.parent[q] # INIT_PROC_NR => c.parent[q] = m.parent[q]
    BY <2>2 DEF Exited
  <2>9. c.call = m.call /\ c.taken = m.taken
    BY <2>2 DEF Exited, SameCalls
  <2>10. Base(n) /\ Awaited(n) /\ \A q \in Procs : Quiet(c, q) => Quiet(n, q)
    BY <1>7, <2>4, <2>5, <2>6, <2>7, <2>8, <2>9, ParentUnasked
  <2>11. Good(n)
    BY <2>4, <2>10 DEF Good, Cleared
  <2> QED  BY <2>10, <2>11, GoodBetween
<1>8. CASE r = "srv_fork"
  <2>1. n = m
    BY <1>8 DEF Answered
  <2> QED  BY <1>1, <2>1 DEF Between, Cleared
<1>9. CASE r = "unpause"
  <2>1. n = Set(m, p, {"UNPAUSED"})
    BY <1>9 DEF Answered
  <2>2. Marked(m, n, p, "UNPAUSED")
    BY <1>1, <2>1, SetFacts DEF Flags
  <2>3. Base(n) /\ Untouched(m, n)
    BY <1>1, <2>2, MarkBase
  <2>4. Awaited(n)
    BY <1>1, <2>3, StillAwaited
  <2>5. \A q \in Procs \ {p} : Quiet(n, q)
    BY <2>2 DEF Marked, Cleared, Quiet, Flags
  <2>6. n.signal[p] # NONE /\ ~Is(n, p, "VFS_CALL")
    BY <1>9, <2>2 DEF Marked, Flags, Cleared, WasServed
  <2> QED  BY <2>3, <2>4, <2>5, <2>6 DEF Between
<1> QED  BY <1>2, <1>3, <1>4, <1>5, <1>6, <1>7, <1>8, <1>9 DEF Requests

LEMMA HandleVfsReplyStep ==
  ASSUME PMInv, NEW p \in Procs, HandleVfsReply(p)
  PROVE  PMInv'
<1>1. PICK r \in Requests, ok \in BOOLEAN :
         /\ <<p, r>> \in pm.vfs
         /\ IF ~Is(pm, p, "VFS_CALL") \/ Is(pm, p, "UNPAUSED")
            THEN pm' = [pm EXCEPT !.panic = TRUE]
            ELSE pm' = sendreply(handle_vfs_reply([pm EXCEPT !.vfs = @ \ {<<p, r>>}], p, r, ok))
  BY DEF HandleVfsReply
<1>2. Is(pm, p, "VFS_CALL") /\ ~Is(pm, p, "UNPAUSED")
  BY <1>1 DEF PMInv, Good, Base, Served, Quiet
<1>3. PICK m : m = Clear([pm EXCEPT !.vfs = @ \ {<<p, r>>}], p, {"VFS_CALL"})
  OBVIOUS
<1>4. Cleared(m, p) /\ WasServed(m, p, r)
  BY <1>1, <1>3, ClearedFor
<1>5. PICK n : n = Answered(m, p, r, ok)
  OBVIOUS
<1>6. Between(n, p) /\ Awaited(n)
  BY <1>4, <1>5, AnsweredGood
<1>7. pm' = sendreply(IF Lives(n, p) THEN restart_sigs(n, p) ELSE n)
  BY <1>1, <1>2, <1>3, <1>5 DEF handle_vfs_reply
<1> QED  BY <1>6, <1>7, IdleGood
-----------------------------------------------------------------------------
LEMMA InitPM == Init => PMInv
<1> SUFFICES ASSUME Init PROVE PMInv
  OBVIOUS
<1>1. /\ pm.flags = [p \in Procs |-> IF p = INIT_PROC_NR THEN {"IN_USE"} ELSE {}]
      /\ pm.parent = [p \in Procs |-> INIT_PROC_NR] /\ pm.res = [p \in Procs |-> NONE]
      /\ pm.signal = [p \in Procs |-> NONE] /\ pm.call = [p \in Procs |-> NONE]
      /\ pm.taken = {} /\ pm.vfs = {} /\ pm.misled = {} /\ pm.panic = FALSE
  BY DEF Init
<1>2. pm \in PMState
  BY <1>1, ProcsAssumption DEF Init, PMState, Flags, Blocks, Sorts
<1>3. \A p \in Procs : \A f : Is(pm, p, f) <=> p = INIT_PROC_NR /\ f = "IN_USE"
  BY <1>1 DEF Is
<1>4. \A p \in Procs : ~Due(pm, p)
  BY <1>2, <1>3, DueMeans
<1>5. \A p \in Procs : pm.call[p] = NONE /\ pm.signal[p] = NONE
  BY <1>1
<1>6. \A p \in Procs : Slot(pm, p)
  BY <1>3, <1>5, ProcsAssumption DEF Slot
<1>7. Base(pm)
  <2>1. pm.call[INIT_PROC_NR] # "exit"
    BY <1>5, ProcsAssumption DEF Calls
  <2> QED  BY <1>1, <1>2, <1>3, <1>5, <1>6, <2>1, ProcsAssumption DEF Base
<1>8. \A p \in Procs : Quiet(pm, p)
  BY <1>3, <1>5 DEF Quiet
<1> QED  BY <1>1, <1>4, <1>7, <1>8 DEF PMInv, Good, RightAnswers

\* What PM knows of a process while VFS works for it holds after every round of
\* the main loop, and so does that no reply is left over: main.c:main,
\* handle_vfs_reply.
THEOREM WorkIsKnown == Spec => []PMInv
<1>1. PMInv /\ [Next]_vars => PMInv'
  <2> SUFFICES ASSUME PMInv, [Next]_vars PROVE PMInv'
    OBVIOUS
  <2>1. CASE UNCHANGED vars
    BY <2>1 DEF vars, PMInv, RightAnswers
  <2>2. ASSUME NEW p \in Procs, SendCall(p) PROVE PMInv'
    BY <2>2, SendCallStep
  <2>3. ASSUME NEW p \in Procs, HandleCall(p) PROVE PMInv'
    BY <2>3, HandleCallStep
  <2>4. ASSUME NEW p \in Procs, HandleVfsReply(p) PROVE PMInv'
    BY <2>4, HandleVfsReplyStep
  <2>5. ASSUME NEW p \in Procs, Signal(p) PROVE PMInv'
    BY <2>5, SignalStep
  <2> QED  BY <2>1, <2>2, <2>3, <2>4, <2>5 DEF Next
<1> QED  BY <1>1, InitPM, PTL DEF Spec

\* handle_vfs_reply's panics are never reached: an answer of VFS finds the
\* process marked as VFS's, and no signal half dealt with.
THEOREM NeverPanics == Spec => []NoPanic
<1>1. PMInv => NoPanic
  BY DEF PMInv, Good, Base, NoPanic
<1> QED  BY <1>1, WorkIsKnown, PTL

\* sendreply answers only processes that are blocked in the call the reply is
\* for, INIT apart; no reply outlives the call of a process killed meanwhile.
THEOREM RepliesAreAwaited == Spec => []RightAnswers
<1>1. PMInv => RightAnswers
  BY DEF PMInv
<1> QED  BY <1>1, WorkIsKnown, PTL
=============================================================================

# CS551 assignments: models, model checking and proofs

The repository holds three projects of an operating systems course, the last
two on MINIX 3:

* **project2** adds ordered multicast groups to MINIX's process manager (PM);
* **Project3** adds undeleting of files: a user tool, four VFS calls and four
  requests to the MFS file server;
* **CS551P1** is a shell, with a small linked-list library.

This directory models their logic in TLA+, checks small instances with TLC and
proves with TLAPS, for every instance, the safety of the group table and what its
receivers get, the lock discipline of VFS's calls, that PM's replies are awaited,
what undelete may do to a file, the link counts and the tree of MFS's
directories, truncation, the list, and which processes of the shell run, read and
are piped together when; three of these are refinements of abstract specifications.

## Inventory

| component | state | operations | hard behaviour |
|---|---|---|---|
| group table, `project2/grpmsgdef.c` | `GroupsList` (name, senders, receivers, 50 items with their readers, open flag), `numGroups` | open, close, recover, join as sender or receiver, send, receive, init | long call sequences that reuse slots; receivers that join between readings; lists without a capacity test; prefix matching of names |
| PM wrappers, `project2/misc.c` 500-606 | none | one per call | text pointer of `mreceive` |
| client, `project2/project.c` | place in its loops | choices 1-7 | polling, draining while others send and the operator closes |
| PM main loop, `project2/main.c` | process table flags, pending replies | receive a message, dispatch, reply; answers of VFS; signals | a process killed between call and reply; a fork that fails late; a signal that must wait for VFS |
| list, `CS551P1/CS551P1/list.c` | nodes with two links, `head`, `tail`, `len`, iterators | push, pop, find, at, remove, destroy, iterate | an iterator that lives while nodes are pushed, popped and freed |
| shell, `CS551P1/CS551P1/main.c` | environment, alias file, processes, pipes | parse, run a command, read lines, ctrl-c, alias | nesting of operators; who waits for whom; pipe ends left open; forks that fail; ctrl-c in every process |
| undelete tool, `Project3/p3_code/testp3.c` | steps of a choice | delete, undelete, rcmkdir | others act between its call and its `mv` |
| undelete in MFS, `mfs/new.c` | `rcdirs`, `rcnodes`, inodes it never puts | rcmkdir, damageinode, restoreinode | records never dropped; inode numbers that go on to other files |
| undelete in VFS, `vfs/new.c`, end of `vfs/request.c` | locks during a call | pass a request to MFS | a volume unlocked before the request that is sent to it |
| MFS `mfs/link.c` | directory entries, link counts, inodes in memory | link, unlink, rmdir, rename, truncate | rename replaces and updates `..`; error paths must put every inode |
| VFS `vfs/link.c`, rest of `vfs/request.c` | locks, references, grants, lengths of files | link, unlink, rename, truncate, symlinks, requests | two directories and a volume to lock, which may be one; a dozen early returns; removals that must be alone |

Components call downwards: the client traps into PM, whose main loop calls one
wrapper for one message, and the wrapper calls the table. The undelete tool
traps into VFS, which asks the MFS of the root volume; the tool then runs `mv`
or `rm`, which come back to MFS as renames and unlinks. The shell and its list
stand alone.

What makes each correct is in the properties below; what is hard to test is in
`PROJECT.json`, "hazards", each with the property that would catch it.

## Modules

| module | models | composed of |
|---|---|---|
| `GroupMsg` | the group table: one action per function, with its checks in the order of the code | |
| `GroupDiscipline` | `GroupMsg` with a note of what careless callers did | EXTENDS `GroupMsg` |
| `Multicast` | what a group promises: an unordered, bounded multicast | abstract |
| `GroupHistory` | `GroupMsg` with what was sent and received; its refinement of `Multicast` | EXTENDS `GroupMsg`, INSTANCE `Multicast` |
| `GroupProofs` | theorems about the group table, its count and its history | EXTENDS `GroupHistory`, `GroupDiscipline` |
| `GroupClients` | `project.c` as publisher, receiver and operator, on PM's wrappers | EXTENDS `GroupMsg` |
| `PMLoop` | PM's main loop, replies, VFS's answers and signals | |
| `PMLoopProofs` | theorems about `PMLoop` | EXTENDS `PMLoop` |
| `Deque` | a sequence with two ends | abstract |
| `List` | `list.c` with one iterator; its refinement of `Deque` | INSTANCE `Deque` |
| `ListProofs` | theorems about `List` | EXTENDS `List` |
| `Undelete` | the undelete tool of several users, VFS's calls and MFS's tables | |
| `UndeleteProofs` | theorems about `Undelete` | EXTENDS `Undelete` |
| `VfsLocks` | the calls of `vfs/link.c` and `vfs/new.c` as threads that lock volumes and files | |
| `VfsLocksProofs` | theorems about `VfsLocks` | EXTENDS `VfsLocks` |
| `MfsTree` | link, unlink, rmdir and rename of MFS on the directories of a volume | |
| `MfsTreeProofs` | theorems about `MfsTree` | EXTENDS `MfsTree` |
| `SparseFile` | what truncating and freeing a range promise of a file | abstract |
| `MfsTruncate` | truncate and freeing a range in MFS, to the zone; its refinement of `SparseFile` | INSTANCE `SparseFile` |
| `MfsTruncateProofs` | theorems about `MfsTruncate` | EXTENDS `MfsTruncate` |
| `ShellParse` | the shell's parser, on lines of tokens | |
| `ShellOrder` | what becomes of parentheses and commas before a line is parsed | EXTENDS `ShellParse` |
| `Shell` | the shell, the processes it forks and their pipes | EXTENDS `ShellOrder` |
| `ShellProofs` | theorems about `Shell` | EXTENDS `Shell` |
| `MC...` | the instances for TLC | |

### How state and actions correspond to the code

**GroupMsg.** `groups[i]` is `GroupsList[i]`. An array with a counter
(`senderList` and `curr_num`, `ReceiverList` and `num_of_read_complete`) is a
sequence, and `iList.curr_num`, which nothing reads, is left out. `reply` is
what the function returned and the text it copied. Names are members of a set,
and `Prefix` is what `strncmp(slot, name, strlen(name))` sees of them; the empty
and the over-long name are values of their own, because the checks treat them
apart. `Named` is the search of open, close and recover (every slot, open or
not) and `Found` the search of the others (the first `numGroups` slots, open
ones): they differ in the code and differ here. A write past the end of a list
and a read past `GroupsList` set `fault`, after which nothing is claimed.

**GroupClients.** The wrappers copy arguments and call the function, so they
are its action. `mreceive` passes an array of unset pointers: the copy works
or PM faults, a nondeterministic choice. `pc` is the place of a receiver in
the loops of choice 6. `project.c` as committed has a path pasted into line 105;
it is read as if it were a comment.

**GroupHistory** leaves `add_sender_to_group` out (its `HNext` is `Next` without
it): senders are asked for by no other call, and `group_table` has them.

**PMLoop.** One variable, the record `pm`, holds what PM, the processes and VFS
know; a round of the loop applies one function of the code after another to it,
so that `sendreply(handle_vfs_reply(...))` is a step, as it is one message in the
code. `flags`, `parent` and `res` are fields of `mproc`; `call` and `taken` are
where a process is blocked, `vfs` what VFS has yet to answer. A reply names the
call it answers, which the code need not store: the process that gets it is
`misled` if it waits for another. `main.c` has the loop, `setreply`,
`sendreply`, `handle_vfs_reply` and the signal callback; what it calls
(`call_vec`'s handlers, `exit_proc`, `exit_restart`, `restart_sigs`, `tell_vfs`)
is outside the repository and modelled from its use there. Waiting for
children, tracing, core dumps and the reboot are left out. A process VFS works
for makes no calls, as the kernel or VFS holds it. A signal comes at any time: one
for a process whose setuid, exec or fork VFS works on waits until the end of
`handle_vfs_reply`, one that is caught by a process that waits for anything else makes
PM have VFS unpause it first. Only between the sending of a call and its receipt by PM
does a caught signal not get through, as the kernel cannot stop a process that is
sending (`SortsFor`); it comes when PM has the call. `misled` and `panic` are
history.

**List.** `node` is the heap, `allocated` the nodes not yet freed. `passed` and
`disturbed` are history. The searches with an iterator of their own
(`list_find`, `list_at`) are functions of the walk they make.

**Undelete.** A directory stands for its inode number, a file for its contents.
`saved[n, d, i]` is `/tmp/n.d.i`, the name the tool gives. `kept` and `ghosts`
are the inodes that `fs_restoreinode` got and never put: a number got while it
had links is never given to another file, one got while it was free leaves an
inode without links in memory that a later look may find. Each system call and
each `mv` or `rm` is a step; tools of several users interleave between them.

**VfsLocks.** VFS gives a call a thread, and threads give way only where they
wait: for a lock or for a file server. Those waits are the steps, and
`thread[t].at` says at which one `t` is; `vp`, `vmp`, `vp2`, `vmp2` and `vp2_l` are
the variables of the code. The path lookup and the locks are outside the
repository: a lookup locks the volume, has the file server walk the path, then
locks the vnode; what the thread has locked already is not locked again, which
the code sees as a NULL pointer; a lookup that fails keeps nothing. `fault`
notes an unlock or a put of something not held. `do_unlink` is unlink and rmdir, `report`
stands for `do_inodeviewer` and `do_rcmkdir`, which unlock before their request,
`record` for `do_damageinode` and `do_restoreinode`. Names, modes and permissions
are choices. The file that is linked is not a directory; the file looked up
under a sticky directory is on the directory's volume. `size` is the length in
the file server, `v_size` the one in VFS.

**MfsTree.** MFS has one thread, so a handler is one step. `entry[d][n]` is
what `search_dir` finds, with `.` and `..` as entries like others; the helpers
(`Enter`, `Delete`, `unlink_file`, `remove_dir`) work on a record of entries and
link counts, in the order of the code, and `Settle` is the `put_inode` at the
end: an inode that has no links and that VFS does not hold (`held`) is free.
Whether the disk is full is chosen at each call; on a full disk an entry can
still be written where the same call removed one (`Room`). `Above` is the walk
up the `..` entries with which rename looks for a directory moved below itself.
`dirlinks` is history: the superuser has given a directory a second name, after
which the directories are no tree, as a comment in `fs_link` warns. One thing the
superuser can do is left out: linking a `.` or `..` into a directory that lost
them by `rmdir` of its other name. The volume is the root volume, so that
ELEAVEMOUNT does not arise, and it is written to. Creating, mounting and the
inodes VFS holds are the parts of MFS outside `link.c`.

**MfsTruncate.** A byte is zero or one and a range in a zone is zeroed at once, not block by
block. `CanFree`, `FreedZones` and the two ends of `freesp_inode` follow its
conditions; `clear_zone` and writing are outside `link.c`.

**ShellParse.** A line is a sequence of tokens, so `gettoken` and `peek` are
`Token`. Each parser function begins at a position and returns its command and
where it ended; where the code loops, `Until` and `Beyond` are where the loop
stops. `Error` is that the parser wrote a message and ended the child.

**ShellOrder.** `changesequence` works on positions in the text; here they are
positions among tokens, which is the same for words that begin and end with a
letter or digit. `Letters` are the words of one character, since two tests
compare positions with the ends of the text. `Fault` is a line on which the C
code reads or writes outside its arrays. Nothing is claimed for those. The code calls
itself for as long as there is a `(` or a `,`, the model for a number of rounds that
`GroupsComeToAnEnd` shows to be enough.

The parser and `changesequence` are pure, so both were also compared with the
compiled C functions, outside this project: they agree on all lines of up to
five tokens (parser) and on all with matching parentheses of up to six
(`changesequence`; an address sanitizer confirmed each sampled `Fault`).

**Shell.** `proc[p]` is a process: `do` is what it is at, and each fork, pipe,
wait, read and write is a step of its own. `own` are the pipes of which it has
both ends, `in` and `out` the pipes behind its descriptors 0 and 1. Any fork,
pipe or open may fail. What the kernel does at an exit (zombies, orphans,
pipes whose last writer or reader is gone) is external, and so are the
programs, of which there are four: one that writes without end, one that writes
once, one that copies, one that reads once. A child given unmatched parentheses
runs nothing and falls out of the `if` into the loop, as in the code; ctrl-c
kills the programs and sends every other process to the question of `ctrl_c`.
`turn`, `stage`, `bg` and `strays` are history.

## Runs

| run | question | bounds |
|---|---|---|
| `group_table` | are names unique, what does `numGroups` count, whatever callers do? | 2 slots, 3 names one of which is a prefix of another, an empty and an over-long name, 2 senders for 1 place, every list and buffer of size 1 |
| `history` | do members, items and readers stay consistent, what does each receiver get, is `HistoryInv` an invariant and every step one of `Multicast`? | 1 slot, 2 groups that take it in turn, 2 items, 3 receivers for 2 places, 3 messages |
| `clients` | do the programs read everything and end when the group is closed? | 3 publishers, 2 receivers, 2 items, the group opened twice |
| `list` | do both directions agree, is an iteration whole, is it a deque? | 3 nodes, 2 values |
| `shell` | does every line end, does the shell prompt only then, do pipes join the right programs; are lines parsed as they are written? | 6 processes, 2 pipes that hold 1, 6 lines, 2 inputs (a line, exit or ctrl-c); the parser on every line of up to 4 tokens, 2 words and 4 operators; `changesequence` on groups two deep with up to two words on each side |
| `undelete` | is what is in `/tmp` recorded, and does it leave only when asked for? | 2 directories on 2 volumes, 2 files of one name, 2 inode numbers, 2 users, 2 records |
| `mfs_tree` | do link counts, `.`, `..` and the tree agree, do failures change nothing, do mount points stay? | the root and 3 inodes, 3 names, `LINK_MAX` 4; VFS holds one inode besides the root; a directory with two names only among 3 inodes without files |
| `truncate` | are exactly the bytes of the range zeroed and the zones behind the end freed? | zones of 3 bytes, at most 8 bytes, so that the last zone is cut short |
| `vfs_locks` | does a call give back what it took, are removals alone, do calls return? | 2 threads, 2 volumes, 3 directories, 2 of them on one volume, a file on the same, 2 lengths |
| `pm_loop` | is every call answered, once, and none but the caller; does `handle_vfs_reply` panic; are signals forgotten? | INIT and 2 slots |

Why these are enough: a slot is reused by a second group, an item slot by a third and fourth
message, a receiver joins before, between and after readings, every list
reaches its end and one more, an index falls in every place of a list with a
first, a middle and a last node; a directory is moved into one two levels down,
replaced, removed while in use, and has its link count at the limit; a range
begins and ends at, before and after the edge of a zone and the end of the
file; a pipeline of three programs takes all pipes and a second line comes while
the first runs in the background, when processes or pipes may be gone. Two
threads meet on one volume, in one directory, in two of one volume and across
volumes, and a rename is given one directory twice; the locks are taken by pairs,
so that a third thread adds waiting but no new pair, and `NoOtherDeadlock` is proved for any number. A child of INIT can fork
a grandchild whose parent is killed while VFS works for it, and no slot is left for a
third.
`numGroups` has no bound of its own and is cut
by a constraint one or two outside `0 .. MAX_GROUPS`; `MaxSends` and `MaxOpens`
bound the history and the operator, `MaxInputs` the user of the shell. The arrays of Undelete are not cut: the
model stops at the write behind the last place, as it says nothing after it.

`CHECK_DEADLOCK FALSE` is set for `clients`, `shell` and `vfs_locks`: when all programs have
ended and the operator has no openings left, or the user types no more, the
system stops; VFS's calls can block one another for ever (below).

**Fairness** (`CFairness`): weak fairness of each receiver's next call. A
program is blocked from its request to PM's reply, PM takes requests in the
order of the kernel's queue and every handler ends, so a program that has a
call to make gets to make it. Publishers and the operator need not act.
`Fairness` of `Shell`: each process gets to run (weak fairness of its steps);
the user need not type or answer. The lines of the run are such that their last
program ends by itself or at the end of its input. `Fairness` of `VfsLocks`: strong
fairness of a thread's steps while it serves a call, because a lock that is
freed again and again goes to those that wait in turn, and file servers take
requests in the order they came; calls need not come. `Fairness` of `PMLoop`: PM takes every message and VFS
answers every request (weak fairness of `HandleCall` and `HandleVfsReply`);
processes need not call and signals need not come.

### Disagreements with documents, shown by a run each

| run | the document says | the code does |
|---|---|---|
| `receiver_consistency` | Requirement.md: same order for all receivers | the lowest unread item slot is read and the lowest free one is filled: a later message overtakes an earlier one, for one receiver only |
| `undelete_loss` | the tool's menu: "undelete a file" | on the root volume the saved file is removed, since `mv` kept its inode in use |

More are visible without a run of their own. After a group in a lower slot is
closed, an open one above it is "not found", since most searches stop at
`numGroups`, though Requirement.md asks for several groups; `CountsOpenGroups`
says what that bound is, and which open groups it can miss: those behind a closed
one, and any when closed groups have been closed again (tests.sh does that). tests.sh opens `g1` after closing
it, which is refused, as a closed group keeps its name until another takes the
slot. A message for `g` goes to `g1` if that lies in an earlier slot, as names
are compared over the length of the one given. A line with unmatched
parentheses leaves a second shell behind, so that `exit` ends only that one, and
a ctrl-c answered with no may leave several, of which a child of a pipe still has
the pipe in place of its input or output; `PromptWhenDone`, `InTurn`, `Wired` and
`LineEnds` are stated for as long as there is none (`strays = 0`). Of `changesequence`:
`(a),(bb,cc),dd` leaves a `)` in the line, `a;(b)` runs `b` first, `((a),b),c`
pipes `a` into `b` though `(a),b` runs one after the other, and `a,(b),c` becomes
`b;a;c` but `ls,(b),c` becomes `b;ls|c`; `ParenthesesFirst` is what holds. In
`convertalias` a line that ends in a space makes the child loop for ever at the
byte before the empty last word. The comment
at `fork1` says that it ends the process when fork fails; it returns. Under one publisher that never
stops, `EveryMessageRead` fails (the low item slot is refilled before the high
one is read), which is why `clients` has publishers that end; and
`OrderedWhileRising` says when the order of delivery is the order of sending.

VFS's calls can wait for one another for ever in two ways, which
`DeadlocksKnown` names and beyond which there is none. Two renames, each from one volume to the
other, hold a directory each and want the other's: EXDEV is tested only after
both are locked. And a removal waits for the readers of its volume to leave with
its directory locked, while a reader wants that directory; this one rests on the assumption that a
lookup keeps its volume while it waits for a vnode, which the repository does
not show.

One reply of PM goes to a process that does not wait for it: when the parent of
a fork is killed before VFS has answered, its child is INIT's, and INIT gets the
answer; the comments at `project2/main.c:483` and `:492` say that it wakes up the
parent. `RightAnswers` excepts INIT and no other.

## Proofs

The theorems hold for every value of the constants under the named assumptions,
which TLC evaluates in the runs. Each rests on an inductive invariant, as none of
the properties is inductive by itself.

**The group table.** `GroupProofs` proves, for every size of the table and lists and every set of
names, processes and messages (finite or not):

| theorem | says |
|---|---|
| `Inductive` | `Spec => []IInv` |
| `TypeCorrect` | the table stays well formed |
| `NamesAreUnique` | no name is in two slots |
| `MembersAreDistinct` | no process is on a list twice |
| `NoStaleReaders` | readers of live items are receivers of the group, each once |
| `ReadItemsReclaimed` | an item all receivers have read is not stored |
| `ReaderListFits` | an item's reader list is never overrun |
| `MemberListsFit` | with no more processes than places, nor are the member lists |
| `GroupsAreCounted` | whatever callers do, `numGroups` is the number of open groups plus `drift`, the recoveries of open groups less the closings of closed ones; a search leaves the table only if `drift` is positive, and misses an open group only behind a closed one or if `drift` is negative |

Assumptions: `SizesAssumption` (sizes are positive), `NamesAssumption` (a name
is a prefix of itself, the two special names are not names),
`MesgsAssumption`.

`ReadersFit` needs that a live item
has fewer readers than its group has receivers; that needs that readers are
receivers and that neither list repeats an element, so that one more reader
either completes the item (and deletes it) or leaves room; and this must
survive a receiver joining, a slot taken over by another group and a recovery
that keeps the receivers. `IInv` is the conjunction (`GoodItem`, `GoodGroup`)
with the unique names. There is one lemma per call (`OpenStep`, `SendStep`,
`ReceiveStep` ...), each resting on a lemma about the group it writes
(`StoredGood`, `ReadGood` ...), and on `DistinctFits`, that a sequence without
repetition is no longer than the finite set it is drawn from. `Counting`, the
invariant of `GroupsAreCounted`, is `IInv` with the count itself: each call
opens or closes one slot at most, and lemmas say what that does to the
cardinality of the open slots and to `drift`; that an open slot with none but open
ones below it is in reach follows from the count (`OpenInReach`).

**What receivers get.** `GroupProofs` also proves, of the table with its history (`HSpec`),
for any number of slots, items, receivers and messages:

| theorem | says |
|---|---|
| `HistoryInductive` | `HSpec => []HistoryInv` |
| `NothingIsLost` | `NothingLost`: what a group accepted is stored until each receiver it then had has read it |
| `RisingIsOrdered` | `OrderedWhileRising`: as long as messages fill rising item slots, a receiver reads in the order of sending |
| `PromiseIsKept` | `KeepsPromise`: every step is one of `Multicast`, or a stutter |

Assumption: `HistoryAssumption` (messages are numbered as they are sent).
`NothingLost` alone does not say that the readers noted on an item are those who got
its message, nor the order that an item's place stands for. `HistoryInv` says both of
each slot: what is stored was sent and in one item only, an item's readers are exactly
the receivers who have its message (`Matched`), what came after a receiver joined it
has or finds stored (`Whole`), and, while the slot is rising, places are in the order
sent and ahead of all a receiver has read (`Lined`). A slot given to another group
starts a new log, so that a step that takes over a slot keeps `HistoryInv` of the others
by touching nothing of them. The refinement maps the items of a slot to the messages
in transit; each call is one lemma.

**VFS's locks.** `VfsLocksProofs` proves, for any number of threads, volumes,
directories and files:

| theorem | says |
|---|---|
| `PlaceSaysWhatIsHeld` | `Spec => []VfsInv` |
| `LocksReleased` | `AllReleased`: no call returns with a lock, reference or grant, nor drops one it does not hold |
| `RemovalsAlone` | `RemovalAlone`: while a name is removed or moved no other call has a lock on the volume or a request there, but ftruncate, `do_inodeviewer` and `do_rcmkdir`, which lock no volume |
| `LengthsAgree` | `SizesAgree`: VFS's length of a file is the file's but in a truncation |
| `OneWriterPerVolume` | `Spec => []LocksInv`: one call at most may change directories of a volume |
| `NoOtherDeadlock` | `DeadlocksKnown`: calls wait for one another only in the two ways of `Known` |
| `StuckForEver` | threads that wait for one another do so for ever |

Assumption: `VfsAssumption` (files and directories are different, each has a
volume, `NULL` is neither). `VfsInv` says, for each place of each call, exactly what the
thread holds: which volumes and vnodes, where they must be its own alone, and how
many references and grants, as a function of the thread's own record; that the record is one
the call can have there (one volume given twice is locked once, so its second
pointer is NULL); and that no two threads hold a lock that excludes the other.
With that, a return drops what the place says is held, and nothing is left. A
step of one thread changes no record but its own, so the lemmas are per call,
for the thread that moves, and one lemma for all the others.

`Blockers(t)` are the threads whose locks `t` waits for, and a circle is a set of
threads of which each is blocked by one of the set (`Stuck`). `LocksInv` adds
to `VfsInv` what orders them: that the paths of a call lie on the volumes its record says
(`OnVolumes`), that link, slink, unlink and rename hold the volume of their first path against
each other, alone on it being only who has upgraded (`VolumeLocks`), and that a volume has one such
holder (`OneWriter`). A thread that waits with a vnode locked is one of those, and
holds the volume of that vnode so (`HolderWrites`). Hence in a circle nobody waits for a second volume or
for the entry of a sticky directory (its holder would be alone on a volume
and not wait, or hold a volume together with the one who waits); a link waits for a directory, which
a second link has not locked; who waits for the first volume, or the first vnode, has
nothing another could wait for; and what is left is a rename across volumes, or a
removal or rename that waits to be alone while it keeps a directory from a reader. This is for any
number of threads, so for circles of any length too, of which the run with two
threads has only the shortest; TLC also searched three threads once, 4.6
million states, and found no other. For `StuckForEver`, a step of a thread needs
that nobody blocks it (`StepGoesOn`), and leaves the locks of the others alone
(`Frame`). That a thread that nobody blocks can move speaks of ENABLED and is left to TLC:
`CallsReturn` has it.

**PM's replies.** `PMLoopProofs` proves, for any number of slots:

| theorem | says |
|---|---|
| `WorkIsKnown` | `Spec => []PMInv` |
| `NeverPanics` | `NoPanic`: an answer of VFS finds the process marked as VFS's, with no signal half dealt with |
| `RepliesAreAwaited` | `RightAnswers`: replies go to processes blocked in the call they answer, INIT apart |

Assumption: `ProcsAssumption` (INIT has a slot; `NONE` is no slot, call or
signal). `PMInv` says what is known while VFS works on a request for a process
(`Served`: it is marked, there is one request at a time, exits are of exiting
processes, the others wait in the call the request is for), that a fork's
parent waits for that fork and no other or is INIT (`ForkAwaited`), and that no
signal is left that could be dealt with (`Quiet`). It does not hold within a round: `Base` is
the part that does, `Between` what holds when the signals of one process are
still to be looked at, `Awaited` that replies not yet sent have someone who waits. One
lemma for each function of the code carries them along, and the step of an
action is their composition.

**Undelete.** `UndeleteProofs` proves, for any users, directories, files, names, inode
numbers and number of records:

| theorem | says |
|---|---|
| `MfsIsTold` | `Spec => []UndeleteInv` |
| `NoUnknownFileSaved` | `SavedIsRecorded`: a saved file has its record in MFS, unless VFS failed when it was to record it or its directory was not known (`unrecorded`) |
| `NothingLeavesUnasked` | `SavedUntilAsked`: a saved file leaves only by an undelete of its name in its directory, or in one whose number's digits begin those of its directory's (this file goes, too), or gives way to a later one of the same name, directory and number |
| `FirstDeletedComesBack` | `FirstComesBack`: what a user gets back is the file of the first record |

Assumption: `UndeleteAssumption` (directories of the root volume are directories, the digits
of a number begin those of the same, inode numbers are positive, there is a place for a record, `NONE` is no
file). Other tools act between a tool's call and its `mv`, so `UndeleteInv` says what
every tool in that gap relies on: what it is about to move has been told to MFS
(`ToldBefore`), and the number MFS gave it is still that of the first record of its name
(`AnswersFirst`); besides, a file is in one place (`InOnePlace`) and has a number then
(`Numbered`).

**MFS's directories.** `MfsTreeProofs` proves, for any finite volume, any names and any `LINK_MAX`
above 2:

| theorem | says |
|---|---|
| `TreeHolds` | `Spec => []TreeInv` |
| `CountsAreLinks` | `LinkCounts`: the link count of an inode is the number of its entries |
| `NothingIsFreedWithEntries` | `RemovedStayEmpty`: a directory without links has no entries |
| `NoHalfRename` | `FailuresChangeNothing`: a request that fails has changed nothing |
| `MountPointsKeepNames` | `MountPointsStay`: no name of a mount point is taken away |
| `DirectoriesAreATree` | `TreeShape`: each directory in use has one name, in the directory its `..` names, and is below the root |

Assumption: `TreeAssumption` (finitely many inodes and names, the root is an inode, `.` and
`..` are two names of their own, `LINK_MAX` is above 2). `TreeInv` adds to the exact counts
that only directories have entries, that a directory with entries has a name in the
directory its `..` names (`Reached`; without it a freed directory could still be
somebody's parent), and that exactly the inodes without links or holders are free.
With counts exact and a count at most `LINK_MAX` the checks of link and rename leave
room for what they add; a lemma for each helper (`Enter`, `Delete`, `unlink_file`,
`remove_dir`, `Settle`) says what it does to the number of links.

That the directories are a tree speaks of climbing, which no induction here can follow
step by step. `DirInv` therefore says it without climbing: in every set of directories
without the root, one has its parent outside the set (`Upward`). A climb of as many steps as there
are inodes that did not end would visit such a set. Moving a directory
keeps `Upward` because rename has refused targets below it: the directories met on the climb
from the target are not in the moved one's part of the tree. `OneName` is the rest of
`TreeShape`. The `..` of a moved directory can always be written, as its old one was
just removed.

**Truncation.** `MfsTruncateProofs` proves, for any sizes of zone and file:

| theorem | says |
|---|---|
| `ZonesAndHoles` | `Spec => []TruncInv` |
| `NoZoneIsLeft` | `NoZonesBehind`: no zone is left behind the end of the file |
| `FileIsSparse` | `ImplementsFile`: every step is one of `SparseFile`, or a stutter |

Assumption: `SizeAssumption` (both sizes are positive). `TruncInv` adds that what has no zone
reads as zero (`HolesAreZero`): without it a file that grows over a hole could show old
bytes, and the refinement would fail at the next write. The work is in the two
ends of a range that begin or end within a zone, which is arithmetic with division
and remainder.

**The list.** `ListProofs` proves, for any nodes and values:

| theorem | says |
|---|---|
| `ListHolds` | `Spec => []ListInv` |
| `BothDirectionsAgree` | `WellLinked`: the two walks are each other's reverse, of distinct nodes on the heap |
| `LookupsAreOfTheSequence` | `LookupsMatch`: `list_at` and `list_find` answer as the sequence does |
| `IterationsAreWhole` | `IterationIsWhole`: an iterator under which others push misses no node and returns none twice |
| `ListIsADeque` | `ImplementsDeque`: every step is one of `Deque`, or a stutter |

Assumption: `NullAssumption` (`NULL` is no node and no value). The walks are recursive in
the links, so nothing about them is inductive by itself; `ListInv` says instead that the links
are those of one sequence without repetition (`Chained`), and each operation is a lemma
that names the sequence its links have afterwards. That such a sequence is the walk follows
once, by going along both. `Reached` puts an undisturbed iterator right
behind what it has returned, counted from a place in the list that pushes shift.

**The shell.** `ShellProofs` proves, for any lines and any number of processes, pipes and
inputs:

| theorem | says |
|---|---|
| `ShellHolds` | `Spec => []ShellInv` |
| `OneShellReads` | `OneReader`: no error of fork, pipe, open or exec leads a child back to reading lines |
| `PromptsWhenDone` | `PromptWhenDone`: when the shell prompts, only the background still runs (while `strays = 0`) |
| `ParsedLinesAreProper` | a line is parsed to an error or to a list of background lines of pipes of redirected programs |
| `AcceptsWellFormed` | the parser accepts a line of tokens if and only if it is `WellFormed`, whatever its length |
| `CommasArePipes` | `changesequence` leaves a line without parentheses as it is, its commas as pipes |
| `FlatLinesParsed` | such a line is never unmatched, and it is parsed if and only if it is then `WellFormed` |
| `GroupsComeToAnEnd` | on any line with matched parentheses `changesequence` stops calling itself: no `(` and no `,` is left |
| `LinesAreInOrder` | `Spec => []OrderInv` |
| `ListsRunInTurn` | `InTurn`: nothing behind a `;` runs while something before it does (while `strays = 0`) |
| `PipesJoinNeighbours` | `Wired`: a pipe leads from a program to the next one of its part of the line (while `strays = 0`) |

Assumptions: `LinesAssumption` (a line is made of words and symbols) and `ShellAssumption`
(the lines are such that `changesequence` stays within its arrays; there is a process and a
pipe). That the shell's wait is over says only that its own child has
ended. `ShellInv` says why that suffices: a process waits at least once for each child it
has not left in the background (`Minded`), also when one of the two forks of a pipe
fails, and each process of the foreground has a parent in the foreground or the
shell, without circles (`Attended`, `Upward`'s form again); so with no child of the shell
there is no foreground. The other two cases are a shell that has ended
(`LeftBehind`) and a ctrl-c that nobody has answered (`AllAsked`).

`OrderInv` is a second invariant on top of it. Each process is where `runcmd` put it
(`Placed`: only the shell's own child runs a list, only it and those of a list run `&`, and a
pipe's right side is the only one to be a pipe), any two processes that share a pipe
are of one part of the line or of neighbours (`Mates`, of pairs, since a step changes one or
two processes and each must fit with all others), and the foreground is at one
`turn`. When a list goes on to its right side, no other process is in the foreground:
that is `ShellInv`. A pipe that is made is nobody's, so nobody disagrees about it.
It rests on the shape of a parsed command (`Proper`, a set of commands closed under taking one
apart), which holds for lines of any length: the parser's and `changesequence`'s functions
of the position have solutions (`StagesExist`, `JoinExists`), and a set of
positions that is closed under going one further has them all (`Climb`, `Descend`, from
the least counterexample). `parseredirs`, `At`, `InBackground`, `changesequence` and `Unspaced`
are written as such functions for that reason.

Which lines are accepted is proved from what a join covers (`Covers`, by `Descend`
from the end of the line): the parts that it joins begin at its first token and behind each
joining one, it is an error if and only if one of them is, and each token before
its end joins or is inside a part. Used twice, for `|` and for `;`, this takes a line
apart into its programs and the `&` between them (`ReadTo`); a program is an error if and only if an
arrow in it lacks its file or it has too many arguments (`ExecAccepts`); and a
stretch without separators is inside one program (`PlainInside`), so that
`WellFormed`, which does not know of programs, says the same. A parser that takes an `&`
only once would stop before the end of a line that is well formed.

That `changesequence` ends needs a measure, since a round may leave the line as long as it
was, or put a part of it behind: `Weight`, the line's length and twice its `(`. A round
that finds a group takes its `(` away, and what it moves lies on either side of the
group, with one mark more for each side, so that no other `(` is counted twice and the
line is no longer than before (`WeightFalls`, from `InnerCounts`, `BeforeCounts` and
`AfterCounts`). If there is a `(` but none at depth 0, which a `)` left over from an earlier round
brings about, then there is no `)` at depth 0 either (`ClosesOne`), the whole line is the
group and its first and last character go. A matched line has at most half as many `(` as
characters (`MatchedHalf`), so the rounds that `ShellOrder` allows are enough
(`SequenceSettles`), and the last of them makes each comma a pipe. A version that kept the group's
`(` would call itself for ever.

**Checked first.** Each of the inductive invariants was checked by TLC before it was
proved, on the bounds of the component's run: `HistoryInv` in `history`
itself, `TruncInv`, `UndeleteInv`, `TreeInv`, `DirInv`, `ListInv`, `ShellInv` and what
`LocksInv` adds to `VfsInv` added to the invariants of theirs.

For `OrderInv`, which was checked likewise on `shell`'s bounds, TLC used a recursive
counterpart of `Proper`, for which it has no set of commands to choose from; with three
inputs, and a list with a pipe among four lines, the search was stopped at 6.5 million
states without a violation.

**Only model-checked.** `ShortLinesParsed` and `ParenthesesFirst` compare what the parser
and `changesequence` compute with a recursive definition, for the lines of the run: that
takes RECURSIVE operators and induction over both, which is out of the prover's
reach. Of the parser it is proved which lines it accepts and what shape the result has, not that
the result has the line's tokens in their order; of `changesequence`, that it ends, and what
it does to lines without parentheses. `GroupClients` has liveness only, and liveness under fairness
(`EveryMessageRead`, `ClosingReleases`, `LineEnds`, `CallsReturn`,
`CallsAnswered`, `SignalsArrive`) stays with TLC.

## Not modelled

`lookup_groups` and the print functions (they change nothing), senders in
`project.c` (`msend` does not look at them), the stock calls of `misc.c` and
PM's start, a text of exactly `MAX_MESG_LEN` characters (it passes the check, and
its end mark falls on the byte behind it), lengths of texts beyond what the
checks tell apart, failures of `malloc`, the truncation of undelete's paths to `MFS_NAME_MAX`, removal of
directories under the undelete tool, what follows the write behind the last of
`rcnodes`' places, a full table of inodes, the balance of
`get_inode` and `put_inode` in `mfs/link.c`, `fs_rdlink`. Call tables,
headers, IDE files and scripts have no behaviour of their own. Of the shell:
aliases (`convertalias`, but for what it does to a line without any), the
PROFILE, `cd` and the banner. Of VFS: the requests of `request.c` that nothing
else in the repository makes (they are built like those that are modelled:
grants, one `sendrec`, revocation), what names, modes and permissions decide, and an unmount
between the moment `do_inodeviewer` unlocks the volume and its request. Of PM:
waiting for children, tracing, core dumps and the reboot.

## Plan

Done in this order: `GroupMsg`, `GroupDiscipline`, `GroupHistory` with `Multicast`,
`GroupClients`, `List` with `Deque`, `Undelete`, `MfsTree`, `MfsTruncate` with
`SparseFile`, `ShellParse`, `ShellOrder` and `Shell`, `VfsLocks`, `PMLoop`; the proofs of
the group table, of VFS's locks and its circles of waiting calls, and of PM's replies; the proofs of the history and its
refinement, of truncation and its refinement, of undelete, of MFS's directories,
of the list and its refinement, and of the shell.

Next:

1. `convertalias` with aliases that name aliases.

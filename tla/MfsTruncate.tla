----------------------------- MODULE MfsTruncate -----------------------------
(***************************************************************************)
(* Truncating a file of MFS and freeing a part of it (mfs/link.c): which   *)
(* bytes are zeroed, which zones are freed.  A byte is zero or one.        *)
(*                                                                         *)
(* The file is a regular one on a volume that is written to.  That a zone  *)
(* is zeroed block by block is left out, as is the cache.                  *)
(***************************************************************************)
EXTENDS Integers, FiniteSets

CONSTANTS
    ZONE,       \* zone_size, in bytes
    MAX_SIZE    \* s_max_size

ASSUME SizeAssumption == ZONE \in Nat \ {0} /\ MAX_SIZE \in Nat \ {0}

VARIABLES
    i_size,
    zones,      \* numbers of the zones the file has; the others are holes
    byte        \* the bytes of its zones; zero in the holes

vars == <<i_size, zones, byte>>

ZoneOf(p) == p \div ZONE

Positions == 0 .. (ZoneOf(MAX_SIZE - 1) + 1) * ZONE - 1

Init == i_size = 0 /\ zones = {} /\ byte = [p \in Positions |-> 0]

-----------------------------------------------------------------------------
\* A zone is zeroed from position pos for len bytes, unless it is a hole.
zerozone_range(b, pos, len) ==
    IF ZoneOf(pos) \notin zones THEN b
    ELSE [p \in Positions |-> IF p \in pos .. pos + len - 1 THEN 0 ELSE b[p]]

zerozone_half(b, pos, half) ==
    IF half = "LAST_HALF" THEN zerozone_range(b, pos, ZONE - (pos % ZONE))
    ELSE zerozone_range(b, pos - (pos % ZONE), pos % ZONE)

\* Mutant: rounded down.
ThisBlock(pos) == ZoneOf(pos) * ZONE

\* The first position of the next zone, or of this one when pos is that.
nextblock(pos) == ZoneOf(pos) * ZONE + IF pos % ZONE # 0 THEN ZONE ELSE 0

\* Mutant: the last zone is not freed when the file ends within it.
WholeZonesOnly(start, end) == ZoneOf(nextblock(start)) .. ZoneOf(end) - 1

\* The zones that are wholly freed; the last one may be only partly in the file.
FreedZones(start, end) ==
    ZoneOf(nextblock(start)) ..
      ZoneOf(end) - (IF end = i_size /\ end % ZONE # 0 THEN 0 ELSE 1)

\* The bytes from start to before end are freed, and the size is left to the
\* caller: what the bytes and the zones are then.  An empty range is refused.
CanFree(start, end) == start < end /\ start < i_size

freesp_inode(start, given) ==
    LET end == IF given > i_size THEN i_size ELSE given
        zero_last == start % ZONE # 0
        zero_first == end % ZONE # 0 /\ end < i_size
        last == IF zero_last THEN zerozone_half(byte, start, "LAST_HALF") ELSE byte
        ends == IF zero_first THEN zerozone_half(last, end, "FIRST_HALF") ELSE last
        freed == FreedZones(start, end)
    IN  IF ZoneOf(start) = ZoneOf(end - 1) /\ (zero_last \/ zero_first)
        THEN [bytes |-> zerozone_range(byte, start, end - start), zones |-> zones]
        ELSE [bytes |-> [p \in Positions |-> IF ZoneOf(p) \in freed THEN 0 ELSE ends[p]],
              zones |-> zones \ freed]

Become(f) == byte' = f.bytes /\ zones' = f.zones

\* Mutant: a file grows over what is left in its last zone.
GrowOver(size) == [bytes |-> byte, zones |-> zones]

\* clear_zone: the rest of the last zone is zeroed before the file grows.
Cleared(size) == [bytes |-> zerozone_half(byte, size, "LAST_HALF"), zones |-> zones]

truncate_inode(newsize) ==
    \/ newsize > MAX_SIZE /\ UNCHANGED vars
    \/ /\ newsize <= MAX_SIZE
       /\ i_size' = newsize
       /\ Become(CASE newsize < i_size -> freesp_inode(newsize, i_size)
                   [] newsize > i_size -> Cleared(i_size)
                   [] newsize = i_size -> [bytes |-> byte, zones |-> zones])

\* The request: truncate to start when end is 0, else free start to end.
fs_ftrunc(start, end) ==
    \/ end = 0 /\ truncate_inode(start)
    \/ end # 0 /\ CanFree(start, end)
               /\ Become(freesp_inode(start, end)) /\ UNCHANGED i_size
    \/ end # 0 /\ ~CanFree(start, end) /\ UNCHANGED vars

\* A program writes a byte.  Up to it all that was not in the file is zeroed;
\* behind it, in a zone that is new, anything may be.
Write(p) ==
    /\ i_size' = IF p < i_size THEN i_size ELSE p + 1
    /\ zones' = zones \cup {ZoneOf(p)}
    /\ \E rest \in {0, 1} :
         byte' = [q \in Positions |->
                    CASE q = p -> 1
                      [] q < p /\ q >= i_size -> 0
                      [] q > p /\ q >= i_size /\ ZoneOf(q) = ZoneOf(p)
                               /\ ZoneOf(p) \notin zones -> rest
                      [] OTHER -> byte[q]]

Next == \/ \E p \in 0 .. MAX_SIZE - 1 : Write(p)
        \/ \E start, end \in 0 .. MAX_SIZE + 1 : fs_ftrunc(start, end)

Spec == Init /\ [][Next]_vars

-----------------------------------------------------------------------------
\* No zone is left behind the end of the file, where nothing would free it:
\* truncating frees the last zone too when the file only begins it.
NoZonesBehind == \A z \in zones : z * ZONE < i_size

TypeOK == /\ i_size \in 0 .. MAX_SIZE
          /\ zones \subseteq Int
          /\ byte \in [Positions -> {0, 1}]

\* A hole has no bytes but the zeroes that are read from it.
HolesAreZero == \A p \in Positions : ZoneOf(p) \notin zones => byte[p] = 0

\* The inductive invariant.
TruncInv == TypeOK /\ NoZonesBehind /\ HolesAreZero

\* What programs read is the file of SparseFile: the ranges given to truncate
\* and free are zeroed to the byte wherever they begin and end in a zone, and
\* a file that grows shows zeroes.
Content == [k \in 1 .. i_size |-> byte[k - 1]]

File == INSTANCE SparseFile WITH content <- Content

ImplementsFile == File!Spec
=============================================================================

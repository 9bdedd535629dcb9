---------------------------- MODULE MfsTruncateProofs ----------------------------
(***************************************************************************)
(* Proofs about MfsTruncate, for any size of a zone and any largest size   *)
(* of a file: truncating leaves no zone behind the end, and what programs  *)
(* read is the file of SparseFile.                                         *)
(***************************************************************************)
EXTENDS MfsTruncate, Sequences, TLAPS

-----------------------------------------------------------------------------
\* The zone of a position is where it begins at or before it and the next one
\* begins after it.
LEMMA ZoneOfPosition ==
  ASSUME NEW p \in Int
  PROVE  /\ ZoneOf(p) \in Int /\ p % ZONE \in 0 .. ZONE - 1
         /\ p = ZoneOf(p) * ZONE + (p % ZONE)
BY SizeAssumption DEF ZoneOf

LEMMA TimesZone ==
  ASSUME NEW a \in Int, NEW b \in Int, a < b
  PROVE  a * ZONE + ZONE <= b * ZONE
BY SizeAssumption

\* A position is in the zone that begins at or before it and ends behind it.
LEMMA InZone ==
  ASSUME NEW p \in Int, NEW z \in Int, z * ZONE <= p, p < z * ZONE + ZONE
  PROVE  ZoneOf(p) = z
<1> PICK y \in Int : y = ZoneOf(p)
  BY ZoneOfPosition
<1> PICK r \in 0 .. ZONE - 1 : r = p % ZONE
  BY ZoneOfPosition
<1>1. p = y * ZONE + r
  BY ZoneOfPosition
<1>2. ZONE \in Nat /\ y * ZONE \in Int /\ z * ZONE \in Int
  BY SizeAssumption
<1>3. ASSUME y < z PROVE FALSE
  <2>1. y * ZONE + ZONE <= z * ZONE
    BY <1>3, TimesZone
  <2> QED  BY <1>1, <1>2, <2>1
<1>4. ASSUME z < y PROVE FALSE
  <2>1. z * ZONE + ZONE <= y * ZONE
    BY <1>4, TimesZone
  <2> QED  BY <1>1, <1>2, <2>1
<1> QED  BY <1>3, <1>4

LEMMA ZonesRise ==
  ASSUME NEW p \in Int, NEW q \in Int, p <= q
  PROVE  ZoneOf(p) <= ZoneOf(q)
<1> PICK y \in Int : y = ZoneOf(p)
  BY ZoneOfPosition
<1> PICK z \in Int : z = ZoneOf(q)
  BY ZoneOfPosition
<1> PICK r \in 0 .. ZONE - 1 : r = p % ZONE
  BY ZoneOfPosition
<1> PICK s \in 0 .. ZONE - 1 : s = q % ZONE
  BY ZoneOfPosition
<1>1. p = y * ZONE + r /\ q = z * ZONE + s
  BY ZoneOfPosition
<1>2. ZONE \in Nat /\ y * ZONE \in Int /\ z * ZONE \in Int
  BY SizeAssumption
<1>3. ASSUME z < y PROVE FALSE
  <2>1. z * ZONE + ZONE <= y * ZONE
    BY <1>3, TimesZone
  <2> QED  BY <1>1, <1>2, <2>1
<1> QED  BY <1>3

\* What the offset of a position in its zone says of the positions around it.
LEMMA ZoneBefore ==
  ASSUME NEW p \in Int
  PROVE  ZoneOf(p - 1) = IF p % ZONE # 0 THEN ZoneOf(p) ELSE ZoneOf(p) - 1
<1>1. PICK z \in Int : z = ZoneOf(p)
  BY ZoneOfPosition
<1>2. PICK r \in 0 .. ZONE - 1 : r = p % ZONE
  BY ZoneOfPosition
<1>3. PICK m \in Int : m = z * ZONE
  BY SizeAssumption
<1>4. p = m + r
  BY <1>1, <1>2, <1>3, ZoneOfPosition
<1>5. ZONE \in Nat /\ ZONE > 0
  BY SizeAssumption
<1>6. CASE r # 0
  <2>1. m <= p - 1 /\ p - 1 < m + ZONE
    BY <1>4, <1>5, <1>6
  <2> QED  BY <1>1, <1>2, <1>3, <1>6, <2>1, InZone
<1>7. CASE r = 0
  <2>1. PICK k \in Int : k = m - ZONE
    BY <1>5
  <2>2. (z - 1) * ZONE = k
    BY <1>3, <1>5, <2>1
  <2>3. k <= p - 1 /\ p - 1 < k + ZONE
    BY <1>4, <1>5, <1>7, <2>1
  <2> QED  BY <1>1, <1>2, <1>7, <2>2, <2>3, InZone
<1> QED  BY <1>2, <1>6, <1>7

LEMMA ZoneBehind ==
  ASSUME NEW p \in Int
  PROVE  ZoneOf(nextblock(p)) = IF p % ZONE # 0 THEN ZoneOf(p) + 1 ELSE ZoneOf(p)
<1> PICK z \in Int : z = ZoneOf(p)
  BY ZoneOfPosition
<1>1. ZONE \in Nat \ {0} /\ z * ZONE \in Int
  BY SizeAssumption
<1>2. (z + 1) * ZONE = z * ZONE + ZONE
  BY <1>1
<1>3. ZoneOf(z * ZONE) = z
  BY <1>1, InZone
<1>4. ZoneOf(z * ZONE + ZONE) = z + 1
  <2>1. (z + 1) * ZONE <= z * ZONE + ZONE /\ z * ZONE + ZONE < (z + 1) * ZONE + ZONE
    BY <1>1, <1>2
  <2> QED  BY <1>1, <2>1, InZone
<1>5. CASE p % ZONE # 0
  BY <1>4, <1>5 DEF nextblock
<1>6. CASE p % ZONE = 0
  <2>1. nextblock(p) = z * ZONE
    BY <1>1, <1>6 DEF nextblock
  <2> QED  BY <1>3, <1>6, <2>1
<1> QED  BY <1>5, <1>6

LEMMA ZoneBegins ==
  ASSUME NEW p \in Int, NEW q \in Int, p % ZONE = 0, ZoneOf(p) <= ZoneOf(q)
  PROVE  p <= q
<1>1. CASE q < p
  <2>1. ZoneOf(q) <= ZoneOf(p - 1)
    BY <1>1, ZonesRise
  <2> QED  BY <2>1, ZoneBefore, ZoneOfPosition
<1> QED  BY <1>1

\* The positions that a file can have are among those that have a byte.
LEMMA FileHasBytes ==
  ASSUME NEW p \in 0 .. MAX_SIZE - 1
  PROVE  p \in Positions
<1>1. PICK z \in Int : z = ZoneOf(MAX_SIZE - 1)
  BY ZoneOfPosition, SizeAssumption
<1>2. PICK r \in 0 .. ZONE - 1 : r = (MAX_SIZE - 1) % ZONE
  BY ZoneOfPosition, SizeAssumption
<1>3. PICK m \in Int : m = z * ZONE
  BY SizeAssumption
<1>4. MAX_SIZE - 1 = m + r
  BY <1>1, <1>2, <1>3, ZoneOfPosition, SizeAssumption
<1>5. (z + 1) * ZONE = m + ZONE
  BY <1>3, SizeAssumption
<1>6. ZONE \in Nat /\ MAX_SIZE \in Nat
  BY SizeAssumption
<1> QED  BY <1>1, <1>2, <1>4, <1>5, <1>6 DEF Positions

LEMMA PositionsAreInts == Positions \subseteq Int
BY DEF Positions

-----------------------------------------------------------------------------
Bytes == [Positions -> {0, 1}]

\* What zeroing a part of a zone leaves of the bytes b.
LEMMA RangeZeroed ==
  ASSUME NEW b \in Bytes, NEW pos \in Int, NEW len \in Int
  PROVE  /\ zerozone_range(b, pos, len) \in Bytes
         /\ \A p \in Positions : zerozone_range(b, pos, len)[p] =
              IF ZoneOf(pos) \in zones /\ p \in pos .. (pos + len) - 1 THEN 0 ELSE b[p]
BY DEF zerozone_range, Bytes

LEMMA LastHalfZeroed ==
  ASSUME NEW b \in Bytes, NEW pos \in Int
  PROVE  /\ zerozone_half(b, pos, "LAST_HALF") \in Bytes
         /\ \A p \in Positions : zerozone_half(b, pos, "LAST_HALF")[p] =
              IF ZoneOf(pos) \in zones /\ ZoneOf(p) = ZoneOf(pos) /\ pos <= p
              THEN 0 ELSE b[p]
<1>1. PICK z \in Int : z = ZoneOf(pos)
  BY ZoneOfPosition
<1>2. PICK r \in 0 .. ZONE - 1 : r = pos % ZONE
  BY ZoneOfPosition
<1>3. PICK m \in Int : m = z * ZONE
  BY SizeAssumption
<1>4. pos = m + r
  BY <1>1, <1>2, <1>3, ZoneOfPosition
<1>5. PICK len \in Int : len = ZONE - (pos % ZONE)
  BY <1>2, SizeAssumption
<1>6. (pos + len) - 1 = (m + ZONE) - 1
  BY <1>2, <1>4, <1>5, SizeAssumption
<1>7. ASSUME NEW p \in Int
      PROVE  p \in pos .. (pos + len) - 1 <=> ZoneOf(p) = z /\ pos <= p
  <2>1. ASSUME p \in pos .. (pos + len) - 1 PROVE ZoneOf(p) = z
    <3>1. m <= p /\ p < m + ZONE
      BY <1>2, <1>4, <1>6, <2>1, SizeAssumption
    <3> QED  BY <1>3, <3>1, InZone
  <2>2. ASSUME ZoneOf(p) = z PROVE p <= (m + ZONE) - 1
    <3>1. PICK s \in 0 .. ZONE - 1 : s = p % ZONE
      BY ZoneOfPosition
    <3>2. p = m + s
      BY <1>3, <2>2, <3>1, ZoneOfPosition
    <3> QED  BY <3>1, <3>2, SizeAssumption
  <2>3. (pos + len) - 1 \in Int
    BY <1>5
  <2> QED  BY <1>6, <2>1, <2>2, <2>3
<1>8. zerozone_half(b, pos, "LAST_HALF") = zerozone_range(b, pos, len)
  BY <1>5 DEF zerozone_half
<1> QED  BY <1>1, <1>7, <1>8, RangeZeroed, PositionsAreInts

LEMMA FirstHalfZeroed ==
  ASSUME NEW b \in Bytes, NEW pos \in Int
  PROVE  /\ zerozone_half(b, pos, "FIRST_HALF") \in Bytes
         /\ \A p \in Positions : zerozone_half(b, pos, "FIRST_HALF")[p] =
              IF ZoneOf(pos) \in zones /\ ZoneOf(p) = ZoneOf(pos) /\ p < pos
              THEN 0 ELSE b[p]
<1>1. PICK z \in Int : z = ZoneOf(pos)
  BY ZoneOfPosition
<1>2. PICK r \in 0 .. ZONE - 1 : r = pos % ZONE
  BY ZoneOfPosition
<1>3. PICK m \in Int : m = z * ZONE
  BY SizeAssumption
<1>4. pos = m + r
  BY <1>1, <1>2, <1>3, ZoneOfPosition
<1>5. pos - (pos % ZONE) = m /\ (m + r) - 1 = pos - 1
  BY <1>2, <1>4
<1>6. ZoneOf(m) = z
  BY <1>3, InZone, SizeAssumption
<1>7. ASSUME NEW p \in Int
      PROVE  p \in m .. pos - 1 <=> ZoneOf(p) = z /\ p < pos
  <2>1. ASSUME p \in m .. pos - 1 PROVE ZoneOf(p) = z
    <3>1. m <= p /\ p < m + ZONE
      BY <1>2, <1>4, <2>1, SizeAssumption
    <3> QED  BY <1>3, <3>1, InZone
  <2>2. ASSUME ZoneOf(p) = z PROVE m <= p
    <3>1. PICK s \in 0 .. ZONE - 1 : s = p % ZONE
      BY ZoneOfPosition
    <3>2. p = m + s
      BY <1>3, <2>2, <3>1, ZoneOfPosition
    <3> QED  BY <3>1, <3>2, SizeAssumption
  <2> QED  BY <2>1, <2>2
<1>8. zerozone_half(b, pos, "FIRST_HALF") = zerozone_range(b, m, r)
  BY <1>2, <1>5 DEF zerozone_half
<1> QED  BY <1>1, <1>5, <1>6, <1>7, <1>8, RangeZeroed, PositionsAreInts

-----------------------------------------------------------------------------
\* The bytes b and the zones z are right after the part of the file from start
\* to before end was freed.
FreedBytes(b, start, end) ==
    \A p \in Positions :
       p < i_size => b[p] = IF start <= p /\ p < end THEN 0 ELSE byte[p]

EmptyHoles(b, z) == \A p \in Positions : ZoneOf(p) \notin z => b[p] = 0

RightlyFreed(f, start, end) ==
    /\ f.bytes \in Bytes /\ f.zones \subseteq zones
    /\ FreedBytes(f.bytes, start, end)
    /\ EmptyHoles(f.bytes, f.zones)
    /\ end = i_size => \A z \in f.zones : z * ZONE < start

\* A part within one zone, of which some bytes stay.
LEMMA PartOfZoneFreed ==
  ASSUME TruncInv, NEW start \in Nat, NEW end \in 1 .. i_size, start < end,
         ZoneOf(start) = ZoneOf(end - 1),
         start % ZONE # 0 \/ (end % ZONE # 0 /\ end < i_size)
  PROVE  RightlyFreed([bytes |-> zerozone_range(byte, start, end - start),
                       zones |-> zones], start, end)
<1>1. PICK b : b = zerozone_range(byte, start, end - start)
  OBVIOUS
<1>2. end \in Int /\ i_size \in Int /\ end - start \in Int
      /\ (start + (end - start)) - 1 = end - 1
  BY DEF TruncInv, TypeOK
<1>3. b \in Bytes /\ \A p \in Positions :
                        b[p] = IF ZoneOf(start) \in zones /\ p \in start .. end - 1
                               THEN 0 ELSE byte[p]
  BY <1>1, <1>2, RangeZeroed DEF TruncInv, TypeOK, Bytes
<1>4. ASSUME NEW p \in Positions, start <= p, p < end
      PROVE  ZoneOf(p) = ZoneOf(start)
  <2>1. p \in Int /\ p <= end - 1
    BY <1>2, <1>4, PositionsAreInts
  <2>2. ZoneOf(start) <= ZoneOf(p) /\ ZoneOf(p) <= ZoneOf(end - 1)
    BY <1>2, <1>4, <2>1, ZonesRise
  <2> QED  BY <2>1, <2>2, ZoneOfPosition
<1>5. FreedBytes(b, start, end)
  <2> SUFFICES ASSUME NEW p \in Positions
               PROVE  b[p] = IF start <= p /\ p < end THEN 0 ELSE byte[p]
    BY DEF FreedBytes
  <2>1. p \in Int
    BY PositionsAreInts
  <2>2. CASE start <= p /\ p < end /\ ZoneOf(start) \notin zones
    <3>1. byte[p] = 0
      BY <1>4, <2>2 DEF TruncInv, HolesAreZero
    <3> QED  BY <1>3, <2>2, <3>1
  <2>3. CASE start <= p /\ p < end /\ ZoneOf(start) \in zones
    BY <1>2, <1>3, <2>1, <2>3
  <2>4. CASE ~(start <= p /\ p < end)
    BY <1>2, <1>3, <2>1, <2>4
  <2> QED  BY <2>2, <2>3, <2>4
<1>6. EmptyHoles(b, zones)
  BY <1>3 DEF EmptyHoles, TruncInv, HolesAreZero
<1>7. ASSUME end = i_size, NEW z \in zones PROVE z * ZONE < start
  <2>1. z \in Int /\ z * ZONE < end
    BY <1>7 DEF TruncInv, TypeOK, NoZonesBehind
  <2>2. PICK m \in Int : m = z * ZONE
    BY <2>1, SizeAssumption
  <2>3. ZoneOf(m) = z
    BY <2>1, <2>2, InZone, SizeAssumption
  <2>4. m <= end - 1
    BY <1>2, <2>1, <2>2
  <2>5. z <= ZoneOf(start)
    BY <1>2, <2>2, <2>3, <2>4, ZonesRise
  <2>6. start % ZONE # 0
    BY <1>2, <1>7
  <2>7. ASSUME start <= m PROVE FALSE
    <3>1. ZoneOf(start) = z
      <4>1. ZoneOf(start) <= ZoneOf(m)
        BY <2>2, <2>7, ZonesRise
      <4> QED  BY <2>1, <2>3, <2>5, <4>1, ZoneOfPosition
    <3>2. PICK r \in 0 .. ZONE - 1 : r = start % ZONE
      BY ZoneOfPosition
    <3>3. start = m + r
      BY <2>2, <3>1, <3>2, ZoneOfPosition
    <3> QED  BY <2>6, <2>7, <3>2, <3>3, SizeAssumption
  <2> QED  BY <2>2, <2>7
<1> QED  BY <1>1, <1>3, <1>5, <1>6, <1>7 DEF RightlyFreed

\* The first and the last zone that are freed.
FirstFreed(start) == ZoneOf(start - 1) + 1

LastFreed(end) == IF end = i_size THEN ZoneOf(end - 1) ELSE ZoneOf(end) - 1

LEMMA FreedFromTo ==
  ASSUME NEW start \in Int, NEW end \in Int
  PROVE  /\ FreedZones(start, end) = FirstFreed(start) .. LastFreed(end)
         /\ FirstFreed(start) \in Int /\ LastFreed(end) \in Int
<1>1. /\ ZoneOf(start) \in Int /\ ZoneOf(start - 1) \in Int
      /\ ZoneOf(end) \in Int /\ ZoneOf(end - 1) \in Int
  BY ZoneOfPosition
<1>2. ZoneOf(nextblock(start)) = FirstFreed(start)
  BY <1>1, ZoneBehind, ZoneBefore DEF FirstFreed
<1>3. LastFreed(end) = ZoneOf(end) - (IF end = i_size /\ end % ZONE # 0 THEN 0 ELSE 1)
  BY <1>1, ZoneBefore DEF LastFreed
<1> QED  BY <1>1, <1>2, <1>3 DEF FreedZones, FirstFreed, LastFreed

\* A freed zone has no byte of the file but those of the range.
LEMMA FreedInRange ==
  ASSUME TruncInv, NEW start \in Nat, NEW end \in 1 .. i_size, NEW p \in Int,
         p < i_size, ZoneOf(p) \in FreedZones(start, end)
  PROVE  start <= p /\ p < end
<1>1. end \in Int /\ i_size \in Int
  BY DEF TruncInv, TypeOK
<1>2. ZoneOf(p) \in FirstFreed(start) .. LastFreed(end)
  <2>1. FreedZones(start, end) = FirstFreed(start) .. LastFreed(end)
    BY <1>1, FreedFromTo
  <2> QED  BY <2>1
<1>3. /\ ZoneOf(p) \in Int /\ ZoneOf(start - 1) \in Int
      /\ ZoneOf(end) \in Int /\ ZoneOf(end - 1) \in Int
  BY <1>1, ZoneOfPosition
<1>4. ASSUME p <= start - 1 PROVE FALSE
  <2>1. ZoneOf(p) <= ZoneOf(start - 1)
    BY <1>4, ZonesRise
  <2> QED  BY <1>2, <1>3, <2>1 DEF FirstFreed
<1>5. ASSUME end <= p PROVE FALSE
  <2>1. ZoneOf(end) <= ZoneOf(p) /\ end # i_size
    BY <1>1, <1>5, ZonesRise
  <2> QED  BY <1>2, <1>3, <2>1 DEF LastFreed, FirstFreed
<1> QED  BY <1>1, <1>4, <1>5

\* A byte of the range that is in no freed zone is in the part of the first or
\* of the last zone that is zeroed.
LEMMA RangeIsZeroed ==
  ASSUME TruncInv, NEW start \in Nat, NEW end \in 1 .. i_size, NEW p \in Int,
         start <= p, p < end, ZoneOf(p) \notin FreedZones(start, end)
  PROVE  \/ start % ZONE # 0 /\ ZoneOf(p) = ZoneOf(start)
         \/ end % ZONE # 0 /\ end < i_size /\ ZoneOf(p) = ZoneOf(end)
<1>1. end \in Int /\ i_size \in Int
  BY DEF TruncInv, TypeOK
<1>2. ZoneOf(p) \notin FirstFreed(start) .. LastFreed(end)
  <2>1. FreedZones(start, end) = FirstFreed(start) .. LastFreed(end)
    BY <1>1, FreedFromTo
  <2> QED  BY <2>1
<1>3. /\ ZoneOf(p) \in Int /\ ZoneOf(start) \in Int /\ ZoneOf(start - 1) \in Int
      /\ ZoneOf(end) \in Int /\ ZoneOf(end - 1) \in Int
  BY <1>1, ZoneOfPosition
<1>4. ZoneOf(start) <= ZoneOf(p) /\ ZoneOf(p) <= ZoneOf(end - 1)
  BY <1>1, ZonesRise
<1>5. CASE ZoneOf(p) < FirstFreed(start)
  <2>1. ZoneOf(start - 1) = IF start % ZONE # 0 THEN ZoneOf(start) ELSE ZoneOf(start) - 1
    BY ZoneBefore
  <2> QED  BY <1>3, <1>4, <1>5, <2>1 DEF FirstFreed
<1>6. CASE LastFreed(end) < ZoneOf(p)
  <2>1. ZoneOf(end - 1) = IF end % ZONE # 0 THEN ZoneOf(end) ELSE ZoneOf(end) - 1
    BY <1>1, ZoneBefore
  <2>2. end # i_size
    BY <1>3, <1>4, <1>6 DEF LastFreed
  <2> QED  BY <1>1, <1>3, <1>4, <1>6, <2>1, <2>2 DEF LastFreed
<1>7. FirstFreed(start) \in Int /\ LastFreed(end) \in Int
  BY <1>1, FreedFromTo
<1>8. ZoneOf(p) < FirstFreed(start) \/ LastFreed(end) < ZoneOf(p)
  BY <1>2, <1>3, <1>7
<1> QED  BY <1>5, <1>6, <1>8

\* When the range ends with the file, no zone stays that begins in it.
LEMMA NoZoneStays ==
  ASSUME TruncInv, NEW start \in Nat, NEW z \in zones, start <= z * ZONE
  PROVE  z \in FreedZones(start, i_size)
<1>1. z \in Int /\ i_size \in Int /\ z * ZONE < i_size
  BY DEF TruncInv, TypeOK, NoZonesBehind
<1>2. PICK m \in Int : m = z * ZONE
  BY <1>1, SizeAssumption
<1>3. ZoneOf(m) = z
  BY <1>1, <1>2, InZone, SizeAssumption
<1>4. m % ZONE = 0
  <2>1. PICK r \in 0 .. ZONE - 1 : r = m % ZONE
    BY ZoneOfPosition
  <2>2. m = m + r
    BY <1>2, <1>3, <2>1, ZoneOfPosition
  <2> QED  BY <2>1, <2>2, SizeAssumption
<1>5. ZoneOf(m - 1) = z - 1
  BY <1>3, <1>4, ZoneBefore
<1>6. /\ ZoneOf(start - 1) <= ZoneOf(m - 1) /\ ZoneOf(m) <= ZoneOf(i_size - 1)
      /\ ZoneOf(start - 1) \in Int /\ ZoneOf(i_size - 1) \in Int
  BY <1>1, <1>2, ZonesRise, ZoneOfPosition
<1>7. z \in FirstFreed(start) .. LastFreed(i_size)
  BY <1>1, <1>3, <1>5, <1>6 DEF FirstFreed, LastFreed
<1> QED  BY <1>1, <1>7, FreedFromTo

\* Whole zones are freed, and a part of the zones around them is zeroed.
LEMMA ZonesFreed ==
  ASSUME TruncInv, NEW start \in Nat, NEW end \in 1 .. i_size, start < end,
         NEW last, NEW ends,
         last = IF start % ZONE # 0 THEN zerozone_half(byte, start, "LAST_HALF") ELSE byte,
         ends = IF end % ZONE # 0 /\ end < i_size
                THEN zerozone_half(last, end, "FIRST_HALF") ELSE last,
         ~(/\ ZoneOf(start) = ZoneOf(end - 1)
           /\ start % ZONE # 0 \/ (end % ZONE # 0 /\ end < i_size))
  PROVE  RightlyFreed(
           [bytes |-> [p \in Positions |->
                         IF ZoneOf(p) \in FreedZones(start, end) THEN 0 ELSE ends[p]],
            zones |-> zones \ FreedZones(start, end)], start, end)
<1>1. end \in Int /\ i_size \in Int /\ byte \in Bytes
  BY DEF TruncInv, TypeOK, Bytes
<1>2. /\ last \in Bytes
      /\ \A p \in Positions : last[p] =
           IF /\ start % ZONE # 0 /\ ZoneOf(start) \in zones
              /\ ZoneOf(p) = ZoneOf(start) /\ start <= p
           THEN 0 ELSE byte[p]
  BY <1>1, LastHalfZeroed
<1>3. /\ ends \in Bytes
      /\ \A p \in Positions : ends[p] =
           IF /\ end % ZONE # 0 /\ end < i_size /\ ZoneOf(end) \in zones
              /\ ZoneOf(p) = ZoneOf(end) /\ p < end
           THEN 0 ELSE last[p]
  BY <1>1, <1>2, FirstHalfZeroed
<1>4. PICK b : b = [p \in Positions |->
                      IF ZoneOf(p) \in FreedZones(start, end) THEN 0 ELSE ends[p]]
  OBVIOUS
<1>5. b \in Bytes
  BY <1>3, <1>4 DEF Bytes
<1>6. /\ ZoneOf(start) \in Int /\ ZoneOf(end) \in Int /\ ZoneOf(end - 1) \in Int
      /\ ZoneOf(start) <= ZoneOf(end - 1)
      /\ end % ZONE # 0 => ZoneOf(end - 1) = ZoneOf(end)
  <2>1. ZoneOf(start) <= ZoneOf(end - 1)
    BY <1>1, ZonesRise
  <2>2. end % ZONE # 0 => ZoneOf(end - 1) = ZoneOf(end)
    BY <1>1, ZoneBefore
  <2> QED  BY <1>1, <2>1, <2>2, ZoneOfPosition
<1>7. ASSUME NEW p \in Positions, start % ZONE # 0, ZoneOf(p) = ZoneOf(start), end <= p
      PROVE  FALSE
  <2>1. p \in Int /\ end - 1 <= p
    BY <1>1, <1>7, PositionsAreInts
  <2>2. ZoneOf(end - 1) <= ZoneOf(p)
    BY <1>1, <2>1, ZonesRise
  <2> QED  BY <1>6, <1>7, <2>2
<1>8. ASSUME NEW p \in Positions, end % ZONE # 0, end < i_size,
             ZoneOf(p) = ZoneOf(end), p < start
      PROVE  FALSE
  <2>1. p \in Int
    BY PositionsAreInts
  <2>2. ZoneOf(p) <= ZoneOf(start)
    BY <1>8, <2>1, ZonesRise
  <2> QED  BY <1>6, <1>8, <2>2
<1>9. FreedBytes(b, start, end)
  <2> SUFFICES ASSUME NEW p \in Positions, p < i_size
               PROVE  b[p] = IF start <= p /\ p < end THEN 0 ELSE byte[p]
    BY DEF FreedBytes
  <2>1. p \in Int
    BY PositionsAreInts
  <2>2. CASE ZoneOf(p) \in FreedZones(start, end)
    <3>1. start <= p /\ p < end
      BY <2>1, <2>2, FreedInRange
    <3> QED  BY <1>4, <2>2, <3>1
  <2>3. CASE ZoneOf(p) \notin FreedZones(start, end) /\ start <= p /\ p < end
    <3>1. b[p] = ends[p]
      BY <1>4, <2>3
    <3>2. ZoneOf(p) \notin zones => byte[p] = 0
      BY DEF TruncInv, HolesAreZero
    <3>3. \/ start % ZONE # 0 /\ ZoneOf(p) = ZoneOf(start)
          \/ end % ZONE # 0 /\ end < i_size /\ ZoneOf(p) = ZoneOf(end)
      BY <2>1, <2>3, RangeIsZeroed
    <3> QED  BY <1>2, <1>3, <2>3, <3>1, <3>2, <3>3
  <2>4. CASE ZoneOf(p) \notin FreedZones(start, end) /\ ~(start <= p /\ p < end)
    <3>1. b[p] = ends[p]
      BY <1>4, <2>4
    <3>2. last[p] = byte[p]
      BY <1>1, <1>2, <1>7, <2>1, <2>4
    <3>3. ends[p] = last[p]
      BY <1>1, <1>3, <1>8, <2>1, <2>4
    <3> QED  BY <2>4, <3>1, <3>2, <3>3
  <2> QED  BY <2>2, <2>3, <2>4
<1>10. EmptyHoles(b, zones \ FreedZones(start, end))
  <2> SUFFICES ASSUME NEW p \in Positions, ZoneOf(p) \notin zones \ FreedZones(start, end)
               PROVE  b[p] = 0
    BY DEF EmptyHoles
  <2>1. ZoneOf(p) \notin zones => byte[p] = 0
    BY DEF TruncInv, HolesAreZero
  <2> QED  BY <1>2, <1>3, <1>4, <2>1
<1>11. ASSUME end = i_size, NEW z \in zones \ FreedZones(start, end)
       PROVE  z * ZONE < start
  <2>1. z \in Int
    BY DEF TruncInv, TypeOK
  <2>2. z * ZONE \in Int
    BY <2>1, SizeAssumption
  <2>3. ~(start <= z * ZONE)
    BY <1>11, NoZoneStays
  <2> QED  BY <2>2, <2>3
<1> QED  BY <1>4, <1>5, <1>9, <1>10, <1>11 DEF RightlyFreed

\* Freeing a part of the file, or the rest of it, zeroes just that part.
LEMMA FreeingIsRight ==
  ASSUME TruncInv, NEW start \in Nat, NEW given \in Nat, CanFree(start, given),
         NEW end, end = IF given > i_size THEN i_size ELSE given
  PROVE  end \in 1 .. i_size /\ start < end
         /\ RightlyFreed(freesp_inode(start, given), start, end)
<1>1. end \in 1 .. i_size /\ start < end
  BY DEF TruncInv, TypeOK, CanFree
<1> PICK last : last = IF start % ZONE # 0
                       THEN zerozone_half(byte, start, "LAST_HALF") ELSE byte
  OBVIOUS
<1> PICK ends : ends = IF end % ZONE # 0 /\ end < i_size
                       THEN zerozone_half(last, end, "FIRST_HALF") ELSE last
  OBVIOUS
<1>2. freesp_inode(start, given) =
        IF ZoneOf(start) = ZoneOf(end - 1)
           /\ (start % ZONE # 0 \/ (end % ZONE # 0 /\ end < i_size))
        THEN [bytes |-> zerozone_range(byte, start, end - start), zones |-> zones]
        ELSE [bytes |-> [p \in Positions |->
                           IF ZoneOf(p) \in FreedZones(start, end) THEN 0 ELSE ends[p]],
              zones |-> zones \ FreedZones(start, end)]
  BY Zenon DEF freesp_inode
<1>3. CASE ZoneOf(start) = ZoneOf(end - 1)
           /\ (start % ZONE # 0 \/ (end % ZONE # 0 /\ end < i_size))
  BY <1>1, <1>2, <1>3, PartOfZoneFreed
<1>4. CASE ~(ZoneOf(start) = ZoneOf(end - 1)
             /\ (start % ZONE # 0 \/ (end % ZONE # 0 /\ end < i_size)))
  <2>1. RightlyFreed(
           [bytes |-> [p \in Positions |->
                         IF ZoneOf(p) \in FreedZones(start, end) THEN 0 ELSE ends[p]],
            zones |-> zones \ FreedZones(start, end)], start, end)
    BY <1>1, <1>4, ZonesFreed
  <2> QED  BY <1>1, <1>2, <1>4, <2>1
<1> QED  BY <1>3, <1>4

-----------------------------------------------------------------------------
\* What programs read, and how the calls change it.
LEMMA ContentIs ==
  ASSUME TruncInv
  PROVE  /\ Len(Content) = i_size /\ DOMAIN Content = 1 .. i_size
         /\ \A k \in 1 .. i_size : Content[k] = byte[k - 1] /\ k - 1 \in Positions
<1>1. i_size \in Nat /\ i_size <= MAX_SIZE /\ MAX_SIZE \in Nat
  BY SizeAssumption DEF TruncInv, TypeOK
<1>2. \A k \in 1 .. i_size : Content[k] = byte[k - 1] /\ k - 1 \in Positions
  BY <1>1, FileHasBytes DEF Content
<1>3. Content \in Seq({0, 1})
  BY <1>1, <1>2 DEF Content, TruncInv, TypeOK
<1>4. DOMAIN Content = 1 .. i_size
  BY DEF Content
<1> QED  BY <1>1, <1>2, <1>3, <1>4

\* The invariant after a step that leaves these bytes, zones and this size.
LEMMA InvOf ==
  ASSUME byte' \in Bytes, zones' \subseteq Int, i_size' \in 0 .. MAX_SIZE,
         EmptyHoles(byte', zones'), \A z \in zones' : z * ZONE < i_size'
  PROVE  TruncInv'
BY DEF TruncInv, TypeOK, NoZonesBehind, HolesAreZero, EmptyHoles, Bytes, Positions, ZoneOf

LEMMA TruncInit == Init => TruncInv /\ File!Init
<1> SUFFICES ASSUME Init PROVE TruncInv /\ File!Init
  OBVIOUS
<1>1. TruncInv
  BY SizeAssumption DEF Init, TruncInv, TypeOK, NoZonesBehind, HolesAreZero
<1>2. Content = <<>>
  BY DEF Init, Content
<1> QED  BY <1>1, <1>2 DEF File!Init

\* Freeing a part of the file leaves its size, and zeroes the part.
LEMMA FreeStep ==
  ASSUME TruncInv, NEW start \in Nat, NEW given \in Nat, CanFree(start, given),
         Become(freesp_inode(start, given)), i_size' = i_size
  PROVE  TruncInv' /\ File!Next
<1>1. PICK end : end = IF given > i_size THEN i_size ELSE given
  OBVIOUS
<1>2. PICK f : f = freesp_inode(start, given)
  OBVIOUS
<1>3. end \in 1 .. i_size /\ start < end /\ RightlyFreed(f, start, end)
  BY <1>1, <1>2, FreeingIsRight
<1>4. byte' = f.bytes /\ zones' = f.zones
  BY <1>2 DEF Become
<1>5. i_size \in 0 .. MAX_SIZE /\ zones \subseteq Int /\ MAX_SIZE \in Nat
  BY SizeAssumption DEF TruncInv, TypeOK
<1>6. TruncInv'
  <2>1. \A z \in zones' : z * ZONE < i_size'
    BY <1>3, <1>4 DEF RightlyFreed, TruncInv, NoZonesBehind
  <2> QED  BY <1>3, <1>4, <1>5, <2>1, InvOf DEF RightlyFreed
<1>7. Content' = [k \in DOMAIN Content |->
                    IF k - 1 \in start .. end - 1 THEN 0 ELSE Content[k]]
  <2> SUFFICES ASSUME NEW k \in 1 .. i_size
               PROVE  byte'[k - 1] = IF k - 1 \in start .. end - 1 THEN 0 ELSE Content[k]
    BY ContentIs DEF Content
  <2>1. Content[k] = byte[k - 1] /\ k - 1 \in Positions
    BY ContentIs
  <2>2. k - 1 < i_size
    BY <1>5
  <2>3. byte'[k - 1] = IF start <= k - 1 /\ k - 1 < end THEN 0 ELSE byte[k - 1]
    BY <1>3, <1>4, <2>1, <2>2 DEF RightlyFreed, FreedBytes
  <2> QED  BY <1>3, <1>5, <2>1, <2>3
<1>8. start \in 0 .. MAX_SIZE /\ end \in 0 .. MAX_SIZE
  BY <1>3, <1>5
<1> QED  BY <1>6, <1>7, <1>8 DEF File!Next, File!Free

\* Truncating to a smaller size frees the rest of the file.
LEMMA ShrinkStep ==
  ASSUME TruncInv, NEW n \in Nat, n < i_size,
         Become(freesp_inode(n, i_size)), i_size' = n
  PROVE  TruncInv' /\ File!Next
<1>1. PICK f : f = freesp_inode(n, i_size)
  OBVIOUS
<1>2. i_size \in 0 .. MAX_SIZE /\ zones \subseteq Int /\ MAX_SIZE \in Nat
  BY SizeAssumption DEF TruncInv, TypeOK
<1>3. RightlyFreed(f, n, i_size)
  BY <1>1, <1>2, FreeingIsRight DEF CanFree
<1>4. byte' = f.bytes /\ zones' = f.zones
  BY <1>1 DEF Become
<1>5. TruncInv'
  <2>1. \A z \in zones' : z * ZONE < i_size'
    BY <1>3, <1>4 DEF RightlyFreed
  <2>2. byte' \in Bytes /\ zones' \subseteq Int /\ EmptyHoles(byte', zones')
    BY <1>2, <1>3, <1>4 DEF RightlyFreed
  <2>3. i_size' \in 0 .. MAX_SIZE
    BY <1>2
  <2> QED  BY <2>1, <2>2, <2>3, InvOf
<1>6. Content' = [k \in 1 .. n |-> IF k <= Len(Content) THEN Content[k] ELSE 0]
  <2> SUFFICES ASSUME NEW k \in 1 .. n
               PROVE  byte'[k - 1] = IF k <= Len(Content) THEN Content[k] ELSE 0
    BY DEF Content
  <2>1. k \in 1 .. i_size /\ k - 1 < n /\ k - 1 < i_size
    BY <1>2
  <2>2. Len(Content) = i_size /\ Content[k] = byte[k - 1] /\ k - 1 \in Positions
    BY <2>1, ContentIs
  <2>3. byte'[k - 1] = byte[k - 1]
    BY <1>3, <1>4, <2>1, <2>2 DEF RightlyFreed, FreedBytes
  <2> QED  BY <2>1, <2>2, <2>3
<1>7. n \in 0 .. MAX_SIZE
  BY <1>2
<1> QED  BY <1>5, <1>6, <1>7 DEF File!Next, File!Truncate

\* Truncating to a larger size shows zeroes.
LEMMA GrowStep ==
  ASSUME TruncInv, NEW n \in Nat, i_size < n, n <= MAX_SIZE,
         Become(Cleared(i_size)), i_size' = n
  PROVE  TruncInv' /\ File!Next
<1>1. i_size \in 0 .. MAX_SIZE /\ zones \subseteq Int /\ MAX_SIZE \in Nat /\ byte \in Bytes
  BY SizeAssumption DEF TruncInv, TypeOK, Bytes
<1>2. /\ byte' \in Bytes /\ zones' = zones
      /\ \A p \in Positions : byte'[p] =
           IF ZoneOf(i_size) \in zones /\ ZoneOf(p) = ZoneOf(i_size) /\ i_size <= p
           THEN 0 ELSE byte[p]
  BY <1>1, LastHalfZeroed DEF Become, Cleared
<1>3. TruncInv'
  <2>1. EmptyHoles(byte', zones')
    BY <1>2 DEF EmptyHoles, TruncInv, HolesAreZero
  <2>2. \A z \in zones' : z * ZONE < i_size'
    <3> SUFFICES ASSUME NEW z \in zones PROVE z * ZONE < n
      BY <1>2
    <3>1. z * ZONE < i_size /\ z \in Int
      BY <1>1 DEF TruncInv, NoZonesBehind
    <3>2. z * ZONE \in Int
      BY <3>1, SizeAssumption
    <3> QED  BY <1>1, <3>1, <3>2
  <2> QED  BY <1>1, <1>2, <2>1, <2>2, InvOf
<1>4. ASSUME NEW p \in Positions, i_size <= p PROVE byte'[p] = 0
  <2>1. CASE ZoneOf(p) \notin zones
    BY <1>2, <2>1 DEF TruncInv, HolesAreZero
  <2>2. CASE ZoneOf(p) \in zones
    <3>1. PICK z \in Int : z = ZoneOf(p)
      BY ZoneOfPosition, PositionsAreInts
    <3>2. PICK m \in Int : m = z * ZONE
      BY SizeAssumption
    <3>3. ZoneOf(m) = z /\ m < i_size
      BY <2>2, <3>1, <3>2, InZone, SizeAssumption DEF TruncInv, NoZonesBehind
    <3>4. z <= ZoneOf(i_size) /\ ZoneOf(i_size) <= z /\ ZoneOf(i_size) \in Int
      <4>1. m <= i_size /\ p \in Int
        BY <1>1, <3>3, PositionsAreInts
      <4> QED  BY <1>1, <1>4, <3>1, <3>3, <4>1, ZonesRise, ZoneOfPosition
    <3> QED  BY <1>2, <1>4, <2>2, <3>1, <3>4
  <2> QED  BY <2>1, <2>2
<1>5. ASSUME NEW p \in Positions, p < i_size PROVE byte'[p] = byte[p]
  BY <1>1, <1>2, <1>5, PositionsAreInts
<1>6. Content' = [k \in 1 .. n |-> IF k <= Len(Content) THEN Content[k] ELSE 0]
  <2> SUFFICES ASSUME NEW k \in 1 .. n
               PROVE  byte'[k - 1] = IF k <= Len(Content) THEN Content[k] ELSE 0
    BY DEF Content
  <2>1. k - 1 \in Positions /\ k - 1 \in Int /\ k \in Int
    BY <1>1, FileHasBytes
  <2>2. CASE k <= i_size
    <3>1. k \in 1 .. i_size /\ k - 1 < i_size
      BY <1>1, <2>2
    <3>2. Len(Content) = i_size /\ Content[k] = byte[k - 1]
      BY <3>1, ContentIs
    <3> QED  BY <1>5, <2>1, <2>2, <3>1, <3>2
  <2>3. CASE i_size < k
    <3>1. Len(Content) = i_size /\ i_size <= k - 1
      BY <1>1, <2>1, <2>3, ContentIs
    <3> QED  BY <1>1, <1>4, <2>1, <2>3, <3>1
  <2> QED  BY <1>1, <2>1, <2>2, <2>3
<1>7. n \in 0 .. MAX_SIZE
  BY <1>1
<1> QED  BY <1>3, <1>6, <1>7 DEF File!Next, File!Truncate

\* Writing a byte, with zeroes up to it.
LEMMA WriteStep ==
  ASSUME TruncInv, NEW p \in 0 .. MAX_SIZE - 1, Write(p)
  PROVE  TruncInv' /\ File!Next
<1>1. /\ i_size \in 0 .. MAX_SIZE /\ zones \subseteq Int /\ MAX_SIZE \in Nat
      /\ byte \in Bytes /\ p \in Positions
  BY SizeAssumption, FileHasBytes DEF TruncInv, TypeOK, Bytes
<1>2. PICK rest \in {0, 1} :
        byte' = [q \in Positions |->
                   CASE q = p -> 1
                     [] q < p /\ q >= i_size -> 0
                     [] q > p /\ q >= i_size /\ ZoneOf(q) = ZoneOf(p)
                              /\ ZoneOf(p) \notin zones -> rest
                     [] OTHER -> byte[q]]
  BY DEF Write
<1>3. PICK z \in Int : z = ZoneOf(p)
  BY ZoneOfPosition
<1>4. zones' = zones \cup {z} /\ i_size' = IF p < i_size THEN i_size ELSE p + 1
  BY <1>3 DEF Write
<1>5. ASSUME NEW q \in Positions
      PROVE  byte'[q] = IF q = p THEN 1
                        ELSE IF q < p /\ q >= i_size THEN 0
                        ELSE IF q > p /\ q >= i_size /\ ZoneOf(q) = z /\ z \notin zones
                        THEN rest ELSE byte[q]
  <2>1. q \in Int
    BY PositionsAreInts
  <2> QED  BY <1>1, <1>2, <1>3, <2>1
<1>6. byte' \in Bytes
  <2>1. \A q \in Positions : byte'[q] \in {0, 1}
    BY <1>1, <1>2, <1>5 DEF Bytes
  <2>2. byte' = [q \in Positions |-> byte'[q]]
    BY <1>2
  <2> QED  BY <2>1, <2>2 DEF Bytes
<1>7. EmptyHoles(byte', zones')
  <2> SUFFICES ASSUME NEW q \in Positions, ZoneOf(q) \notin zones' PROVE byte'[q] = 0
    BY DEF EmptyHoles
  <2>1. ZoneOf(q) # z /\ q # p /\ byte[q] = 0
    BY <1>3, <1>4 DEF TruncInv, HolesAreZero
  <2> QED  BY <1>5, <2>1
<1>8. \A y \in zones' : y * ZONE < i_size'
  <2> SUFFICES ASSUME NEW y \in zones' PROVE y * ZONE < i_size'
    OBVIOUS
  <2>1. y \in Int
    BY <1>1, <1>4
  <2>2. PICK m \in Int : m = y * ZONE
    BY <2>1, SizeAssumption
  <2>3. CASE y \in zones
    <3>1. m < i_size
      BY <2>2, <2>3 DEF TruncInv, NoZonesBehind
    <3> QED  BY <1>1, <1>4, <2>2, <3>1
  <2>4. CASE y = z
    <3>1. PICK r \in 0 .. ZONE - 1 : r = p % ZONE
      BY ZoneOfPosition
    <3>2. p = m + r
      BY <1>3, <2>2, <2>4, <3>1, ZoneOfPosition
    <3>3. m <= p
      BY <3>1, <3>2, SizeAssumption
    <3> QED  BY <1>1, <1>4, <2>2, <3>3
  <2> QED  BY <1>4, <2>3, <2>4
<1>9. TruncInv'
  <2>1. zones' \subseteq Int /\ i_size' \in 0 .. MAX_SIZE
    BY <1>1, <1>4
  <2> QED  BY <1>6, <1>7, <1>8, <2>1, InvOf
<1>10. Content' = [k \in 1 .. (IF p < Len(Content) THEN Len(Content) ELSE p + 1) |->
                     IF k = p + 1 THEN 1
                     ELSE IF k <= Len(Content) THEN Content[k] ELSE 0]
  <2>1. Len(Content) = i_size
    BY ContentIs
  <2> SUFFICES ASSUME NEW k \in 1 .. (IF p < i_size THEN i_size ELSE p + 1)
               PROVE  byte'[k - 1] = IF k = p + 1 THEN 1
                                     ELSE IF k <= i_size THEN Content[k] ELSE 0
    BY <1>4, <2>1 DEF Content
  <2>2. k \in Int /\ k - 1 \in 0 .. MAX_SIZE - 1
    BY <1>1
  <2>3. k - 1 \in Positions
    BY <2>2, FileHasBytes
  <2>4. k \in 1 .. i_size => Content[k] = byte[k - 1]
    BY ContentIs
  <2>5. CASE k = p + 1
    BY <1>1, <1>5, <2>2, <2>3, <2>5
  <2>6. CASE k # p + 1 /\ k <= i_size
    <3>1. k - 1 # p /\ ~(k - 1 >= i_size) /\ k \in 1 .. i_size
      BY <1>1, <2>2, <2>6
    <3> QED  BY <1>5, <2>3, <2>4, <2>6, <3>1
  <2>7. CASE k # p + 1 /\ ~(k <= i_size)
    <3>1. k - 1 # p /\ k - 1 < p /\ k - 1 >= i_size
      BY <1>1, <2>2, <2>7
    <3> QED  BY <1>5, <2>3, <2>7, <3>1
  <2> QED  BY <2>5, <2>6, <2>7
<1> QED  BY <1>9, <1>10 DEF File!Next, File!Write

-----------------------------------------------------------------------------
LEMMA StutterStep ==
  ASSUME TruncInv, UNCHANGED vars
  PROVE  TruncInv' /\ UNCHANGED Content
BY DEF vars, Content, TruncInv, TypeOK, NoZonesBehind, HolesAreZero

LEMMA RequestStep ==
  ASSUME TruncInv, NEW start \in Nat, NEW end \in Nat, fs_ftrunc(start, end)
  PROVE  TruncInv' /\ (File!Next \/ UNCHANGED Content)
<1>1. i_size \in Nat
  BY DEF TruncInv, TypeOK
<1>2. CASE UNCHANGED vars
  BY <1>2, StutterStep
<1>3. CASE CanFree(start, end) /\ Become(freesp_inode(start, end)) /\ i_size' = i_size
  BY <1>3, FreeStep
<1>4. CASE /\ start < i_size /\ i_size' = start
           /\ Become(freesp_inode(start, i_size))
  BY <1>4, ShrinkStep
<1>5. CASE /\ i_size < start /\ start <= MAX_SIZE /\ i_size' = start
           /\ Become(Cleared(i_size))
  BY <1>5, GrowStep
<1>6. CASE /\ start = i_size /\ i_size' = start
           /\ Become([bytes |-> byte, zones |-> zones])
  <2>1. UNCHANGED vars
    BY <1>6 DEF Become, vars
  <2> QED  BY <2>1, StutterStep
<1> QED  BY <1>1, <1>2, <1>3, <1>4, <1>5, <1>6 DEF fs_ftrunc, truncate_inode

LEMMA TruncStep == TruncInv /\ [Next]_vars => TruncInv' /\ [File!Next]_Content
<1> SUFFICES ASSUME TruncInv, [Next]_vars
             PROVE  TruncInv' /\ (File!Next \/ UNCHANGED Content)
  OBVIOUS
<1>1. CASE UNCHANGED vars
  BY <1>1, StutterStep
<1>2. ASSUME NEW p \in 0 .. MAX_SIZE - 1, Write(p)
      PROVE  TruncInv' /\ File!Next
  BY <1>2, WriteStep
<1>3. ASSUME NEW start \in 0 .. MAX_SIZE + 1, NEW end \in 0 .. MAX_SIZE + 1,
             fs_ftrunc(start, end)
      PROVE  TruncInv' /\ (File!Next \/ UNCHANGED Content)
  BY <1>3, RequestStep
<1> QED  BY <1>1, <1>2, <1>3 DEF Next

\* Whatever is written, truncated and freed, the zones of the file begin within
\* it and its holes hold no bytes: the inductive invariant of what truncate_inode
\* and freesp_inode leave, for any zone size and any largest file.
THEOREM ZonesAndHoles == Spec => []TruncInv
<1>1. Init => TruncInv
  BY TruncInit
<1>2. TruncInv /\ [Next]_vars => TruncInv'
  BY TruncStep
<1> QED  BY <1>1, <1>2, PTL DEF Spec

\* freesp_inode frees every zone behind the end that truncate_inode gives a file.
THEOREM NoZoneIsLeft == Spec => []NoZonesBehind
<1>1. TruncInv => NoZonesBehind
  BY DEF TruncInv
<1> QED  BY <1>1, ZonesAndHoles, PTL

\* Truncating, freeing and writing a file of MFS are, for what programs read,
\* the operations of SparseFile: the parts of zones that freesp_inode zeroes and
\* the zones that it frees are just the bytes asked for, and what clear_zone
\* zeroes is all that a file that grows would otherwise show.
THEOREM FileIsSparse == Spec => ImplementsFile
<1>1. Init => TruncInv /\ File!Init
  BY TruncInit
<1>2. TruncInv /\ [Next]_vars => TruncInv' /\ [File!Next]_Content
  BY TruncStep
<1> QED  BY <1>1, <1>2, PTL DEF Spec, ImplementsFile, File!Spec
=============================================================================

--------------------------- MODULE NetnodeProofs ---------------------------
(* The netnode layer implements the map of separate collections its docs     *)
(* promise (NetnodeMap), for every set of nodes, keys, indices, tags and     *)
(* values.                                                                   *)
EXTENDS Netnode, NaturalsInduction, FiniteSetTheorems, TLAPS

\* A tagged view reaches any tag; under ALTVAL, HASH, BLOB or the kernel's
\* own it is a second way into another collection's array.
UserTags == Tags \cap {ALTVAL, HASH, BLOB, VALUE} = {}

\* The arrays some write reaches.
Array(tag, array) ==
  \/ tag \in {VALUE, ALTVAL, SUPVAL, BLOB} /\ array = "num"
  \/ tag = HASH /\ array = "str"
  \/ tag \in Tags /\ array \in {"num", "str"}

\* The collection an array is, and the entry a slot is.
Collection(tag, array) ==
  IF tag = VALUE THEN <<"value">>
  ELSE IF tag = ALTVAL THEN <<"altval">>
  ELSE IF tag = BLOB THEN <<"blob">>
  ELSE IF tag = HASH THEN <<"hash">>
  ELSE IF array = "str" THEN Table(tag)
  ELSE Slot(tag)

At(s) == <<s[1], Collection(s[2], s[3]), s[4]>>
Seen(s, bytes) == <<At(s), IF s[2] = ALTVAL THEN Integer(Some(bytes)) ELSE bytes>>

\* The indices a blob is put at, and how many slots from each on are its own:
\* enough for the longest, which leaves the last of them short or unset.
BlobStarts == Starts \cup {0}
Room(n) ==
  /\ n \in 1..(BADNODE + 1)
  /\ \A v \in Objects : Len(v) + 1 < n * Cap
  /\ \A a, b \in BlobStarts : a # b =>
       \A x \in 0..BADNODE : ~(Past(a, x) < n /\ Past(b, x) < n)
Apart == \E n : Room(n)
Reach == CHOOSE n : Room(n)

\* A slot some write reaches.
IsSlot(s) ==
  /\ s = <<s[1], s[2], s[3], s[4]>>
  /\ Array(s[2], s[3])
  /\ s[2] = VALUE => s[4] = 0
  /\ s[2] = BLOB => s[4] \in 0..BADNODE
  /\ s[3] = "str" => s[4] \in Keys /\ CStr[s[4]] = s[4]

\* Every slot belongs to an array of ours, and every object is short enough
\* for the reads to copy whole.
Fits(f) ==
  \A s \in DOMAIN f : IsSlot(s) /\ f[s] \in Seq(Int) /\ Len(f[s]) <= Cap

\* The chunks at an index a blob is put at are one chain, and it ends within
\* its room.
Chained(f, m, a) ==
  /\ \E x \in 0..BADNODE : Past(a, x) < Reach /\ ~Full(f, Num(m, BLOB, x))
  /\ \A x \in 0..BADNODE : Past(a, x) < Reach /\ Num(m, BLOB, x) \in DOMAIN f =>
       \A y \in 0..BADNODE : Past(a, y) < Past(a, x) => Full(f, Num(m, BLOB, y))

-----------------------------------------------------------------------------
(* Indices and chunks.                                                       *)

\* Starts far enough apart have room for the longest blob.
LEMMA RoomOf == Apart => Room(Reach) /\ Reach \in Nat
<1>1. Apart => Room(Reach)
  BY DEF Apart, Reach
<1> QED BY <1>1, StoreAssumption DEF Room

\* The sizes are numbers, and every start an index.
LEMMA Sizes == BADNODE \in Nat /\ Cap \in Nat /\ Cap >= 1 /\ 0 \in BlobStarts /\ BlobStarts \subseteq 0..BADNODE
BY StoreAssumption DEF BlobStarts

\* Past and Index undo each other.
LEMMA PastOf ==
  ASSUME NEW a \in 0..BADNODE
  PROVE  /\ \A x \in 0..BADNODE : Past(a, x) \in 0..BADNODE /\ Index(a, Past(a, x)) = x
         /\ \A j \in 0..BADNODE : Index(a, j) \in 0..BADNODE /\ Past(a, Index(a, j)) = j
         /\ \A x, y \in 0..BADNODE : Past(a, x) = Past(a, y) => x = y
         /\ \A x \in 0..BADNODE : Past(a, x) < BADNODE =>
              Index(x, 1) \in 0..BADNODE /\ Past(a, Index(x, 1)) = Past(a, x) + 1
         /\ Past(a, a) = 0 /\ Index(a, 0) = a
BY StoreAssumption DEF Past, Index

\* How far past a start an index is is a number.
LEMMA PastNat == ASSUME NEW a \in 0..BADNODE PROVE \A x \in 0..BADNODE : Past(a, x) \in Nat
<1>1. \A x \in 0..BADNODE : Past(a, x) \in 0..BADNODE
  BY PastOf
<1> QED BY <1>1, Sizes

\* Division by Cap.
LEMMA Divided ==
  ASSUME NEW n \in Nat
  PROVE  /\ n \div Cap \in Nat /\ n % Cap \in 0..(Cap - 1)
         /\ n = (n \div Cap) * Cap + (n % Cap)
BY Sizes

\* Multiples of Cap.
LEMMA Scaled ==
  ASSUME NEW p \in Nat, NEW q \in Nat
  PROVE  /\ p < q => (p + 1) * Cap <= q * Cap /\ p * Cap + Cap <= q * Cap /\ p * Cap < q * Cap
         /\ p * Cap < q * Cap => p < q
         /\ p * Cap \in Nat /\ (p + 1) * Cap = p * Cap + Cap
<1>1. p * Cap \in Nat /\ q * Cap \in Nat /\ (p + 1) * Cap = p * Cap + Cap
  BY Sizes
<1>2. p < q => p * Cap + Cap <= q * Cap
  <2> SUFFICES ASSUME p < q PROVE p * Cap + Cap <= q * Cap
    OBVIOUS
  <2>1. PICK d \in Nat : q = p + 1 + d
    <3> WITNESS q - p - 1 \in Nat
    <3> QED OBVIOUS
  <2>2. q * Cap = p * Cap + Cap + d * Cap /\ d * Cap \in Nat
    BY <2>1, Sizes
  <2> QED BY <1>1, <2>2, Sizes
<1>3. q <= p => q * Cap <= p * Cap
  <2> SUFFICES ASSUME q <= p PROVE q * Cap <= p * Cap
    OBVIOUS
  <2>1. PICK d \in Nat : p = q + d
    <3> WITNESS p - q \in Nat
    <3> QED OBVIOUS
  <2>2. p * Cap = q * Cap + d * Cap /\ d * Cap \in Nat
    BY <2>1, Sizes
  <2> QED BY <1>1, <2>2
<1> QED BY <1>1, <1>2, <1>3, Sizes

\* A chunk of a blob.
LEMMA ChunkOf ==
  ASSUME NEW v \in Seq(Int), NEW j \in Nat, j * Cap < Len(v)
  PROVE  /\ Chunk(v, j) \in Seq(Int)
         /\ (j + 1) * Cap <= Len(v) => Len(Chunk(v, j)) = Cap
         /\ Len(v) <= (j + 1) * Cap => Len(Chunk(v, j)) = Len(v) - j * Cap
         /\ \A r \in 1..Cap : j * Cap + r <= Len(v) => Chunk(v, j)[r] = v[j * Cap + r]
<1>1. PICK lo \in Nat : lo = j * Cap
  BY Sizes
<1>2. (j + 1) * Cap = lo + Cap
  BY <1>1, Scaled
<1>3. PICK hi \in Nat : hi = IF Len(v) < lo + Cap THEN Len(v) ELSE lo + Cap
  BY <1>1, Sizes
<1>4. Chunk(v, j) = SubSeq(v, lo + 1, hi)
  BY <1>1, <1>2, <1>3 DEF Chunk
<1>5. lo + 1 <= hi /\ hi <= Len(v) /\ lo + 1 \in 1..Len(v)
  BY <1>1, <1>3, Sizes
<1>6. SubSeq(v, lo + 1, hi) = [r \in 1..(hi - lo) |-> v[lo + r]]
  BY <1>5
<1>7. SubSeq(v, lo + 1, hi) \in Seq(Int) /\ Len(SubSeq(v, lo + 1, hi)) = hi - lo
  BY <1>5
<1>8. \A r \in 1..Cap : lo + r <= Len(v) => SubSeq(v, lo + 1, hi)[r] = v[lo + r]
  <2> SUFFICES ASSUME NEW r \in 1..Cap, lo + r <= Len(v) PROVE SubSeq(v, lo + 1, hi)[r] = v[lo + r]
    OBVIOUS
  <2>1. r \in 1..(hi - lo)
    BY <1>3, Sizes
  <2> DEFINE g == [x \in 1..(hi - lo) |-> v[lo + x]]
  <2>2. g[r] = v[lo + r]
    BY <2>1
  <2> HIDE DEF g
  <2>3. SubSeq(v, lo + 1, hi) = g
    BY <1>6 DEF g
  <2> QED BY <2>2, <2>3
<1>9. lo + Cap <= Len(v) => hi - lo = Cap
  BY <1>1, <1>3, Sizes
<1>10. Len(v) <= lo + Cap => hi - lo = Len(v) - lo
  BY <1>1, <1>3, Sizes
<1>11. Chunk(v, j) \in Seq(Int) /\ Len(Chunk(v, j)) = hi - lo
  BY <1>4, <1>7
<1>12. \A r \in 1..Cap : j * Cap + r <= Len(v) => Chunk(v, j)[r] = v[j * Cap + r]
  BY <1>1, <1>4, <1>8
<1> QED BY <1>1, <1>2, <1>9, <1>10, <1>11, <1>12
-----------------------------------------------------------------------------
(* Chains.                                                                   *)

\* What is known of the chain at a start: its slots, which lie within the
\* room of the start.
LEMMA ChainOf ==
  ASSUME UserTags, Room(Reach), NEW f, Fits(f), NEW m, NEW a \in BlobStarts, Chained(f, m, a)
  PROVE  Chain(f, m, BLOB, a) =
           {s \in DOMAIN f : \E x \in 0..BADNODE : s = Num(m, BLOB, x) /\ Past(a, x) < Reach}
<1>0. a \in 0..BADNODE
  BY Sizes
<1>1. ASSUME NEW s \in Chain(f, m, BLOB, a)
      PROVE  \E x \in 0..BADNODE : s = Num(m, BLOB, x) /\ Past(a, x) < Reach
  <2>1. PICK x : x = s[4]
    OBVIOUS
  <2>2. s \in DOMAIN f /\ s[1] = m /\ s[2] = BLOB /\ s[3] = "num"
    BY DEF Chain
  <2>3. s = Num(m, BLOB, x) /\ x \in 0..BADNODE
    BY <2>1, <2>2 DEF Fits, IsSlot, Num
  <2>4. \A j \in 0..(Past(a, x) - 1) : Full(f, Num(m, BLOB, Index(a, j)))
    BY <2>1 DEF Chain
  <2>5. PICK y \in 0..BADNODE : Past(a, y) < Reach /\ ~Full(f, Num(m, BLOB, y))
    BY DEF Chained
  <2>6. Past(a, y) \in 0..BADNODE /\ Index(a, Past(a, y)) = y /\ Past(a, x) \in 0..BADNODE
    BY <1>0, <2>3, PastOf
  <2>7. Past(a, y) \notin 0..(Past(a, x) - 1)
    BY <2>4, <2>5, <2>6
  <2>8. Past(a, x) <= Past(a, y)
    BY <2>6, <2>7, Sizes
  <2> QED BY <2>3, <2>5, <2>6, <2>8, Sizes DEF Room
<1>2. ASSUME NEW x \in 0..BADNODE, Num(m, BLOB, x) \in DOMAIN f, Past(a, x) < Reach
      PROVE  Num(m, BLOB, x) \in Chain(f, m, BLOB, a)
  <2>1. \A y \in 0..BADNODE : Past(a, y) < Past(a, x) => Full(f, Num(m, BLOB, y))
    BY <1>2 DEF Chained
  <2>2. Past(a, x) \in 0..BADNODE
    BY <1>0, PastOf
  <2>3. ASSUME NEW j \in 0..(Past(a, x) - 1) PROVE Full(f, Num(m, BLOB, Index(a, j)))
    <3>1. j \in 0..BADNODE /\ j < Past(a, x)
      BY <2>2, Sizes
    <3>2. Index(a, j) \in 0..BADNODE /\ Past(a, Index(a, j)) = j
      BY <1>0, <3>1, PastOf
    <3> QED BY <2>1, <3>1, <3>2
  <2> QED BY <1>2, <2>3 DEF Chain, Num
<1>3. Chain(f, m, BLOB, a) \subseteq DOMAIN f
  BY DEF Chain
<1> QED BY <1>1, <1>2, <1>3

\* Two stores that agree on the room of a start.
Agree(f, g, m, a) ==
  \A x \in 0..BADNODE : Past(a, x) < Reach =>
    /\ Num(m, BLOB, x) \in DOMAIN f <=> Num(m, BLOB, x) \in DOMAIN g
    /\ Num(m, BLOB, x) \in DOMAIN f => f[Num(m, BLOB, x)] = g[Num(m, BLOB, x)]

\* They have the same full chunks there.
LEMMA AgreeFull ==
  ASSUME NEW f, NEW g, NEW m, NEW a, Agree(f, g, m, a)
  PROVE  \A x \in 0..BADNODE : Past(a, x) < Reach =>
           (Full(f, Num(m, BLOB, x)) <=> Full(g, Num(m, BLOB, x)))
BY DEF Agree, Full

\* One's chain is the other's.
LEMMA AgreeChained ==
  ASSUME Room(Reach), NEW f, NEW g, NEW m, NEW a \in BlobStarts, Agree(f, g, m, a), Chained(f, m, a)
  PROVE  Chained(g, m, a)
<1>a. a \in 0..BADNODE
  BY Sizes
<1>b. \A x \in 0..BADNODE : Past(a, x) \in 0..BADNODE
  BY <1>a, PastOf
<1>0. \A x \in 0..BADNODE : Past(a, x) \in Nat
  BY <1>b, Sizes
<1>1. \A x \in 0..BADNODE : Past(a, x) < Reach =>
           /\ Full(f, Num(m, BLOB, x)) <=> Full(g, Num(m, BLOB, x))
           /\ Num(m, BLOB, x) \in DOMAIN f <=> Num(m, BLOB, x) \in DOMAIN g
  BY AgreeFull DEF Agree
<1>2. \E x \in 0..BADNODE : Past(a, x) < Reach /\ ~Full(g, Num(m, BLOB, x))
  BY <1>1 DEF Chained
<1>3. ASSUME NEW x \in 0..BADNODE, Past(a, x) < Reach, Num(m, BLOB, x) \in DOMAIN g,
             NEW y \in 0..BADNODE, Past(a, y) < Past(a, x)
      PROVE  Full(g, Num(m, BLOB, y))
  <2>1. Past(a, y) < Reach
    BY <1>0, <1>3, Sizes DEF Room
  <2>2. Num(m, BLOB, x) \in DOMAIN f
    BY <1>1, <1>3
  <2>3. Full(f, Num(m, BLOB, y))
    BY <1>3, <2>2 DEF Chained
  <2> QED BY <1>1, <2>1, <2>3
<1> QED BY <1>2, <1>3 DEF Chained

\* What the read of a blob is.
Joined(f, m, a, s) ==
  [p \in 1..(Past(a, s[4]) * Cap + Len(f[s])) |->
     f[Num(m, BLOB, Index(a, (p - 1) \div Cap))][((p - 1) % Cap) + 1]]
Ends(f, m, s) == ~Full(f, s) \/ Num(m, BLOB, Index(s[4], 1)) \notin DOMAIN f
LastOf(f, m, a) == {s \in Chain(f, m, BLOB, a) : Ends(f, m, s)}

\* The read of a blob, by those names.
LEMMA Reads ==
  ASSUME NEW f, NEW m, NEW a
  PROVE  getblob(f, m, BLOB, a) =
           IF LastOf(f, m, a) = {} THEN None
           ELSE Some(Joined(f, m, a, CHOOSE s \in LastOf(f, m, a) : TRUE))
BY DEF getblob, LastOf, Ends, Joined

\* They read the same blob there.
LEMMA AgreeReads ==
  ASSUME UserTags, Room(Reach), NEW f, NEW g, Fits(f), Fits(g), NEW m, NEW a \in BlobStarts,
         Agree(f, g, m, a), Chained(f, m, a)
  PROVE  getblob(g, m, BLOB, a) = getblob(f, m, BLOB, a)
<1>a. a \in 0..BADNODE
  BY Sizes
<1>b. \A x \in 0..BADNODE : Past(a, x) \in 0..BADNODE
  BY <1>a, PastOf
<1>0. \A x \in 0..BADNODE : Past(a, x) \in Nat
  BY <1>b, Sizes
<1>1. Chained(g, m, a)
  BY AgreeChained
<1>2. PICK C : C = Chain(f, m, BLOB, a)
  OBVIOUS
<1>3. Chain(g, m, BLOB, a) = C
  <2>1. C = {s \in DOMAIN f : \E x \in 0..BADNODE : s = Num(m, BLOB, x) /\ Past(a, x) < Reach}
    BY <1>2, ChainOf
  <2>2. Chain(g, m, BLOB, a)
        = {s \in DOMAIN g : \E x \in 0..BADNODE : s = Num(m, BLOB, x) /\ Past(a, x) < Reach}
    BY <1>1, ChainOf
  <2> QED BY <2>1, <2>2, Zenon DEF Agree
<1>4. ASSUME NEW s \in C
      PROVE  /\ s = Num(m, BLOB, s[4]) /\ s[4] \in 0..BADNODE /\ Past(a, s[4]) < Reach
             /\ s \in DOMAIN f /\ f[s] = g[s]
             /\ Full(f, s) <=> Full(g, s)
  <2>1. PICK x \in 0..BADNODE : s \in DOMAIN f /\ s = Num(m, BLOB, x) /\ Past(a, x) < Reach
    BY <1>2, ChainOf
  <2>2. s[4] = x
    BY <2>1 DEF Num
  <2> QED BY <2>1, <2>2, AgreeFull DEF Agree
<1>5. ASSUME NEW s \in C PROVE Ends(f, m, s) <=> Ends(g, m, s)
  <2>1. CASE ~Full(f, s)
    BY <1>4, <2>1 DEF Ends
  <2>2. CASE Full(f, s)
    <3>1. PICK y \in 0..BADNODE : Past(a, y) < Reach /\ ~Full(f, Num(m, BLOB, y))
      BY DEF Chained
    <3>2. Past(a, s[4]) < Past(a, y)
      <4>1. \A z \in 0..BADNODE : Past(a, z) < Past(a, s[4]) => Full(f, Num(m, BLOB, z))
        BY <1>4 DEF Chained
      <4>2. Past(a, y) # Past(a, s[4])
        <5>1. PICK x \in 0..BADNODE : x = s[4] /\ s = Num(m, BLOB, x)
          BY <1>4
        <5>2. x # y
          BY <2>2, <3>1, <5>1
        <5> QED BY <1>a, <5>1, <5>2, PastOf
      <4>3. ~(Past(a, y) < Past(a, s[4]))
        BY <3>1, <4>1
      <4>4. Past(a, y) \in Nat /\ Past(a, s[4]) \in Nat
        BY <1>0, <1>4
      <4> QED BY <4>2, <4>3, <4>4
    <3>3. Past(a, y) \in 0..BADNODE /\ Past(a, s[4]) \in 0..BADNODE
      BY <1>b, <1>4
    <3>4. Past(a, s[4]) < BADNODE /\ Past(a, s[4]) + 1 < Reach
      BY <3>1, <3>2, <3>3, Sizes DEF Room
    <3>5. Index(s[4], 1) \in 0..BADNODE /\ Past(a, Index(s[4], 1)) < Reach
      <4>1. PICK x \in 0..BADNODE : x = s[4]
        BY <1>4
      <4>2. Index(x, 1) \in 0..BADNODE /\ Past(a, Index(x, 1)) = Past(a, x) + 1
        BY <1>a, <3>4, <4>1, PastOf
      <4> QED BY <3>4, <4>1, <4>2
    <3>6. Num(m, BLOB, Index(s[4], 1)) \in DOMAIN f <=> Num(m, BLOB, Index(s[4], 1)) \in DOMAIN g
      BY <3>5 DEF Agree
    <3> QED BY <1>4, <2>2, <3>6 DEF Ends
  <2> QED BY <2>1, <2>2
<1>6. LastOf(g, m, a) = LastOf(f, m, a) /\ LastOf(f, m, a) \subseteq C
  BY <1>2, <1>3, <1>5 DEF LastOf
<1>7. ASSUME NEW s \in C PROVE Joined(g, m, a, s) = Joined(f, m, a, s)
  <2>1. PICK k \in Nat : k = Past(a, s[4])
    BY <1>0, <1>4
  <2>2. PICK n \in Nat : n = Len(f[s]) /\ n <= Cap
    BY <1>4 DEF Fits
  <2>3. n = Len(g[s])
    BY <1>4, <2>2
  <2>4. ASSUME NEW p \in 1..(k * Cap + n)
        PROVE  f[Num(m, BLOB, Index(a, (p - 1) \div Cap))] = g[Num(m, BLOB, Index(a, (p - 1) \div Cap))]
    <3>0. p - 1 \in Nat /\ p - 1 < k * Cap + n
      <4>1. k * Cap \in Nat
        BY Scaled
      <4> QED BY <4>1
    <3>1. PICK q \in Nat : q = (p - 1) \div Cap
      BY <3>0, Divided
    <3>2. q <= k
      <4>2. PICK r \in 0..(Cap - 1) : p - 1 = q * Cap + r
        BY <3>0, <3>1, Divided
      <4>5. PICK c \in Nat : c = k * Cap
        BY Scaled
      <4>6. PICK e \in Nat : e = q * Cap
        BY Scaled
      <4>7. (k + 1) * Cap = c + Cap
        BY <4>5, Scaled
      <4>8. p - 1 < c + n /\ p - 1 >= e
        BY <3>0, <4>2, <4>5, <4>6
      <4>9. e < c + Cap
        BY <2>2, <3>0, <4>8, Sizes
      <4>3. q * Cap < (k + 1) * Cap
        BY <4>6, <4>7, <4>9
      <4>4. q < k + 1
        BY <4>3, Scaled
      <4> QED BY <4>4
    <3>3. q \in 0..BADNODE /\ q < Reach
      BY <1>4, <2>1, <3>2, Sizes DEF Room
    <3>4. PICK x \in 0..BADNODE : x = Index(a, q) /\ Past(a, x) = q
      BY <1>a, <3>3, PastOf
    <3>5. Num(m, BLOB, x) \in DOMAIN f
      <4>1. CASE q = k
        <5>0. PICK z \in 0..BADNODE : z = s[4] /\ s = Num(m, BLOB, z)
          BY <1>4
        <5>1. x = z
          BY <1>a, <2>1, <3>4, <4>1, <5>0, PastOf
        <5> QED BY <1>4, <5>0, <5>1
      <4>2. CASE q < k
        BY <1>4, <2>1, <3>4, <4>2 DEF Chained, Full
      <4> QED BY <3>2, <4>1, <4>2
    <3>6. f[Num(m, BLOB, x)] = g[Num(m, BLOB, x)]
      BY <3>3, <3>4, <3>5 DEF Agree
    <3> QED BY <3>1, <3>4, <3>6
  <2> QED BY <2>1, <2>2, <2>3, <2>4 DEF Joined
<1>8. LastOf(f, m, a) # {} => (CHOOSE s \in LastOf(f, m, a) : TRUE) \in C
  BY <1>6
<1> QED BY <1>6, <1>7, <1>8, Reads

\* A blob put where its chunks are one chain: what its room holds after.
LEMMA SetSlots ==
  ASSUME UserTags, Room(Reach), NEW f, Fits(f), NEW m, NEW a \in BlobStarts, Chained(f, m, a),
         NEW v \in Seq(Int), Len(v) < Reach * Cap, NEW g, g = setblob(f, m, BLOB, a, v)
  PROVE  /\ \A x \in 0..BADNODE : Past(a, x) * Cap < Len(v) =>
              /\ Past(a, x) < Reach
              /\ Num(m, BLOB, x) \in DOMAIN g /\ g[Num(m, BLOB, x)] = Chunk(v, Past(a, x))
         /\ \A x \in 0..BADNODE : Past(a, x) < Reach /\ Num(m, BLOB, x) \in DOMAIN g =>
              Past(a, x) * Cap < Len(v)
         /\ \A s : ~(\E x \in 0..BADNODE : s = Num(m, BLOB, x) /\ Past(a, x) < Reach) =>
              /\ s \in DOMAIN g <=> s \in DOMAIN f
              /\ s \in DOMAIN f => g[s] = f[s]
<1>a. a \in 0..BADNODE
  BY Sizes
<1>b. \A x \in 0..BADNODE : Past(a, x) \in Nat
  BY <1>a, PastNat
<1> DEFINE links == {Num(m, BLOB, x) : x \in {y \in 0..BADNODE : Past(a, y) * Cap < Len(v)}}
           C == Chain(f, m, BLOB, a)
<1>1. DOMAIN g = (DOMAIN f \ C) \cup links
  BY DEF setblob
<1>2. \A s \in DOMAIN g : g[s] = IF s \in links THEN Chunk(v, Past(a, s[4])) ELSE f[s]
  BY DEF setblob
<1>3. \A x \in 0..BADNODE : Num(m, BLOB, x) \in links <=> Past(a, x) * Cap < Len(v)
  BY DEF Num
<1>4. \A x \in 0..BADNODE : Num(m, BLOB, x)[4] = x
  BY DEF Num
<1>5. C = {s \in DOMAIN f : \E x \in 0..BADNODE : s = Num(m, BLOB, x) /\ Past(a, x) < Reach}
  BY ChainOf
<1>6. \A s \in links : \E x \in 0..BADNODE : s = Num(m, BLOB, x) /\ Past(a, x) * Cap < Len(v)
  OBVIOUS
<1> HIDE DEF links, C
<1>7. ASSUME NEW x \in 0..BADNODE, Past(a, x) * Cap < Len(v) PROVE Past(a, x) < Reach
  <2>1. PICK p \in Nat : p = Past(a, x)
    BY <1>b
  <2>2. PICK q \in Nat : q = Reach
    BY Sizes DEF Room
  <2>3. PICK c \in Nat, d \in Nat : c = p * Cap /\ d = q * Cap
    BY <2>1, <2>2, Scaled
  <2>4. c < d
    BY <1>7, <2>1, <2>2, <2>3
  <2> QED BY <2>1, <2>2, <2>3, <2>4, Scaled
<1>8. \A x \in 0..BADNODE : Past(a, x) * Cap < Len(v) =>
              /\ Past(a, x) < Reach
              /\ Num(m, BLOB, x) \in DOMAIN g /\ g[Num(m, BLOB, x)] = Chunk(v, Past(a, x))
  BY <1>1, <1>2, <1>3, <1>4, <1>7
<1>9. \A x \in 0..BADNODE : Past(a, x) < Reach /\ Num(m, BLOB, x) \in DOMAIN g =>
              Past(a, x) * Cap < Len(v)
  BY <1>1, <1>3, <1>5
<1>10. ASSUME NEW s, ~(\E x \in 0..BADNODE : s = Num(m, BLOB, x) /\ Past(a, x) < Reach)
       PROVE  s \notin C /\ s \notin links
  BY <1>5, <1>6, <1>7, <1>10
<1>11. \A s : ~(\E x \in 0..BADNODE : s = Num(m, BLOB, x) /\ Past(a, x) < Reach) =>
              /\ s \in DOMAIN g <=> s \in DOMAIN f
              /\ s \in DOMAIN f => g[s] = f[s]
  BY <1>1, <1>2, <1>10
<1> QED BY <1>8, <1>9, <1>11

\* The chunks a blob of n bytes takes: the last is short, or is followed by
\* an unset slot within the room.
LEMMA SetLinks ==
  ASSUME Room(Reach), NEW n \in Nat, n < Reach * Cap
  PROVE  /\ n \div Cap < Reach /\ n \div Cap \in 0..BADNODE
         /\ \A p \in Nat : p < Reach /\ p * Cap < n => p <= n \div Cap
         /\ n - (n \div Cap) * Cap \in 0..(Cap - 1)
<1>1. PICK q \in Nat, r \in 0..(Cap - 1) : q = n \div Cap /\ n = q * Cap + r
  BY Divided
<1>2. PICK c \in Nat : c = q * Cap
  BY Scaled
<1>3. PICK k \in Nat : k = Reach /\ k <= BADNODE + 1
  BY Sizes DEF Room
<1>4. PICK d \in Nat : d = k * Cap
  BY Scaled
<1>5. c < d
  BY <1>1, <1>2, <1>3, <1>4
<1>6. q < k
  BY <1>2, <1>4, <1>5, Scaled
<1>7. ASSUME NEW p \in Nat, p * Cap < n PROVE p <= q
  <2>1. PICK e \in Nat : e = p * Cap
    BY Scaled
  <2>2. (q + 1) * Cap = c + Cap
    BY <1>2, Scaled
  <2>3. e < c + Cap
    BY <1>1, <1>2, <1>7, <2>1, Sizes
  <2>4. p * Cap < (q + 1) * Cap
    BY <2>1, <2>2, <2>3
  <2>5. p < q + 1
    BY <2>4, Scaled
  <2> QED BY <2>5
<1>8. n - c = r
  BY <1>1, <1>2
<1> QED BY <1>1, <1>2, <1>3, <1>6, <1>7, <1>8, Sizes

\* The new blob is one chain.
LEMMA SetChained ==
  ASSUME UserTags, Room(Reach), NEW f, Fits(f), NEW m, NEW a \in BlobStarts, Chained(f, m, a),
         NEW v \in Seq(Int), Len(v) < Reach * Cap, NEW g, g = setblob(f, m, BLOB, a, v)
  PROVE  Chained(g, m, a)
<1>a. a \in 0..BADNODE
  BY Sizes
<1>b. \A x \in 0..BADNODE : Past(a, x) \in Nat
  BY <1>a, PastNat
<1>0. PICK n \in Nat : n = Len(v)
  OBVIOUS
<1>1. PICK q \in 0..BADNODE : q = n \div Cap /\ q < Reach /\ n - q * Cap \in 0..(Cap - 1)
  BY <1>0, SetLinks
<1>2. PICK z \in 0..BADNODE : z = Index(a, q) /\ Past(a, z) = q
  BY <1>a, PastOf
<1>3. ~Full(g, Num(m, BLOB, z))
  <2>0. q \in Nat
    BY <1>1, Sizes
  <2>1. PICK c \in Nat : c = q * Cap
    BY <2>0, Scaled
  <2>2. CASE c < n
    <3>1. g[Num(m, BLOB, z)] = Chunk(v, q)
      BY <1>0, <1>2, <2>1, <2>2, SetSlots
    <3>2. n <= (q + 1) * Cap
      <4>1. (q + 1) * Cap = c + Cap
        BY <2>0, <2>1, Scaled
      <4>2. n - c < Cap
        BY <1>1, <2>1, Sizes
      <4>3. n <= c + Cap
        BY <4>2, Sizes
      <4> QED BY <4>1, <4>3
    <3>3. Len(Chunk(v, q)) = n - c
      BY <1>0, <2>0, <2>1, <2>2, <3>2, ChunkOf
    <3>4. n - c # Cap
      BY <1>1, <2>1, Sizes
    <3> QED BY <3>1, <3>3, <3>4 DEF Full
  <2>3. CASE ~(c < n)
    <3>1. Num(m, BLOB, z) \notin DOMAIN g
      BY <1>0, <1>1, <1>2, <2>1, <2>3, SetSlots
    <3> QED BY <3>1 DEF Full
  <2> QED BY <2>2, <2>3
<1>4. ASSUME NEW x \in 0..BADNODE, Past(a, x) < Reach, Num(m, BLOB, x) \in DOMAIN g,
             NEW y \in 0..BADNODE, Past(a, y) < Past(a, x)
      PROVE  Full(g, Num(m, BLOB, y))
  <2>1. PICK p \in Nat, o \in Nat : p = Past(a, x) /\ o = Past(a, y)
    BY <1>b
  <2>2. PICK c \in Nat, d \in Nat : c = p * Cap /\ d = o * Cap
    BY Scaled
  <2>3. c < n
    BY <1>0, <1>4, <2>1, <2>2, SetSlots
  <2>4. (o + 1) * Cap <= c /\ d < c
    BY <1>4, <2>1, <2>2, Scaled
  <2>5. (o + 1) * Cap <= n /\ d < n
    <3>1. (o + 1) * Cap = d + Cap
      BY <2>2, Scaled
    <3>2. PICK e \in Nat : e = d + Cap
      BY Sizes
    <3> QED BY <2>3, <2>4, <3>1, <3>2
  <2>6. Num(m, BLOB, y) \in DOMAIN g /\ g[Num(m, BLOB, y)] = Chunk(v, o)
    BY <1>0, <2>1, <2>2, <2>5, SetSlots
  <2>7. Len(Chunk(v, o)) = Cap
    BY <1>0, <2>2, <2>5, ChunkOf
  <2> QED BY <2>6, <2>7 DEF Full
<1> QED BY <1>1, <1>2, <1>3, <1>4 DEF Chained

\* No chunk is longer than a read copies.
LEMMA SetFits ==
  ASSUME UserTags, Room(Reach), NEW f, Fits(f), NEW m, NEW a \in BlobStarts, Chained(f, m, a),
         NEW v \in Seq(Int), Len(v) < Reach * Cap, NEW g, g = setblob(f, m, BLOB, a, v)
  PROVE  Fits(g)
<1>a. a \in 0..BADNODE
  BY Sizes
<1>b. \A x \in 0..BADNODE : Past(a, x) \in Nat
  BY <1>a, PastNat
<1> SUFFICES ASSUME NEW s \in DOMAIN g PROVE IsSlot(s) /\ g[s] \in Seq(Int) /\ Len(g[s]) <= Cap
  BY DEF Fits
<1>1. CASE \E x \in 0..BADNODE : s = Num(m, BLOB, x) /\ Past(a, x) < Reach
  <2>1. PICK x \in 0..BADNODE : s = Num(m, BLOB, x) /\ Past(a, x) < Reach
    BY <1>1
  <2>2. PICK p \in Nat : p = Past(a, x)
    BY <1>b
  <2>3. p * Cap < Len(v)
    BY <2>1, <2>2, SetSlots
  <2>4. g[s] = Chunk(v, p)
    BY <2>1, <2>2, <2>3, SetSlots
  <2>5. Chunk(v, p) \in Seq(Int)
    BY <2>3, ChunkOf
  <2>6. Len(Chunk(v, p)) <= Cap
    <3>1. PICK c \in Nat : c = p * Cap /\ (p + 1) * Cap = c + Cap
      BY Scaled
    <3>2. CASE c + Cap <= Len(v)
      BY <2>3, <3>1, <3>2, ChunkOf, Sizes
    <3>3. CASE Len(v) <= c + Cap
      <4>1. Len(Chunk(v, p)) = Len(v) - c
        BY <2>3, <3>1, <3>3, ChunkOf
      <4>2. PICK n \in Nat : n = Len(v)
        OBVIOUS
      <4> QED BY <3>1, <3>3, <4>1, <4>2, Sizes
    <3>4. Len(v) \in Nat /\ c + Cap \in Nat
      BY Sizes
    <3> QED BY <3>2, <3>3, <3>4
  <2>7. IsSlot(s)
    BY <2>1 DEF IsSlot, Num, Array, BLOB, VALUE, ALTVAL, SUPVAL, HASH
  <2> QED BY <2>4, <2>5, <2>6, <2>7
<1>2. CASE ~(\E x \in 0..BADNODE : s = Num(m, BLOB, x) /\ Past(a, x) < Reach)
  <2>1. s \in DOMAIN f /\ g[s] = f[s]
    BY <1>2, SetSlots
  <2> QED BY <2>1 DEF Fits
<1> QED BY <1>1, <1>2

\* Starts do not reach into each other's rooms.
LEMMA SetElsewhere ==
  ASSUME UserTags, Room(Reach), NEW f, Fits(f), NEW m, NEW a \in BlobStarts, Chained(f, m, a),
         NEW v \in Seq(Int), Len(v) < Reach * Cap, NEW g, g = setblob(f, m, BLOB, a, v),
         NEW n, NEW b \in BlobStarts, <<n, b>> # <<m, a>>
  PROVE  Agree(f, g, n, b)
<1> SUFFICES ASSUME NEW x \in 0..BADNODE, Past(b, x) < Reach
             PROVE  /\ Num(n, BLOB, x) \in DOMAIN f <=> Num(n, BLOB, x) \in DOMAIN g
                    /\ Num(n, BLOB, x) \in DOMAIN f => f[Num(n, BLOB, x)] = g[Num(n, BLOB, x)]
  BY DEF Agree
<1>1. ASSUME NEW y \in 0..BADNODE, Num(n, BLOB, x) = Num(m, BLOB, y), Past(a, y) < Reach PROVE FALSE
  <2>1. n = m /\ x = y
    BY <1>1 DEF Num
  <2>2. a # b
    BY <2>1
  <2> QED BY <1>1, <2>1, <2>2 DEF Room
<1> QED BY <1>1, SetSlots

\* The blob is read back whole.
LEMMA SetReads ==
  ASSUME UserTags, Room(Reach), NEW f, Fits(f), NEW m, NEW a \in BlobStarts, Chained(f, m, a),
         NEW v \in Seq(Int), Len(v) > 0, Len(v) < Reach * Cap, NEW g, g = setblob(f, m, BLOB, a, v)
  PROVE  getblob(g, m, BLOB, a) = Some(v) /\ Num(m, BLOB, a) \in DOMAIN g
<1>a. a \in 0..BADNODE
  BY Sizes
<1>b. \A x \in 0..BADNODE : Past(a, x) \in Nat
  BY <1>a, PastNat
<1>c. Chained(g, m, a) /\ Fits(g)
  BY SetChained, SetFits
<1>0. PICK n \in Nat : n = Len(v) /\ n > 0
  OBVIOUS
<1>n. n - 1 \in Nat
  BY <1>0
<1>1. PICK q \in Nat, r \in 0..(Cap - 1) : q = (n - 1) \div Cap /\ n - 1 = q * Cap + r
  BY <1>n, Divided
<1>2. PICK c \in Nat : c = q * Cap /\ (q + 1) * Cap = c + Cap
  BY Scaled
<1>3. c < n /\ n <= c + Cap
  BY <1>0, <1>1, <1>2, Sizes
<1>4. q < Reach /\ q \in 0..BADNODE
  <2>1. PICK k \in Nat : k = Reach /\ k <= BADNODE + 1
    BY Sizes DEF Room
  <2>2. PICK d \in Nat : d = k * Cap
    BY Scaled
  <2>3. c < d
    BY <1>0, <1>3, <2>1, <2>2
  <2>4. q < k
    BY <1>2, <2>2, <2>3, Scaled
  <2> QED BY <2>1, <2>4, Sizes
<1>5. PICK z \in 0..BADNODE : Past(a, z) = q
  BY <1>a, <1>4, PastOf
<1>6. Num(m, BLOB, z) \in DOMAIN g /\ g[Num(m, BLOB, z)] = Chunk(v, q)
  BY <1>0, <1>2, <1>3, <1>5, SetSlots
<1>7. Len(Chunk(v, q)) = n - c
  BY <1>0, <1>2, <1>3, ChunkOf
<1>8. Chain(g, m, BLOB, a)
      = {s \in DOMAIN g : \E x \in 0..BADNODE : s = Num(m, BLOB, x) /\ Past(a, x) < Reach}
  BY <1>c, ChainOf
<1>9. \A x \in 0..BADNODE : Num(m, BLOB, x)[4] = x
  BY DEF Num
<1>10. Ends(g, m, Num(m, BLOB, z))
  <2>1. CASE ~Full(g, Num(m, BLOB, z))
    BY <2>1 DEF Ends
  <2>2. CASE Full(g, Num(m, BLOB, z))
    <3>1. n - c = Cap
      BY <1>6, <1>7, <2>2 DEF Full
    <3>2. n = c + Cap
      BY <1>2, <3>1, Sizes
    <3>3. q + 1 < Reach
      <4>1. PICK k \in Nat : k = Reach
        BY Sizes DEF Room
      <4>2. (q + 1) * Cap < k * Cap
        BY <1>0, <1>2, <3>2, <4>1
      <4> QED BY <4>1, <4>2, Scaled
    <3>4. q < BADNODE
      BY <3>3, Sizes DEF Room
    <3>5. PICK y \in 0..BADNODE : y = Index(z, 1) /\ Past(a, y) = q + 1
      BY <1>a, <1>5, <3>4, PastOf
    <3>6. Num(m, BLOB, y) \notin DOMAIN g
      <4>1. ~(Past(a, y) * Cap < Len(v))
        BY <1>0, <1>2, <3>2, <3>5
      <4> QED BY <3>3, <3>5, <4>1, SetSlots
    <3> QED BY <1>9, <3>5, <3>6 DEF Ends
  <2> QED BY <2>1, <2>2
<1>11. ASSUME NEW x \in 0..BADNODE, Num(m, BLOB, x) \in DOMAIN g, Past(a, x) < Reach, x # z
       PROVE  ~Ends(g, m, Num(m, BLOB, x))
  <2>1. PICK p \in Nat : p = Past(a, x)
    BY <1>b
  <2>2. PICK d \in Nat : d = p * Cap /\ (p + 1) * Cap = d + Cap
    BY Scaled
  <2>3. d < n
    BY <1>0, <1>11, <2>1, <2>2, SetSlots
  <2>4. p < q
    <3>1. d < c + Cap
      BY <1>3, <2>3, Sizes
    <3>2. p * Cap < (q + 1) * Cap
      BY <1>2, <2>2, <3>1
    <3>3. p < q + 1
      BY <3>2, Scaled
    <3>4. p # q
      BY <1>a, <1>5, <1>11, <2>1, PastOf
    <3> QED BY <3>3, <3>4
  <2>5. d + Cap <= c
    BY <1>2, <2>2, <2>4, Scaled
  <2>6. d + Cap < n /\ d < n
    BY <1>3, <2>3, <2>5, Sizes
  <2>7. Full(g, Num(m, BLOB, x))
    <3>1. g[Num(m, BLOB, x)] = Chunk(v, p)
      BY <1>0, <2>1, <2>2, <2>6, SetSlots
    <3>a. p * Cap < Len(v) /\ (p + 1) * Cap <= Len(v)
      <4>1. d < Len(v) /\ d + Cap <= Len(v)
        BY <1>0, <2>6, Sizes
      <4> QED BY <2>2, <4>1
    <3>2. Len(Chunk(v, p)) = Cap
      BY <3>a, ChunkOf
    <3> QED BY <1>11, <3>1, <3>2 DEF Full
  <2>8. PICK y \in 0..BADNODE : y = Index(x, 1) /\ Past(a, y) = p + 1
    <3>1. p < BADNODE
      BY <1>4, <2>4, Sizes
    <3> QED BY <1>a, <2>1, <3>1, PastOf
  <2>9. Num(m, BLOB, y) \in DOMAIN g
    <3>1. Past(a, y) * Cap < Len(v)
      BY <1>0, <2>2, <2>6, <2>8
    <3> QED BY <3>1, SetSlots
  <2> QED BY <1>9, <2>7, <2>8, <2>9 DEF Ends
<1>12. LastOf(g, m, a) = {Num(m, BLOB, z)}
  <2>1. Num(m, BLOB, z) \in Chain(g, m, BLOB, a)
    BY <1>4, <1>5, <1>6, <1>8
  <2>2. \A s \in Chain(g, m, BLOB, a) : Ends(g, m, s) => s = Num(m, BLOB, z)
    BY <1>8, <1>11
  <2> QED BY <1>10, <2>1, <2>2 DEF LastOf
<1>13. Joined(g, m, a, Num(m, BLOB, z)) = v
  <2>1. Past(a, Num(m, BLOB, z)[4]) * Cap + Len(g[Num(m, BLOB, z)]) = n
    <3>1. Past(a, Num(m, BLOB, z)[4]) = q
      BY <1>5, <1>9
    <3>2. c + (n - c) = n
      BY <1>2
    <3> QED BY <1>2, <1>6, <1>7, <3>1, <3>2
  <2>2. ASSUME NEW p \in 1..n
        PROVE  g[Num(m, BLOB, Index(a, (p - 1) \div Cap))][((p - 1) % Cap) + 1] = v[p]
    <3>0. p - 1 \in Nat
      OBVIOUS
    <3>1. PICK j \in Nat, t \in 0..(Cap - 1) :
             j = (p - 1) \div Cap /\ t = (p - 1) % Cap /\ p - 1 = j * Cap + t
      BY <3>0, Divided
    <3>2. PICK d \in Nat : d = j * Cap
      BY Scaled
    <3>3. d < n /\ p = d + (t + 1) /\ t + 1 \in 1..Cap
      BY <3>1, <3>2, Sizes
    <3>4. j <= q
      <4>1. d < c + Cap
        BY <1>3, <3>3, Sizes
      <4>2. j * Cap < (q + 1) * Cap
        BY <1>2, <3>2, <4>1
      <4>3. j < q + 1
        BY <4>2, Scaled
      <4> QED BY <4>3
    <3>5. j \in 0..BADNODE
      BY <1>4, <3>4, Sizes
    <3>6. PICK x \in 0..BADNODE : x = Index(a, j) /\ Past(a, x) = j
      <4>1. Index(a, j) \in 0..BADNODE /\ Past(a, Index(a, j)) = j
        BY <1>a, <3>5, PastOf
      <4> QED BY <4>1
    <3>7. g[Num(m, BLOB, x)] = Chunk(v, j)
      BY <1>0, <3>2, <3>3, <3>6, SetSlots
    <3>8. Chunk(v, j)[t + 1] = v[p]
      <4>1. d < Len(v) /\ d + (t + 1) <= Len(v)
        BY <1>0, <3>3
      <4>2. Chunk(v, j)[t + 1] = v[d + (t + 1)]
        BY <3>2, <3>3, <4>1, ChunkOf
      <4> QED BY <3>3, <4>2
    <3> QED BY <3>1, <3>6, <3>7, <3>8
  <2>3. v = [p \in 1..n |-> v[p]]
    BY <1>0
  <2> QED BY <2>1, <2>2, <2>3, Zenon DEF Joined
<1>14. getblob(g, m, BLOB, a) = Some(v)
  <2>1. (CHOOSE s \in LastOf(g, m, a) : TRUE) = Num(m, BLOB, z)
    BY <1>12
  <2> QED BY <1>12, <1>13, <2>1, Reads
<1>15. Num(m, BLOB, a) \in DOMAIN g
  <2>1. Past(a, a) * Cap = 0
    BY <1>a, PastOf, Sizes
  <2> QED BY <1>a, <1>0, <2>1, SetSlots
<1> QED BY <1>14, <1>15

-----------------------------------------------------------------------------
(* Bytes.                                                                    *)

\* Integers become sequences of as many bytes as they are wide (persist.rs).
LEMMA LeBytes ==
  ASSUME NEW v \in Int, NEW w \in Nat
  PROVE  Le(v, w) \in Seq(Int) /\ Len(Le(v, w)) = w
BY StoreAssumption DEF Le

\* Whatever is put, its bytes are a sequence (persist.rs).
LEMMA PersistBytes ==
  ASSUME NEW T \in Types, NEW v \in ValuesOf(T)
  PROVE  to_netnode_bytes(T, v) \in Seq(Int)
<1>1. CASE T \in DOMAIN IntWidth
  <2>1. T \in {"u8", "i8", "u64", "i64"} /\ IntWidth[T] \in Nat
    BY <1>1, StoreAssumption DEF IntWidth
  <2>2. v \in Int
    BY <1>1, <2>1, StoreAssumption DEF ValuesOf, Signed
  <2> QED BY <1>1, <2>1, <2>2, LeBytes DEF to_netnode_bytes
<1>2. CASE T = "bool"
  BY <1>2 DEF to_netnode_bytes, IntWidth
<1>3. CASE T = "String"
  <2>1. T \notin DOMAIN IntWidth /\ T \notin Signed
    BY <1>3 DEF IntWidth, Signed
  <2>2. v \in Objects
    BY <1>3, <2>1 DEF ValuesOf
  <2> QED BY <1>3, <2>1, <2>2, StoreAssumption DEF to_netnode_bytes
<1>4. CASE T = "bytes"
  <2>1. T \notin DOMAIN IntWidth /\ T \notin Signed
    BY <1>4 DEF IntWidth, Signed
  <2>2. v \in Objects
    BY <1>4, <2>1 DEF ValuesOf
  <2> QED BY <1>4, <2>1, <2>2, StoreAssumption DEF to_netnode_bytes
<1> QED BY <1>1, <1>2, <1>3, <1>4 DEF Types

\* What a caller passes is a sequence of bytes.
LEMMA ObjectBytes == ASSUME NEW v \in Objects PROVE v \in Seq(Int)
BY StoreAssumption

\* A serde value is a list of bytes after its length (put_serde).
LEMMA PostcardBytes ==
  ASSUME NEW v \in Objects
  PROVE  Postcard(v) \in Seq(Int) /\ Len(Postcard(v)) = Len(v) + 1
<1>1. v \in Seq(Int)
  BY ObjectBytes
<1> QED BY <1>1 DEF Postcard

-----------------------------------------------------------------------------
(* Slots and entries.                                                        *)

\* Two arrays are two collections: only the tag keeps them apart, and it does
\* (tag.rs:21).
LEMMA CollectionsApart ==
  ASSUME UserTags, NEW t, NEW a, NEW u, NEW b, Array(t, a), Array(u, b),
         Collection(t, a) = Collection(u, b)
  PROVE  t = u /\ a = b
BY DEF UserTags, Array, Collection, Table, Slot, VALUE, ALTVAL, SUPVAL, HASH, BLOB

\* Two slots are two entries.
LEMMA EntriesApart ==
  ASSUME UserTags, NEW s, NEW r, IsSlot(s), IsSlot(r), At(s) = At(r)
  PROVE  s = r
<1>1. s[1] = r[1] /\ Collection(s[2], s[3]) = Collection(r[2], r[3]) /\ s[4] = r[4]
  BY DEF At
<1>2. s[2] = r[2] /\ s[3] = r[3]
  BY <1>1, CollectionsApart DEF IsSlot
<1> QED BY <1>1, <1>2 DEF IsSlot

-----------------------------------------------------------------------------
(* The store as objects: an object a slot, but a blob, which is as many      *)
(* slots as it has chunks.                                                   *)

StoredIn(f) == Fits(f) /\ \A m : \A a \in BlobStarts : Chained(f, m, a)

\* Every object is short enough for the reads to copy whole, and every blob
\* is one chain that ends within its room.
Stored == StoredIn(objs)

\* The object at a slot, whole.
Whole(f, s) == IF s[2] = BLOB THEN getblob(f, s[1], BLOB, s[4])[1] ELSE f[s]

\* What a write and a delete do to the objects.
Puts(f, g, slot, bytes) ==
  /\ Placed(g) = Placed(f) \cup {slot} /\ Whole(g, slot) = bytes
  /\ \A s \in Placed(f) \ {slot} : Whole(g, s) = Whole(f, s)
Drops(f, g, gone) ==
  /\ Placed(g) = Placed(f) \ gone
  /\ \A s \in Placed(g) : Whole(g, s) = Whole(f, s)

\* An object that starts at a slot of the blobs' array starts at one of theirs.
LEMMA PlacedOf ==
  ASSUME UserTags, NEW f, Fits(f), NEW s \in Placed(f)
  PROVE  /\ s \in DOMAIN f /\ IsSlot(s)
         /\ s[2] = BLOB => s = Num(s[1], BLOB, s[4]) /\ s[4] \in BlobStarts
BY DEF Placed, BlobStarts, Fits, IsSlot, Num, Array, UserTags, VALUE, ALTVAL, SUPVAL, HASH, BLOB

\* Stores that agree on a start's room show the same blob there.
LEMMA AgreeWhole ==
  ASSUME UserTags, Room(Reach), NEW f, NEW g, StoredIn(f), Fits(g),
         NEW s \in Placed(f), s[2] = BLOB, Agree(f, g, s[1], s[4])
  PROVE  Whole(g, s) = Whole(f, s)
<1>1. s[4] \in BlobStarts
  BY PlacedOf DEF StoredIn
<1>2. PICK n, b : n = s[1] /\ b = s[4]
  OBVIOUS
<1>3. Chained(f, n, b) /\ Fits(f) /\ b \in BlobStarts /\ Agree(f, g, n, b)
  BY <1>1, <1>2 DEF StoredIn
<1>4. getblob(g, n, BLOB, b) = getblob(f, n, BLOB, b)
  BY <1>3, AgreeReads
<1> QED BY <1>2, <1>4 DEF Whole

\* An object of any other array is put at its one slot.
LEMMA PutObject ==
  ASSUME UserTags, Room(Reach), NEW f, StoredIn(f), NEW slot, IsSlot(slot), slot[2] # BLOB,
         NEW bytes \in Seq(Int), Len(bytes) <= Cap, NEW g, g = Put(f, slot, bytes)
  PROVE  StoredIn(g) /\ Puts(f, g, slot, bytes)
<1>1. DOMAIN g = DOMAIN f \cup {slot} /\ g[slot] = bytes /\ \A s \in DOMAIN f \ {slot} : g[s] = f[s]
  BY DEF Put
<1>2. Fits(f) /\ Fits(g)
  BY <1>1 DEF StoredIn, Fits
<1>3. ASSUME NEW m, NEW a PROVE Agree(f, g, m, a)
  <2>1. \A x : Num(m, BLOB, x) # slot
    BY DEF Num
  <2> QED BY <1>1, <2>1 DEF Agree
<1>4. StoredIn(g)
  <2>1. ASSUME NEW m, NEW a \in BlobStarts PROVE Chained(g, m, a)
    BY <1>3, AgreeChained DEF StoredIn
  <2> QED BY <1>2, <2>1 DEF StoredIn
<1>5. Placed(g) = Placed(f) \cup {slot}
  BY <1>1 DEF Placed
<1>6. ASSUME NEW s \in Placed(f) \ {slot} PROVE Whole(g, s) = Whole(f, s)
  <2>1. CASE s[2] = BLOB
    BY <1>2, <1>3, <2>1, AgreeWhole
  <2>2. CASE s[2] # BLOB
    BY <1>1, <2>2 DEF Whole, Placed
  <2> QED BY <2>1, <2>2
<1>7. Whole(g, slot) = bytes
  BY <1>1 DEF Whole
<1> QED BY <1>4, <1>5, <1>6, <1>7 DEF Puts

\* A blob is put at a start, in place of the blob there and of no other
\* (netnode/mod.rs set_blob, put_serde_at).
LEMMA PutsBlob ==
  ASSUME UserTags, Room(Reach), NEW f, StoredIn(f), NEW m, NEW a \in BlobStarts,
         NEW v \in Seq(Int), Len(v) > 0, Len(v) < Reach * Cap, NEW g, g = setblob(f, m, BLOB, a, v)
  PROVE  StoredIn(g) /\ Puts(f, g, Num(m, BLOB, a), v)
<1>1. Fits(f) /\ Chained(f, m, a)
  BY DEF StoredIn
<1>2. Fits(g)
  BY <1>1, SetFits
<1>3. ASSUME NEW n, NEW b \in BlobStarts, <<n, b>> # <<m, a>> PROVE Agree(f, g, n, b)
  BY <1>1, <1>3, SetElsewhere
<1>4. StoredIn(g)
  <2>1. ASSUME NEW n, NEW b \in BlobStarts PROVE Chained(g, n, b)
    <3>1. CASE <<n, b>> = <<m, a>>
      BY <1>1, <3>1, SetChained
    <3>2. CASE <<n, b>> # <<m, a>>
      <4>1. Agree(f, g, n, b) /\ Chained(f, n, b)
        BY <1>3, <3>2 DEF StoredIn
      <4> QED BY <4>1, AgreeChained
    <3> QED BY <3>1, <3>2
  <2> QED BY <1>2, <2>1 DEF StoredIn
<1>5. getblob(g, m, BLOB, a) = Some(v) /\ Num(m, BLOB, a) \in DOMAIN g
  BY <1>1, SetReads
<1>a. \A x : x \in BlobStarts => x \in 0..BADNODE
  BY Sizes
<1>b. \A x \in 0..BADNODE : Num(m, BLOB, x)[4] = x
  BY DEF Num
<1>6. \A s : ~(\E x \in 0..BADNODE : s = Num(m, BLOB, x) /\ Past(a, x) < Reach) =>
              /\ s \in DOMAIN g <=> s \in DOMAIN f
              /\ s \in DOMAIN f => g[s] = f[s]
  BY <1>1, SetSlots
<1>7. ASSUME NEW x \in 0..BADNODE, Past(a, x) < Reach, x \in BlobStarts PROVE x = a
  <2>1. Past(x, x) < Reach
    <3>1. Past(x, x) = 0
      BY PastOf
    <3> QED BY <3>1, Sizes DEF Room
  <2> QED BY <1>7, <2>1 DEF Room
<1>8. ASSUME NEW s, s # Num(m, BLOB, a), s[2] = BLOB => s[4] \in BlobStarts
      PROVE  ~(\E x \in 0..BADNODE : s = Num(m, BLOB, x) /\ Past(a, x) < Reach)
  <2> SUFFICES ASSUME NEW x \in 0..BADNODE, s = Num(m, BLOB, x), Past(a, x) < Reach PROVE FALSE
    OBVIOUS
  <2>1. s[2] = BLOB /\ s[4] = x
    BY DEF Num
  <2> QED BY <1>7, <1>8, <2>1
<1>9. Placed(g) = Placed(f) \cup {Num(m, BLOB, a)}
  <2>1. \A s : s # Num(m, BLOB, a) => (s \in Placed(g) <=> s \in Placed(f))
    BY <1>6, <1>8 DEF Placed, BlobStarts
  <2>2. Num(m, BLOB, a) \in Placed(g)
    BY <1>5 DEF Placed, BlobStarts, Num
  <2> QED BY <2>1, <2>2
<1>10. ASSUME NEW s \in Placed(f) \ {Num(m, BLOB, a)} PROVE Whole(g, s) = Whole(f, s)
  <2>1. CASE s[2] = BLOB
    <3>1. s = Num(s[1], BLOB, s[4]) /\ s[4] \in BlobStarts
      BY <1>1, <2>1, PlacedOf
    <3>2. <<s[1], s[4]>> # <<m, a>>
      BY <1>10, <3>1
    <3>3. Agree(f, g, s[1], s[4])
      BY <1>3, <3>1, <3>2
    <3> QED BY <1>2, <2>1, <3>3, AgreeWhole
  <2>2. CASE s[2] # BLOB
    <3>1. s \in DOMAIN f /\ (s[2] = BLOB => s[4] \in BlobStarts)
      BY <2>2 DEF Placed
    <3>2. g[s] = f[s]
      BY <1>6, <1>8, <1>10, <3>1
    <3> QED BY <2>2, <3>2 DEF Whole
  <2> QED BY <2>1, <2>2
<1>11. Whole(g, Num(m, BLOB, a)) = v
  BY <1>5 DEF Whole, Num, Some
<1> QED BY <1>4, <1>9, <1>10, <1>11 DEF Puts

\* A delete that takes the room of each start whole or leaves it.
Parts(f, gone) ==
  \A m : \A a \in BlobStarts :
    \/ \A x \in 0..BADNODE : Past(a, x) < Reach /\ Num(m, BLOB, x) \in DOMAIN f => Num(m, BLOB, x) \in gone
    \/ \A x \in 0..BADNODE : Past(a, x) < Reach => Num(m, BLOB, x) \notin gone

\* Such a delete takes whole objects.
LEMMA DropObjects ==
  ASSUME UserTags, Room(Reach), NEW f, StoredIn(f), NEW gone, Parts(f, gone),
         NEW g, g = [s \in DOMAIN f \ gone |-> f[s]]
  PROVE  StoredIn(g) /\ Drops(f, g, gone)
<1>1. DOMAIN g = DOMAIN f \ gone /\ \A s \in DOMAIN g : g[s] = f[s]
  OBVIOUS
<1>2. Fits(f) /\ Fits(g)
  BY <1>1 DEF StoredIn, Fits
<1>3. ASSUME NEW m, NEW a, \A x \in 0..BADNODE : Past(a, x) < Reach => Num(m, BLOB, x) \notin gone
      PROVE  Agree(f, g, m, a)
  BY <1>1, <1>3 DEF Agree
<1>4. StoredIn(g)
  <2>1. ASSUME NEW m, NEW a \in BlobStarts PROVE Chained(g, m, a)
    <3>1. CASE \A x \in 0..BADNODE : Past(a, x) < Reach => Num(m, BLOB, x) \notin gone
      <4>1. Agree(f, g, m, a) /\ Chained(f, m, a)
        BY <1>3, <3>1 DEF StoredIn
      <4> QED BY <4>1, AgreeChained
    <3>2. CASE \A x \in 0..BADNODE :
                 Past(a, x) < Reach /\ Num(m, BLOB, x) \in DOMAIN f => Num(m, BLOB, x) \in gone
      <4>1. \A x \in 0..BADNODE : Past(a, x) < Reach => Num(m, BLOB, x) \notin DOMAIN g
        BY <1>1, <3>2
      <4>2. a \in 0..BADNODE
        BY Sizes
      <4>3. Past(a, a) = 0
        BY <4>2, PastOf
      <4>4. Past(a, a) < Reach
        BY <4>3, Sizes DEF Room
      <4>5. ~Full(g, Num(m, BLOB, a))
        BY <4>1, <4>2, <4>4 DEF Full
      <4> QED BY <4>1, <4>2, <4>4, <4>5 DEF Chained
    <3> QED BY <3>1, <3>2 DEF Parts
  <2> QED BY <1>2, <2>1 DEF StoredIn
<1>5. Placed(g) = Placed(f) \ gone
  BY <1>1 DEF Placed
<1>6. ASSUME NEW s \in Placed(g) PROVE Whole(g, s) = Whole(f, s)
  <2>1. s \in Placed(f) /\ s \notin gone /\ s \in DOMAIN f /\ s \in DOMAIN g
    BY <1>1, <1>5 DEF Placed
  <2>2. CASE s[2] = BLOB
    <3>1. PICK n, b : n = s[1] /\ b = s[4]
      OBVIOUS
    <3>2. s = Num(n, BLOB, b) /\ b \in BlobStarts /\ b \in 0..BADNODE
      BY <1>2, <2>1, <2>2, <3>1, PlacedOf, Sizes
    <3>3. Past(b, b) < Reach
      <4>1. Past(b, b) = 0
        BY <3>2, PastOf
      <4> QED BY <4>1, Sizes DEF Room
    <3>4. ~(\A x \in 0..BADNODE :
              Past(b, x) < Reach /\ Num(n, BLOB, x) \in DOMAIN f => Num(n, BLOB, x) \in gone)
      BY <2>1, <3>2, <3>3
    <3>5. \A x \in 0..BADNODE : Past(b, x) < Reach => Num(n, BLOB, x) \notin gone
      BY <3>2, <3>4 DEF Parts
    <3>6. Agree(f, g, n, b)
      BY <1>3, <3>5
    <3> QED BY <1>2, <2>1, <2>2, <3>1, <3>6, AgreeWhole
  <2>3. CASE s[2] # BLOB
    BY <1>1, <2>1, <2>3 DEF Whole
  <2> QED BY <2>2, <2>3
<1> QED BY <1>4, <1>5, <1>6 DEF Drops

\* The reads show every object whole, under the entry of its slot.
LEMMA ObservedSeen ==
  ASSUME UserTags
  PROVE  Stored => Observed = {Seen(s, Whole(objs, s)) : s \in Placed(objs)}
<1> SUFFICES ASSUME Stored, NEW s \in Placed(objs)
             PROVE  Shown(Entry(s[1], s[2], s[3], s[4])) = Seen(s, Whole(objs, s))
  <2>1. Observed = {Shown(Entry(s[1], s[2], s[3], s[4])) : s \in Placed(objs)}
    BY DEF Observed, Entries
  <2> QED BY <2>1
<1> DEFINE n == s[1]  t == s[2]  a == s[3]  k == s[4]
<1>0. s \in DOMAIN objs /\ IsSlot(s)
  BY DEF Placed, Stored, StoredIn, Fits
<1>1. s = <<n, t, a, k>> /\ Array(t, a) /\ objs[s] \in Seq(Int) /\ Len(objs[s]) <= Cap
  BY <1>0 DEF Stored, StoredIn, Fits, IsSlot
<1>w. t # BLOB => Whole(objs, s) = objs[s]
  BY DEF Whole
<1>2. Clamped(s) = Some(objs[s])
  <2>1. SubSeq(objs[s], 1, Len(objs[s])) = objs[s]
    BY <1>1
  <2>2. Len(objs[s]) \in Nat /\ Len(objs[s]) <= Cap
    BY <1>1
  <2>3. (IF Len(objs[s]) < Cap THEN Len(objs[s]) ELSE Cap) = Len(objs[s])
    BY <2>2, StoreAssumption
  <2> QED BY <1>0, <2>1, <2>3 DEF Clamped
<1>3. Read(s) = Some(objs[s])
  BY <1>0 DEF Read
<1>4. Array(t, a) /\ (t = VALUE => k = 0) /\ (a = "str" => CStr[k] = k)
  BY <1>0 DEF IsSlot
<1>5. CASE t = VALUE
  <2>1. s = Num(n, VALUE, 0)
    BY <1>1, <1>4, <1>5 DEF Num, UserTags, Array, VALUE, ALTVAL, SUPVAL, HASH, BLOB
  <2>2. value(n) = Some(objs[s])
    BY <1>2, <1>5, <2>1 DEF value, VALUE, BLOB
  <2>3. Entry(n, t, a, k) = <<<<n, <<"value">>, k>>, Some(objs[s])>>
    BY <1>5, <2>2 DEF Entry
  <2> QED BY <1>w, <1>5, <2>3 DEF BLOB, Shown, Seen, At, Collection, Some, VALUE, ALTVAL
<1>6. CASE t = ALTVAL
  <2>1. s = Num(n, ALTVAL, k)
    BY <1>1, <1>4, <1>6 DEF Num, UserTags, Array, VALUE, ALTVAL, SUPVAL, HASH, BLOB
  <2>2. altval(n, k) = Integer(Some(objs[s]))
    BY <1>3, <2>1 DEF altval
  <2>3. Entry(n, t, a, k) = <<<<n, <<"altval">>, k>>, Some(Integer(Some(objs[s])))>>
    BY <1>6, <2>2 DEF Entry, VALUE, ALTVAL
  <2> QED BY <1>w, <1>6, <2>3 DEF BLOB, Shown, Seen, At, Collection, Some, VALUE, ALTVAL
<1>7. CASE t = BLOB
  <2>1. s = Num(n, BLOB, k)
    BY <1>1, <1>4, <1>7 DEF Num, UserTags, Array, VALUE, ALTVAL, SUPVAL, HASH, BLOB
  <2>2. blob_at(n, k)[1] = Whole(objs, s)
    BY <1>7 DEF blob_at, Whole
  <2>3. Entry(n, t, a, k) = <<<<n, <<"blob">>, k>>, blob_at(n, k)>>
    BY <1>7 DEF Entry, VALUE, ALTVAL, BLOB
  <2> QED BY <1>7, <2>2, <2>3 DEF Shown, Seen, At, Collection, VALUE, ALTVAL, BLOB
<1>8. CASE t = HASH
  <2>1. s = Str(n, HASH, k)
    BY <1>1, <1>4, <1>8 DEF Str, UserTags, Array, VALUE, ALTVAL, SUPVAL, HASH, BLOB
  <2>2. hash(n, k) = Some(objs[s])
    BY <1>2, <1>8, <2>1 DEF hash, HASH, BLOB
  <2>3. Entry(n, t, a, k) = <<<<n, <<"hash">>, k>>, Some(objs[s])>>
    BY <1>8, <2>2 DEF Entry, VALUE, ALTVAL, BLOB, HASH
  <2> QED BY <1>w, <1>8, <2>3 DEF Shown, Seen, At, Collection, Some, VALUE, ALTVAL, BLOB, HASH
<1> DEFINE Reserved == {VALUE, ALTVAL, BLOB, HASH}
<1>9. CASE t \notin Reserved /\ a = "str"
  <2>1. s = Str(n, t, k)
    BY <1>1, <1>4, <1>9 DEF Str
  <2>2. tag_hash(n, t, k) = Some(objs[s])
    BY <1>2, <1>9, <2>1 DEF tag_hash
  <2>3. Entry(n, t, a, k) = <<<<n, Table(t), k>>, Some(objs[s])>>
    BY <1>9, <2>2 DEF Entry
  <2> QED BY <1>w, <1>9, <2>3 DEF Shown, Seen, At, Collection, Some
<1>10. CASE t \notin Reserved /\ a # "str"
  <2>1. s = Num(n, t, k)
    BY <1>1, <1>4, <1>10 DEF Num, Array
  <2>2. tag_value(n, t, k) = Some(objs[s]) /\ supval(n, k) = Clamped(Num(n, SUPVAL, k))
    BY <1>2, <1>10, <2>1 DEF tag_value, supval
  <2>3. Entry(n, t, a, k) = <<<<n, Slot(t), k>>, Some(objs[s])>>
    BY <1>2, <1>10, <2>1, <2>2 DEF Entry, Slot
  <2> QED BY <1>w, <1>10, <2>3 DEF Shown, Seen, At, Collection, Some
<1> QED BY <1>5, <1>6, <1>7, <1>8, <1>9, <1>10

-----------------------------------------------------------------------------
(* What a change of the store is, seen through the reads.                    *)

\* The same of the store a step leaves.
LEMMA ObservedSeenNext ==
  ASSUME UserTags
  PROVE  Stored' => Observed' = {Seen(s, Whole(objs', s)) : s \in Placed(objs')}
<1>1. (Stored => Observed = {Seen(s, Whole(objs, s)) : s \in Placed(objs)})'
  BY ObservedSeen, PTL
<1> QED BY <1>1

\* An object is seen under the entry of its slot.
LEMMA SeenAt == \A s, b : Seen(s, b)[1] = At(s)
BY DEF Seen

\* Each entry is one object's.
LEMMA PlacedApart ==
  ASSUME UserTags, Stored, NEW slot, IsSlot(slot), NEW s \in Placed(objs), At(s) = At(slot)
  PROVE  s = slot
<1>1. IsSlot(s)
  BY PlacedOf DEF Stored, StoredIn
<1> QED BY <1>1, EntriesApart

\* A write replaces one entry and touches no other.
LEMMA PutSeen ==
  ASSUME UserTags, Stored, Stored', NEW slot, NEW bytes, IsSlot(slot), Puts(objs, objs', slot, bytes)
  PROVE  Observed' = {e \in Observed : e[1] # At(slot)} \cup {Seen(slot, bytes)}
<1>1. Placed(objs') = Placed(objs) \cup {slot}
  BY DEF Puts
<1>2. Whole(objs', slot) = bytes /\ \A s \in Placed(objs) \ {slot} : Whole(objs', s) = Whole(objs, s)
  BY DEF Puts
<1>4. Observed' = {Seen(s, Whole(objs', s)) : s \in Placed(objs')}
  BY ObservedSeenNext
<1>5. Observed = {Seen(s, Whole(objs, s)) : s \in Placed(objs)}
  BY ObservedSeen
<1>6. \A s \in Placed(objs) \ {slot} : At(s) # At(slot)
  BY PlacedApart
<1>8. ASSUME NEW e \in Observed'
      PROVE  e \in {x \in Observed : x[1] # At(slot)} \cup {Seen(slot, bytes)}
  <2>1. PICK s \in Placed(objs') : e = Seen(s, Whole(objs', s))
    BY <1>4, <1>8
  <2>2. CASE s = slot
    BY <1>2, <2>1, <2>2
  <2>3. CASE s # slot
    <3>1. s \in Placed(objs) \ {slot} /\ e = Seen(s, Whole(objs, s))
      BY <1>1, <1>2, <2>1, <2>3
    <3> QED BY <3>1, <1>5, <1>6, SeenAt
  <2> QED BY <2>2, <2>3
<1>9. ASSUME NEW e \in Observed, e[1] # At(slot)
      PROVE  e \in Observed'
  <2>1. PICK s \in Placed(objs) : e = Seen(s, Whole(objs, s))
    BY <1>5, <1>9
  <2>2. s # slot
    BY SeenAt, <1>9, <2>1
  <2>3. s \in Placed(objs') /\ e = Seen(s, Whole(objs', s))
    BY <1>1, <1>2, <2>1, <2>2
  <2> QED BY <1>4, <2>3
<1>10. Seen(slot, bytes) \in Observed'
  BY <1>1, <1>2, <1>4
<1> QED BY <1>8, <1>9, <1>10

\* A delete takes the entries of its objects and no other (kernel del calls).
LEMMA DeleteSeen ==
  ASSUME UserTags, Room(Reach), Stored, NEW gone, Parts(objs, gone),
         objs' = [s \in DOMAIN objs \ gone |-> objs[s]]
  PROVE  /\ Stored'
         /\ Observed' = {e \in Observed : \A s \in gone \cap Placed(objs) : e[1] # At(s)}
         /\ Observed' # Observed <=> gone \cap Placed(objs) # {}
<1>1. StoredIn(objs') /\ Drops(objs, objs', gone)
  BY DropObjects DEF Stored
<1>2. Stored'
  BY <1>1 DEF Stored
<1>0. Placed(objs') = Placed(objs) \ gone /\ \A s \in Placed(objs') : Whole(objs', s) = Whole(objs, s)
  BY <1>1 DEF Drops
<1>3. Observed' = {Seen(s, Whole(objs', s)) : s \in Placed(objs')}
  BY <1>2, ObservedSeenNext
<1>4. Observed = {Seen(s, Whole(objs, s)) : s \in Placed(objs)}
  BY ObservedSeen
<1>5. \A s, r \in Placed(objs) : At(s) = At(r) => s = r
  BY PlacedApart, PlacedOf DEF Stored, StoredIn
<1>7. ASSUME NEW e \in Observed'
      PROVE  e \in Observed /\ \A s \in gone \cap Placed(objs) : e[1] # At(s)
  <2>1. PICK r \in Placed(objs') : e = Seen(r, Whole(objs', r))
    BY <1>3, <1>7
  <2>2. r \in Placed(objs) \ gone /\ e = Seen(r, Whole(objs, r))
    BY <1>0, <2>1
  <2> QED BY <1>4, <1>5, SeenAt, <2>2
<1>8. ASSUME NEW e \in Observed, \A s \in gone \cap Placed(objs) : e[1] # At(s)
      PROVE  e \in Observed'
  <2>1. PICK r \in Placed(objs) : e = Seen(r, Whole(objs, r))
    BY <1>4, <1>8
  <2>2. r \notin gone
    BY SeenAt, <1>8, <2>1
  <2>3. r \in Placed(objs') /\ e = Seen(r, Whole(objs', r))
    BY <1>0, <2>1, <2>2
  <2> QED BY <1>3, <2>3
<1>9. Observed' = {e \in Observed : \A s \in gone \cap Placed(objs) : e[1] # At(s)}
  BY <1>7, <1>8
<1>10. ASSUME gone \cap Placed(objs) = {} PROVE Observed' = Observed
  BY <1>9, <1>10
<1>11. ASSUME gone \cap Placed(objs) # {} PROVE Observed' # Observed
  <2>1. PICK s \in Placed(objs) : s \in gone
    BY <1>11
  <2>2. Seen(s, Whole(objs, s)) \in Observed /\ Seen(s, Whole(objs, s)) \notin Observed'
    BY <1>4, SeenAt, <1>9, <2>1
  <2> QED BY <2>2
<1> QED BY <1>2, <1>9, <1>10, <1>11

\* A step that leaves the store leaves what is seen of it.
LEMMA UnchangedSeen ==
  ASSUME UserTags, Stored, objs' = objs
  PROVE  Stored' /\ Observed' = Observed
<1>1. Stored'
  BY DEF Stored
<1> QED BY <1>1, ObservedSeen, ObservedSeenNext

\* Slots of other arrays are no part of a blob.
LEMMA OthersPart ==
  ASSUME NEW f, NEW gone, \A s \in gone : s[2] # BLOB
  PROVE  Parts(f, gone)
BY DEF Parts, Num

-----------------------------------------------------------------------------
(* The steps.                                                                *)

\* A write the kernel takes or refuses is a Set or a Refuse (mod.rs checked).
LEMMA WriteMaps ==
  ASSUME UserTags, Stored, NEW slot, NEW bytes, IsSlot(slot), NEW written,
         StoredIn(written) /\ Puts(objs, written, slot, bytes),
         NEW at, NEW v, <<at, v>> = Seen(slot, bytes), checked(written, at, v), UNCHANGED names
  PROVE  Stored' /\ Map!Next
<1>0. at = At(slot)
  BY DEF Seen
<1>1. CASE objs' = written /\ Reply("set", at, v, "ok")
  <2>1. call'.op = "set" /\ call'.at = at /\ call'.value = v /\ call'.answer = "ok"
    BY <1>1 DEF Reply
  <2>0. Stored' /\ Puts(objs, objs', slot, bytes)
    BY <1>1 DEF Stored
  <2>2. Observed' = {e \in Observed : e[1] # At(slot)} \cup {Seen(slot, bytes)}
    BY <2>0, PutSeen
  <2>3. Map!Set
    BY <1>0, <2>1, <2>2 DEF Map!Set
  <2> QED BY <2>0, <2>3 DEF Map!Next
<1>2. CASE objs' = objs /\ Reply("set", at, v, "WriteRejected")
  <2>1. call'.op = "set" /\ call'.answer = "WriteRejected"
    BY <1>2 DEF Reply
  <2>2. Stored' /\ Observed' = Observed
    BY <1>2, UnchangedSeen
  <2>3. Map!Refuse
    BY <2>1, <2>2 DEF Map!Refuse
  <2> QED BY <2>2, <2>3 DEF Map!Next
<1> QED BY <1>1, <1>2 DEF checked

\* A byte object is refused for what it is, or written (bytes.rs validate).
LEMMA BytesMaps ==
  ASSUME UserTags, Room(Reach), Stored, NEW slot, NEW bytes, IsSlot(slot), slot[2] # ALTVAL,
         slot[2] # BLOB, bytes \in Seq(Int), Bytes(slot, bytes, At(slot))
  PROVE  Stored' /\ Map!Next
<1>1. Len(bytes) \in Nat /\ Cap \in Nat /\ UNCHANGED names
  BY StoreAssumption DEF Bytes
<1>2. CASE validate(bytes) # "ok"
  <2>1. objs' = objs /\ Reply("set", At(slot), bytes, validate(bytes))
    BY <1>2 DEF Bytes
  <2>2. call'.op = "set" /\ call'.value = bytes /\ call'.answer = validate(bytes)
    BY <2>1 DEF Reply
  <2>3. \/ validate(bytes) = "Empty" /\ bytes = <<>>
        \/ validate(bytes) = "TooLarge" /\ Len(bytes) > Cap
    BY <1>2 DEF validate
  <2>4. Stored' /\ Observed' = Observed
    BY <2>1, UnchangedSeen
  <2>5. Map!Refuse
    BY <1>1, <2>2, <2>3, <2>4 DEF Map!Refuse
  <2> QED BY <2>4, <2>5 DEF Map!Next
<1>3. CASE validate(bytes) = "ok"
  <2>1. Len(bytes) \in 1..Cap
    BY <1>1, <1>3 DEF validate
  <2>2. checked(Put(objs, slot, bytes), At(slot), bytes)
    BY <1>3, <2>1 DEF Bytes, FacadeAccepts
  <2>4. PICK written : written = Put(objs, slot, bytes)
    OBVIOUS
  <2>5. StoredIn(written) /\ Puts(objs, written, slot, bytes)
    <3>1. Len(bytes) <= Cap /\ StoredIn(objs)
      BY <2>1 DEF Stored
    <3> QED BY <2>4, <3>1, PutObject
  <2>3. <<At(slot), bytes>> = Seen(slot, bytes)
    BY DEF Seen
  <2> QED BY <1>1, <2>2, <2>3, <2>4, <2>5, WriteMaps
<1> QED BY <1>2, <1>3

\* A delete of one slot is a Remove of its entry (mod.rs delete_ops!).
LEMMA RemoveMaps ==
  ASSUME UserTags, Room(Reach), Stored, NEW slot, IsSlot(slot), slot[2] # BLOB, Delete("remove", {slot}, At(slot))
  PROVE  Stored' /\ Map!Next
<1>1. objs' = [s \in DOMAIN objs \ {slot} |-> objs[s]] /\ UNCHANGED names
  BY DEF Delete
<1>2. /\ call'.op = "remove" /\ call'.at = At(slot)
      /\ call'.answer = ({slot} \cap DOMAIN objs # {})
  BY DEF Delete, Reply
<1>p. {slot} \cap DOMAIN objs = {slot} \cap Placed(objs)
  BY DEF Placed
<1>3. /\ Stored'
      /\ Observed' = {e \in Observed : \A s \in {slot} \cap Placed(objs) : e[1] # At(s)}
      /\ Observed' # Observed <=> {slot} \cap DOMAIN objs # {}
  <2>1. Parts(objs, {slot})
    BY OthersPart
  <2> QED BY <1>1, <1>p, <2>1, DeleteSeen
<1>4. \A e \in Observed : e[1] = At(slot) => slot \in Placed(objs)
  <2> SUFFICES ASSUME NEW s \in Placed(objs), At(s) = At(slot) PROVE slot \in Placed(objs)
    BY ObservedSeen DEF Seen
  <2> QED BY PlacedApart
<1>5. Observed' = {e \in Observed : e[1] # At(slot)}
  BY <1>3, <1>4
<1>6. call'.answer = (Observed' # Observed)
  BY <1>2, <1>3, Zenon
<1>7. Map!Remove
  BY <1>1, <1>2, <1>5, <1>6 DEF Map!Remove
<1> QED BY <1>3, <1>7 DEF Map!Next

\* A delete of an array is a Clear of its collection (mod.rs delete_ops!).
LEMMA ClearMaps ==
  ASSUME UserTags, Room(Reach), Stored, NEW n, NEW t, NEW a, Array(t, a), t # BLOB,
         Delete("clear", Slots(n, t, a), <<n, Collection(t, a)>>)
  PROVE  Stored' /\ Map!Next
<1> DEFINE c == <<n, Collection(t, a)>>
<1>0. PICK gone : gone = Slots(n, t, a)
  OBVIOUS
<1>1. objs' = [s \in DOMAIN objs \ gone |-> objs[s]] /\ UNCHANGED names
  BY <1>0 DEF Delete
<1>2. /\ call'.op = "clear" /\ call'.at = c
      /\ call'.answer = (gone \cap DOMAIN objs # {})
  BY <1>0 DEF Delete, Reply
<1>o. \A s \in gone : s[2] # BLOB
  BY <1>0 DEF Slots
<1>p. gone \cap DOMAIN objs = gone \cap Placed(objs)
  BY <1>o DEF Placed
<1>3. /\ Stored'
      /\ Observed' = {e \in Observed : \A s \in gone \cap Placed(objs) : e[1] # At(s)}
      /\ Observed' # Observed <=> gone \cap DOMAIN objs # {}
  <2>1. Parts(objs, gone)
    BY <1>o, OthersPart
  <2> QED BY <1>1, <1>p, <2>1, DeleteSeen
<1>4. ASSUME NEW s \in Placed(objs)
      PROVE  <<At(s)[1], At(s)[2]>> = c <=> s \in gone
  <2>0. s \in DOMAIN objs /\ IsSlot(s)
    BY PlacedOf DEF Stored, StoredIn
  <2>1. Array(s[2], s[3])
    BY <2>0 DEF IsSlot
  <2>2. <<At(s)[1], At(s)[2]>> = <<s[1], Collection(s[2], s[3])>>
    BY DEF At
  <2>3. Collection(s[2], s[3]) = Collection(t, a) => s[2] = t /\ s[3] = a
    BY <2>1, CollectionsApart
  <2> QED BY <1>0, <2>0, <2>2, <2>3 DEF Slots
<1>5. ASSUME NEW e \in Observed
      PROVE  (\A s \in gone \cap Placed(objs) : e[1] # At(s)) <=> <<e[1][1], e[1][2]>> # c
  <2>1. PICK r \in Placed(objs) : e[1] = At(r)
    BY <1>5, ObservedSeen DEF Seen
  <2>2. \A s \in Placed(objs) : At(s) = At(r) => s = r
    BY PlacedApart, PlacedOf DEF Stored, StoredIn
  <2> QED BY <1>4, <2>1, <2>2
<1>6. Observed' = {e \in Observed : <<e[1][1], e[1][2]>> # c}
  BY <1>3, <1>5
<1>7. call'.answer = (Observed' # Observed)
  BY <1>2, <1>3, Zenon
<1>8. Map!Clear
  BY <1>1, <1>2, <1>6, <1>7 DEF Map!Clear
<1> QED BY <1>3, <1>8 DEF Map!Next

\* The slots and entries of a numeric array and of a hash.
LEMMA SlotAt ==
  ASSUME NEW n, NEW t, NEW k
  PROVE  /\ Array(t, "num") /\ (t = VALUE => k = 0) /\ (t = BLOB => k \in 0..BADNODE) =>
              IsSlot(Num(n, t, k))
         /\ Array(t, "str") /\ t # VALUE /\ t # BLOB /\ k \in Keys => IsSlot(Str(n, t, k))
         /\ Num(n, t, k)[2] = t /\ At(Num(n, t, k)) = <<n, Collection(t, "num"), k>>
         /\ Str(n, t, k)[2] = t /\ At(Str(n, t, k)) = <<n, Collection(t, "str"), CStr[k]>>
<1>1. k \in Keys => CStr[k] \in Keys /\ CStr[CStr[k]] = CStr[k]
  BY StoreAssumption
<1> QED BY <1>1 DEF IsSlot, Num, Str, At

\* The arrays of the writes, and the collections their answers name.
LEMMA Arrays ==
  ASSUME UserTags
  PROVE  /\ Array(VALUE, "num") /\ Collection(VALUE, "num") = <<"value">>
         /\ Array(ALTVAL, "num") /\ Collection(ALTVAL, "num") = <<"altval">>
         /\ Array(SUPVAL, "num") /\ Collection(SUPVAL, "num") = <<"supval">>
         /\ Array(BLOB, "num") /\ Collection(BLOB, "num") = <<"blob">>
         /\ Array(HASH, "str") /\ Collection(HASH, "str") = <<"hash">>
         /\ \A t \in Tags : /\ t \notin {VALUE, ALTVAL, BLOB, HASH}
                             /\ Array(t, "num") /\ Collection(t, "num") = Slot(t)
                             /\ Array(t, "str") /\ Collection(t, "str") = Table(t)
         /\ VALUE \notin {ALTVAL, SUPVAL, BLOB, HASH} /\ ALTVAL \notin {SUPVAL, BLOB, HASH}
         /\ SUPVAL \notin {BLOB, HASH} /\ BLOB # HASH
BY DEF UserTags, Array, Collection, Slot, Table, VALUE, ALTVAL, SUPVAL, HASH, BLOB

\* An integer is the Width bytes of a u64, seen as those bytes or, in the
\* altvals, as the integer (mod.rs set_altval, set_hash_integer; tagged.rs).
LEMMA IntegerMaps ==
  ASSUME UserTags, Room(Reach), Stored, NEW slot, IsSlot(slot), slot[2] # BLOB, NEW v \in Integers64, NEW shown,
         shown = IF slot[2] = ALTVAL THEN v ELSE Le(v, Width),
         PutInteger(slot, v, At(slot), shown)
  PROVE  Stored' /\ Map!Next
<1>1. v \in Int /\ Width \in Nat /\ Width <= Cap
  BY StoreAssumption
<1>2. Le(v, Width) \in Seq(Int) /\ Len(Le(v, Width)) <= Cap
  BY <1>1, LeBytes
<1>3. <<At(slot), shown>> = Seen(slot, Le(v, Width))
  BY CodecAssumption DEF Seen
<1>4. PICK written : written = Put(objs, slot, Le(v, Width))
  OBVIOUS
<1>5. checked(written, At(slot), shown) /\ UNCHANGED names
  BY <1>4 DEF PutInteger, Write
<1>6. StoredIn(written) /\ Puts(objs, written, slot, Le(v, Width))
  BY <1>2, <1>4, PutObject DEF Stored
<1> QED BY <1>3, <1>5, <1>6, WriteMaps

\* A blob of any length is seen whole (mod.rs set_blob, put_serde_at).
LEMMA BlobMaps ==
  ASSUME UserTags, Room(Reach), Stored, NEW i \in BlobStarts, NEW v \in Seq(Int), Len(v) > 0,
         Len(v) < Reach * Cap, PutBlob(BLOB, i, v)
  PROVE  Stored' /\ Map!Next
<1>0. PICK n : n = id
  OBVIOUS
<1>1. PICK slot : slot = Num(n, BLOB, i)
  OBVIOUS
<1>2. IsSlot(slot) /\ slot[2] = BLOB /\ At(slot) = <<n, <<"blob">>, i>>
  <2>1. i \in 0..BADNODE
    BY Sizes
  <2> QED BY <1>1, <2>1, SlotAt, Arrays
<1>3. <<At(slot), v>> = Seen(slot, v)
  BY <1>2, Arrays DEF Seen
<1>4. PICK written : written = setblob(objs, n, BLOB, i, v)
  OBVIOUS
<1>5. checked(written, At(slot), v) /\ UNCHANGED names
  BY <1>0, <1>2, <1>4 DEF PutBlob, Write
<1>6. StoredIn(written) /\ Puts(objs, written, slot, v)
  BY <1>1, <1>4, PutsBlob DEF Stored
<1> QED BY <1>2, <1>3, <1>5, <1>6, WriteMaps

\* What a caller puts as a blob is not empty and fits the room of a start.
LEMMA BlobsFit ==
  ASSUME Room(Reach), NEW v \in Objects
  PROVE  /\ v # <<>> => v \in Seq(Int) /\ Len(v) > 0 /\ Len(v) < Reach * Cap
         /\ Postcard(v) \in Seq(Int) /\ Len(Postcard(v)) > 0 /\ Len(Postcard(v)) < Reach * Cap
<1>0. v \in Seq(Int) /\ Len(v) \in Nat /\ (v # <<>> => Len(v) > 0)
  BY ObjectBytes
<1>1. PICK k \in Nat : k = Reach
  BY Sizes DEF Room
<1>2. PICK c \in Nat : c = Reach * Cap
  BY <1>1, Scaled
<1>3. Len(v) + 1 < c
  BY <1>2 DEF Room
<1> QED BY <1>0, <1>2, <1>3, PostcardBytes

\* remove_blob takes the blob at 0 and no other (mod.rs delete_ops!).
LEMMA RemoveBlobMaps ==
  ASSUME UserTags, Room(Reach), Stored, remove_blob
  PROVE  Stored' /\ Map!Next
<1>0. PICK n : n = id
  OBVIOUS
<1>1. PICK slot : slot = Num(n, BLOB, 0)
  OBVIOUS
<1>2. PICK gone : gone = Chain(objs, n, BLOB, 0)
  OBVIOUS
<1>z. 0 \in 0..BADNODE /\ 0 \in BlobStarts
  BY Sizes
<1>3. gone = {s \in DOMAIN objs : \E x \in 0..BADNODE : s = Num(n, BLOB, x) /\ Past(0, x) < Reach}
  BY <1>2, <1>z, ChainOf DEF Stored, StoredIn
<1>4. IsSlot(slot) /\ At(slot) = <<n, <<"blob">>, 0>>
  BY <1>1, <1>z, SlotAt, Arrays
<1>5. objs' = [s \in DOMAIN objs \ gone |-> objs[s]] /\ UNCHANGED names
  BY <1>0, <1>2 DEF remove_blob, Delete
<1>6. call'.op = "remove" /\ call'.at = At(slot) /\ call'.answer = (gone \cap DOMAIN objs # {})
  BY <1>0, <1>2, <1>4 DEF remove_blob, Delete, Reply
<1>7. Parts(objs, gone)
  <2> SUFFICES ASSUME NEW m, NEW a \in BlobStarts
               PROVE  \/ \A x \in 0..BADNODE :
                           Past(a, x) < Reach /\ Num(m, BLOB, x) \in DOMAIN objs => Num(m, BLOB, x) \in gone
                      \/ \A x \in 0..BADNODE : Past(a, x) < Reach => Num(m, BLOB, x) \notin gone
    BY DEF Parts
  <2>1. CASE m = n /\ a = 0
    BY <1>3, <2>1
  <2>2. CASE ~(m = n /\ a = 0)
    <3> SUFFICES ASSUME NEW x \in 0..BADNODE, Past(a, x) < Reach, Num(m, BLOB, x) \in gone PROVE FALSE
      OBVIOUS
    <3>1. PICK y \in 0..BADNODE : Num(m, BLOB, x) = Num(n, BLOB, y) /\ Past(0, y) < Reach
      BY <1>3
    <3>2. m = n /\ x = y
      BY <3>1 DEF Num
    <3> QED BY <1>z, <2>2, <3>1, <3>2 DEF Room
  <2> QED BY <2>1, <2>2
<1>8. /\ Stored'
      /\ Observed' = {e \in Observed : \A s \in gone \cap Placed(objs) : e[1] # At(s)}
      /\ Observed' # Observed <=> gone \cap Placed(objs) # {}
  BY <1>5, <1>7, DeleteSeen
<1>r. Past(0, 0) < Reach /\ Past(0, 0) = 0 /\ \A x \in 0..BADNODE : Past(0, x) \in Nat /\ (Past(0, x) = 0 => x = 0)
  <2>1. Past(0, 0) = 0 /\ \A x \in 0..BADNODE : Past(0, x) = Past(0, 0) => x = 0
    BY <1>z, PastOf
  <2>2. 0 < Reach
    BY Sizes DEF Room
  <2>3. \A x \in 0..BADNODE : Past(0, x) \in Nat
    BY <1>z, PastNat
  <2> QED BY <2>1, <2>2, <2>3
<1>9. slot \in gone <=> slot \in DOMAIN objs
  BY <1>1, <1>3, <1>z, <1>r
<1>10. gone \cap Placed(objs) = {slot} \cap Placed(objs)
  <2>1. ASSUME NEW s \in gone, s \in Placed(objs) PROVE s = slot
    <3>1. PICK x \in 0..BADNODE : s = Num(n, BLOB, x) /\ Past(0, x) < Reach
      BY <1>3
    <3>2. x \in BlobStarts
      BY <2>1, <3>1 DEF Placed, Num, BlobStarts
    <3>3. Past(x, x) < Reach
      <4>1. Past(x, x) = 0
        BY PastOf
      <4> QED BY <1>r, <4>1
    <3>4. x = 0
      BY <1>z, <3>1, <3>2, <3>3 DEF Room
    <3> QED BY <1>1, <3>1, <3>4
  <2>2. slot \in Placed(objs) => slot \in DOMAIN objs
    BY DEF Placed
  <2> QED BY <1>9, <2>1, <2>2
<1>11. gone \cap DOMAIN objs # {} <=> slot \in Placed(objs)
  <2>1. ASSUME NEW s \in gone PROVE slot \in DOMAIN objs
    <3>1. PICK x \in 0..BADNODE : s = Num(n, BLOB, x) /\ Past(0, x) < Reach /\ s \in DOMAIN objs
      BY <1>3, <2>1
    <3>2. CASE x = 0
      BY <1>1, <3>1, <3>2
    <3>3. CASE x # 0
      <4>1. Past(0, 0) < Past(0, x)
        BY <1>r, <3>3
      <4>2. Chained(objs, n, 0)
        BY <1>z DEF Stored, StoredIn
      <4>3. Full(objs, Num(n, BLOB, 0))
        BY <1>z, <3>1, <4>1, <4>2 DEF Chained
      <4> QED BY <1>1, <4>3 DEF Full
    <3> QED BY <3>2, <3>3
  <2>2. slot \in DOMAIN objs <=> slot \in Placed(objs)
    BY <1>1, <1>z DEF Placed, Num, BlobStarts
  <2> QED BY <1>9, <2>1, <2>2
<1>12. \A e \in Observed : e[1] = At(slot) => slot \in Placed(objs)
  <2> SUFFICES ASSUME NEW s \in Placed(objs), At(s) = At(slot) PROVE slot \in Placed(objs)
    BY ObservedSeen DEF Seen
  <2> QED BY <1>4, PlacedApart
<1>13. Observed' = {e \in Observed : e[1] # At(slot)}
  BY <1>8, <1>10, <1>12
<1>14. call'.answer = (Observed' # Observed)
  <2>1. (gone \cap DOMAIN objs # {}) <=> (Observed' # Observed)
    BY <1>8, <1>10, <1>11
  <2> QED BY <1>6, <2>1, Zenon
<1>15. Map!Remove
  BY <1>5, <1>6, <1>13, <1>14 DEF Map!Remove
<1> QED BY <1>8, <1>15 DEF Map!Next

\* A value that does not encode changes nothing (mod.rs put_serde).
LEMMA SerializeFailedMaps ==
  ASSUME UserTags, Stored, NEW at, SerializeFailed(at)
  PROVE  Stored' /\ Map!Next
<1>1. Stored' /\ Observed' = Observed /\ UNCHANGED names
  BY UnchangedSeen DEF SerializeFailed
<1>2. call'.op = "set" /\ call'.answer = "SerializeFailed"
  BY DEF SerializeFailed, Reply
<1> QED BY <1>1, <1>2 DEF Map!Next, Map!Refuse

\* set_hash takes any bytes; put and put_serde go through it.
LEMMA HashMaps ==
  ASSUME UserTags, Room(Reach), Stored, NEW k \in Keys, NEW bytes \in Seq(Int), set_hash(k, bytes)
  PROVE  Stored' /\ Map!Next
<1>1. PICK n : n = id
  OBVIOUS
<1>2. PICK slot : slot = Str(n, HASH, k)
  OBVIOUS
<1>3. IsSlot(slot) /\ slot[2] # ALTVAL /\ slot[2] # BLOB /\ At(slot) = <<n, <<"hash">>, CStr[k]>>
  BY <1>2, SlotAt, Arrays
<1>4. Bytes(slot, bytes, At(slot))
  BY <1>1, <1>2, <1>3 DEF set_hash
<1> QED BY <1>3, <1>4, BytesMaps

\* kill takes the node's name and everything of it (mod.rs:647).
LEMMA KillMaps ==
  ASSUME UserTags, Room(Reach), Stored, kill
  PROVE  Stored' /\ Map!Next
<1>1. PICK n : n = id
  OBVIOUS
<1>2. PICK gone : gone = {s \in DOMAIN objs : s[1] = n}
  OBVIOUS
<1>3. objs' = [s \in DOMAIN objs \ gone |-> objs[s]]
  <2>1. DOMAIN objs \ gone = {o \in DOMAIN objs : o[1] # id}
    BY <1>1, <1>2
  <2> QED BY <2>1 DEF kill
<1>4. call'.op = "kill" /\ call'.at[1] = n /\ names' = [m \in DOMAIN names \ {n} |-> names[m]]
  BY <1>1 DEF kill, Reply
<1>p. Parts(objs, gone)
  BY <1>2 DEF Parts, Num
<1>5. Stored' /\ Observed' = {e \in Observed : \A s \in gone \cap Placed(objs) : e[1] # At(s)}
  BY <1>3, <1>p, DeleteSeen
<1>6. ASSUME NEW e \in Observed
      PROVE  (\A s \in gone \cap Placed(objs) : e[1] # At(s)) <=> e[1][1] # n
  <2>1. PICK r \in Placed(objs) : e[1] = At(r)
    BY <1>6, ObservedSeen DEF Seen
  <2>2. \A s \in Placed(objs) : At(s)[1] = s[1] /\ s \in DOMAIN objs
    BY DEF At, Placed
  <2> QED BY <1>2, <2>1, <2>2
<1>7. Observed' = {e \in Observed : e[1][1] # n}
  BY <1>5, <1>6
<1>8. Map!Kill
  BY <1>4, <1>7 DEF Map!Kill, Map!Unnamed
<1> QED BY <1>5, <1>8 DEF Map!Next

\* A new name gets a node with neither name nor data (mod.rs:100).
LEMMA OpenMaps ==
  ASSUME UserTags, Stored, NEW n \in Names, netnode_mut(n)
  PROVE  Stored' /\ Map!Next
<1>1. Stored' /\ Observed' = Observed
  BY UnchangedSeen DEF netnode_mut
<1>2. PICK m \in Nodes :
        /\ IF \E o \in DOMAIN names : names[o] = n
           THEN m \in DOMAIN names /\ names[m] = n /\ names' = names
           ELSE ~exists(m) /\ names' = Put(names, m, n)
        /\ Reply("open", <<m>>, n, "ok")
  BY DEF netnode_mut
<1>3. call'.op = "open" /\ call'.at[1] = m /\ call'.value = n
  BY <1>2 DEF Reply
<1>4. CASE \E o \in DOMAIN names : names[o] = n
  BY <1>1, <1>2, <1>3, <1>4 DEF Map!Next, Map!Open
<1>5. CASE ~\E o \in DOMAIN names : names[o] = n
  <2>1. ~exists(m) /\ names' = Put(names, m, n)
    BY <1>2, <1>5
  <2>2. \A e \in Observed : e[1][1] # m
    <3> SUFFICES ASSUME NEW s \in Placed(objs) PROVE At(s)[1] # m
      BY ObservedSeen DEF Seen
    <3> QED BY <2>1 DEF exists, At, Placed
  <2>3. m \notin Map!Live
    BY <2>1, <2>2 DEF Map!Live, exists
  <2>4. names' = Map!Named(m, n)
    BY <2>1 DEF Put, Map!Named
  <2> QED BY <1>1, <1>3, <1>5, <2>3, <2>4 DEF Map!Next, Map!Open
<1> QED BY <1>4, <1>5

\* A name another node has is refused, and an empty one clears (mod.rs:503).
LEMMA RenameMaps ==
  ASSUME UserTags, Stored, NEW n, rename(n)
  PROVE  Stored' /\ Map!Next
<1>1. Stored' /\ Observed' = Observed
  BY UnchangedSeen DEF rename
<1>2. PICK m : m = id
  OBVIOUS
<1>3. CASE \E o \in DOMAIN names \ {m} : names[o] = n
  <2>1. names' = names /\ Reply("rename", <<m>>, n, "WriteRejected")
    BY <1>2, <1>3 DEF rename
  <2>2. call'.op = "rename" /\ call'.answer = "WriteRejected"
    BY <2>1 DEF Reply
  <2> QED BY <1>1, <2>1, <2>2 DEF Map!Next, Map!Refuse
<1>4. CASE ~\E o \in DOMAIN names \ {m} : names[o] = n
  <2>1. /\ names' = IF n = "" THEN [o \in DOMAIN names \ {m} |-> names[o]] ELSE Put(names, m, n)
        /\ Reply("rename", <<m>>, n, "ok")
    BY <1>2, <1>4 DEF rename
  <2>2. call'.op = "rename" /\ call'.answer = "ok" /\ call'.at[1] = m /\ call'.value = n
    BY <2>1 DEF Reply
  <2>3. names' = IF n = "" THEN Map!Unnamed(m) ELSE Map!Named(m, n)
    BY <2>1 DEF Put, Map!Named, Map!Unnamed
  <2> QED BY <1>1, <1>4, <2>2, <2>3 DEF Map!Next, Map!Rename
<1> QED BY <1>3, <1>4

\* The writes of an index (mod.rs, under the reserved tags).
LEMMA IndexMaps ==
  ASSUME UserTags, Room(Reach), Stored, NEW i \in Indices,
         \/ \E v \in Integers64 : set_altval(i, v)
         \/ \E v \in Objects : set_supval(i, v)
         \/ remove_altval(i)
         \/ remove_supval(i)
  PROVE  Stored' /\ Map!Next
<1>0. PICK n : n = id
  OBVIOUS
<1>1. PICK alt, sup : alt = Num(n, ALTVAL, i) /\ sup = Num(n, SUPVAL, i)
  OBVIOUS
<1>2. /\ IsSlot(alt) /\ alt[2] = ALTVAL /\ alt[2] # BLOB /\ At(alt) = <<n, <<"altval">>, i>>
      /\ IsSlot(sup) /\ sup[2] # ALTVAL /\ sup[2] # BLOB /\ At(sup) = <<n, <<"supval">>, i>>
  BY <1>1, SlotAt, Arrays
<1>3. ASSUME NEW v \in Integers64, set_altval(i, v) PROVE Stored' /\ Map!Next
  <2>1. PutInteger(alt, v, At(alt), v)
    BY <1>0, <1>1, <1>2, <1>3 DEF set_altval
  <2> QED BY <1>2, <2>1, IntegerMaps
<1>4. ASSUME NEW v \in Objects, set_supval(i, v) PROVE Stored' /\ Map!Next
  <2>1. Bytes(sup, v, At(sup))
    BY <1>0, <1>1, <1>2, <1>4 DEF set_supval
  <2>2. v \in Seq(Int)
    BY ObjectBytes
  <2> QED BY <1>2, <2>1, <2>2, BytesMaps
<1>5. CASE remove_altval(i)
  <2>1. Delete("remove", {alt}, At(alt))
    BY <1>0, <1>1, <1>2, <1>5 DEF remove_altval
  <2> QED BY <1>2, <2>1, RemoveMaps
<1>6. CASE remove_supval(i)
  <2>1. Delete("remove", {sup}, At(sup))
    BY <1>0, <1>1, <1>2, <1>6 DEF remove_supval
  <2> QED BY <1>2, <2>1, RemoveMaps
<1> QED BY <1>3, <1>4, <1>5, <1>6

\* The writes of a hash key (mod.rs).
LEMMA KeyMaps ==
  ASSUME UserTags, Room(Reach), Stored, NEW k \in Keys,
         \/ \E v \in Integers64 : set_hash_integer(k, v)
         \/ \E v \in Objects : set_hash(k, v)
         \/ \E T \in PutTypes : \E v \in ValuesOf(T) : put(T, k, v)
         \/ \E v \in Objects, encodes \in BOOLEAN : put_serde(k, v, encodes)
         \/ remove_hash(k)
  PROVE  Stored' /\ Map!Next
<1>0. PICK n : n = id
  OBVIOUS
<1>1. PICK slot : slot = Str(n, HASH, k)
  OBVIOUS
<1>2. IsSlot(slot) /\ slot[2] # BLOB /\ slot[2] # ALTVAL /\ At(slot) = <<n, <<"hash">>, CStr[k]>>
  BY <1>1, SlotAt, Arrays
<1>3. ASSUME NEW v \in Integers64, set_hash_integer(k, v) PROVE Stored' /\ Map!Next
  <2>1. PutInteger(slot, v, At(slot), Le(v, Width))
    BY <1>0, <1>1, <1>2, <1>3 DEF set_hash_integer
  <2> QED BY <1>2, <2>1, IntegerMaps
<1>4. ASSUME NEW v \in Objects, set_hash(k, v) PROVE Stored' /\ Map!Next
  <2>1. v \in Seq(Int)
    BY ObjectBytes
  <2> QED BY <1>4, <2>1, HashMaps
<1>5. ASSUME NEW T \in PutTypes, NEW v \in ValuesOf(T), put(T, k, v) PROVE Stored' /\ Map!Next
  <2>1. to_netnode_bytes(T, v) \in Seq(Int)
    <3>1. T \in Types
      BY TypesAssumption
    <3> QED BY <3>1, PersistBytes
  <2>2. set_hash(k, to_netnode_bytes(T, v))
    BY <1>5 DEF put
  <2> QED BY <2>1, <2>2, HashMaps
<1>6. ASSUME NEW v \in Objects, NEW encodes \in BOOLEAN, put_serde(k, v, encodes)
      PROVE  Stored' /\ Map!Next
  <2>1. Postcard(v) \in Seq(Int)
    BY PostcardBytes
  <2>2. CASE encodes
    <3>1. set_hash(k, Postcard(v))
      BY <1>6, <2>2 DEF put_serde
    <3> QED BY <2>1, <3>1, HashMaps
  <2>3. CASE ~encodes
    <3>1. SerializeFailed(<<n, <<"hash">>, CStr[k]>>)
      BY <1>0, <1>6, <2>3 DEF put_serde
    <3> QED BY <3>1, SerializeFailedMaps
  <2> QED BY <2>2, <2>3
<1>7. CASE remove_hash(k)
  <2>1. Delete("remove", {slot}, At(slot))
    BY <1>0, <1>1, <1>2, <1>7 DEF remove_hash
  <2> QED BY <1>2, <2>1, RemoveMaps
<1> QED BY <1>3, <1>4, <1>5, <1>6, <1>7

\* The node value, the blobs and the deletes of whole arrays (mod.rs).
LEMMA NodeMaps ==
  ASSUME UserTags, Room(Reach), Stored,
         \/ \E i \in Starts, v \in Objects, encodes \in BOOLEAN : put_serde_at(i, v, encodes)
         \/ \E v \in Objects : set_value(v)
         \/ \E v \in Objects \ {<<>>} : set_blob(v)
         \/ clear_value \/ clear_altvals \/ clear_supvals \/ clear_hash \/ remove_blob
  PROVE  Stored' /\ Map!Next
<1>0. PICK n : n = id
  OBVIOUS
<1>1. PICK val : val = Num(n, VALUE, 0)
  OBVIOUS
<1>2. IsSlot(val) /\ val[2] # ALTVAL /\ val[2] # BLOB /\ At(val) = <<n, <<"value">>, 0>>
  BY <1>1, SlotAt, Arrays
<1>3. ASSUME NEW i \in Starts, NEW v \in Objects, NEW encodes \in BOOLEAN, put_serde_at(i, v, encodes)
      PROVE  Stored' /\ Map!Next
  <2>1. i \in BlobStarts /\ Postcard(v) \in Seq(Int) /\ Len(Postcard(v)) > 0 /\ Len(Postcard(v)) < Reach * Cap
    BY BlobsFit DEF BlobStarts
  <2>2. CASE encodes
    <3>1. PutBlob(BLOB, i, Postcard(v))
      BY <1>3, <2>2 DEF put_serde_at
    <3> QED BY <2>1, <3>1, BlobMaps
  <2>3. CASE ~encodes
    <3>1. SerializeFailed(<<n, <<"blob">>, i>>)
      BY <1>0, <1>3, <2>3 DEF put_serde_at
    <3> QED BY <3>1, SerializeFailedMaps
  <2> QED BY <2>2, <2>3
<1>4. ASSUME NEW v \in Objects, set_value(v) PROVE Stored' /\ Map!Next
  <2>1. Bytes(val, v, At(val))
    BY <1>0, <1>1, <1>2, <1>4 DEF set_value
  <2>2. v \in Seq(Int)
    BY ObjectBytes
  <2> QED BY <1>2, <2>1, <2>2, BytesMaps
<1>5. ASSUME NEW v \in Objects \ {<<>>}, set_blob(v) PROVE Stored' /\ Map!Next
  <2>1. PutBlob(BLOB, 0, v)
    BY <1>5 DEF set_blob
  <2>2. 0 \in BlobStarts /\ v \in Seq(Int) /\ Len(v) > 0 /\ Len(v) < Reach * Cap
    BY BlobsFit DEF BlobStarts
  <2> QED BY <2>1, <2>2, BlobMaps
<1>6. CASE clear_value
  <2>1. Delete("remove", {val}, At(val))
    BY <1>0, <1>1, <1>2, <1>6 DEF clear_value
  <2> QED BY <1>2, <2>1, RemoveMaps
<1>7. CASE clear_altvals
  <2>1. Delete("clear", Slots(n, ALTVAL, "num"), <<n, Collection(ALTVAL, "num")>>)
    BY <1>0, <1>7, Arrays DEF clear_altvals
  <2> QED BY <2>1, Arrays, ClearMaps
<1>8. CASE clear_supvals
  <2>1. Delete("clear", Slots(n, SUPVAL, "num"), <<n, Collection(SUPVAL, "num")>>)
    BY <1>0, <1>8, Arrays DEF clear_supvals
  <2> QED BY <2>1, Arrays, ClearMaps
<1>9. CASE clear_hash
  <2>1. Delete("clear", Slots(n, HASH, "str"), <<n, Collection(HASH, "str")>>)
    BY <1>0, <1>9, Arrays DEF clear_hash
  <2> QED BY <2>1, Arrays, ClearMaps
<1>10. CASE remove_blob
  BY <1>10, RemoveBlobMaps
<1> QED BY <1>3, <1>4, <1>5, <1>6, <1>7, <1>8, <1>9, <1>10

\* The writes of a tagged view (tagged.rs).
LEMMA TaggedMaps ==
  ASSUME UserTags, Room(Reach), Stored, NEW t \in Tags,
         \/ \E i \in Indices :
              \/ \E v \in Integers64 : tag_set_integer(t, i, v)
              \/ \E v \in Objects : tag_set_value(t, i, v)
              \/ tag_remove(t, i)
         \/ \E k \in Keys : (\E v \in Objects : tag_set_hash(t, k, v)) \/ tag_remove_hash(t, k)
         \/ tag_clear(t)
         \/ tag_clear_hash(t)
  PROVE  Stored' /\ Map!Next
<1>0. PICK n : n = id
  OBVIOUS
<1>1. ASSUME NEW i, NEW slot, slot = Num(n, t, i)
      PROVE  IsSlot(slot) /\ slot[2] # BLOB /\ slot[2] # ALTVAL /\ At(slot) = <<n, Slot(t), i>>
  BY <1>1, SlotAt, Arrays
<1>2. ASSUME NEW k \in Keys, NEW slot, slot = Str(n, t, k)
      PROVE  IsSlot(slot) /\ slot[2] # ALTVAL /\ slot[2] # BLOB /\ At(slot) = <<n, Table(t), CStr[k]>>
  BY <1>2, SlotAt, Arrays
<1>3. ASSUME NEW i \in Indices, NEW v \in Integers64, tag_set_integer(t, i, v) PROVE Stored' /\ Map!Next
  <2>1. PICK slot : slot = Num(n, t, i)
    OBVIOUS
  <2>2. IsSlot(slot) /\ slot[2] # BLOB /\ slot[2] # ALTVAL /\ At(slot) = <<n, Slot(t), i>>
    BY <1>1, <2>1
  <2>3. PutInteger(slot, v, At(slot), Le(v, Width))
    BY <1>0, <1>3, <2>1, <2>2 DEF tag_set_integer
  <2> QED BY <2>2, <2>3, IntegerMaps
<1>4. ASSUME NEW i \in Indices, NEW v \in Objects, tag_set_value(t, i, v) PROVE Stored' /\ Map!Next
  <2>1. PICK slot : slot = Num(n, t, i)
    OBVIOUS
  <2>2. IsSlot(slot) /\ slot[2] # ALTVAL /\ slot[2] # BLOB /\ At(slot) = <<n, Slot(t), i>>
    BY <1>1, <2>1
  <2>3. Bytes(slot, v, At(slot))
    BY <1>0, <1>4, <2>1, <2>2 DEF tag_set_value
  <2>4. v \in Seq(Int)
    BY ObjectBytes
  <2> QED BY <2>2, <2>3, <2>4, BytesMaps
<1>5. ASSUME NEW i \in Indices, tag_remove(t, i) PROVE Stored' /\ Map!Next
  <2>1. PICK slot : slot = Num(n, t, i)
    OBVIOUS
  <2>2. IsSlot(slot) /\ slot[2] # BLOB /\ At(slot) = <<n, Slot(t), i>>
    BY <1>1, <2>1
  <2>3. Delete("remove", {slot}, At(slot))
    BY <1>0, <1>5, <2>1, <2>2 DEF tag_remove
  <2> QED BY <2>2, <2>3, RemoveMaps
<1>6. ASSUME NEW k \in Keys, NEW v \in Objects, tag_set_hash(t, k, v) PROVE Stored' /\ Map!Next
  <2>1. PICK slot : slot = Str(n, t, k)
    OBVIOUS
  <2>2. IsSlot(slot) /\ slot[2] # ALTVAL /\ slot[2] # BLOB /\ At(slot) = <<n, Table(t), CStr[k]>>
    BY <1>2, <2>1
  <2>3. Bytes(slot, v, At(slot))
    BY <1>0, <1>6, <2>1, <2>2 DEF tag_set_hash
  <2>4. v \in Seq(Int)
    BY ObjectBytes
  <2> QED BY <2>2, <2>3, <2>4, BytesMaps
<1>7. ASSUME NEW k \in Keys, tag_remove_hash(t, k) PROVE Stored' /\ Map!Next
  <2>1. PICK slot : slot = Str(n, t, k)
    OBVIOUS
  <2>2. IsSlot(slot) /\ slot[2] # BLOB /\ At(slot) = <<n, Table(t), CStr[k]>>
    BY <1>2, <2>1
  <2>3. Delete("remove", {slot}, At(slot))
    BY <1>0, <1>7, <2>1, <2>2 DEF tag_remove_hash
  <2> QED BY <2>2, <2>3, RemoveMaps
<1>8. CASE tag_clear(t)
  <2>1. Delete("clear", Slots(n, t, "num"), <<n, Collection(t, "num")>>) /\ Array(t, "num") /\ t # BLOB
    BY <1>0, <1>8, Arrays DEF tag_clear
  <2> QED BY <2>1, ClearMaps
<1>9. CASE tag_clear_hash(t)
  <2>1. Delete("clear", Slots(n, t, "str"), <<n, Collection(t, "str")>>) /\ Array(t, "str") /\ t # BLOB
    BY <1>0, <1>9, Arrays DEF tag_clear_hash
  <2> QED BY <2>1, ClearMaps
<1> QED BY <1>3, <1>4, <1>5, <1>6, <1>7, <1>8, <1>9

\* Every step of the layer is one step of the map, or leaves it.
LEMMA StepMaps ==
  ASSUME UserTags, Room(Reach), Stored, [Next]_vars
  PROVE  Stored' /\ [Map!Next]_<<names, Observed, call>>
<1>1. ASSUME NEW n \in Names, netnode_mut(n) PROVE Stored' /\ Map!Next
  BY <1>1, OpenMaps
<1>2. ASSUME NEW n \in Names \cup {""}, rename(n) PROVE Stored' /\ Map!Next
  BY <1>2, RenameMaps
<1>3. CASE UNCHANGED vars
  <2>1. Stored' /\ Observed' = Observed
    BY <1>3, UnchangedSeen DEF vars
  <2> QED BY <1>3, <2>1 DEF vars
<1>4. CASE Next
  <2> QED BY <1>1, <1>2, <1>4, IndexMaps, KeyMaps, NodeMaps, TaggedMaps, KillMaps DEF Next
<1> QED BY <1>3, <1>4

\* The empty store.
LEMMA InitStored == Room(Reach) /\ Init => Stored /\ Placed(objs) = {}
<1> SUFFICES ASSUME Room(Reach), Init PROVE Stored /\ Placed(objs) = {}
  OBVIOUS
<1>1. DOMAIN objs = {}
  BY DEF Init
<1>2. ASSUME NEW m, NEW a \in BlobStarts PROVE Chained(objs, m, a)
  <2>1. a \in 0..BADNODE
    BY Sizes
  <2>2. Past(a, a) = 0
    BY <2>1, PastOf
  <2>3. Past(a, a) < Reach
    BY <2>2, Sizes DEF Room
  <2> QED BY <1>1, <2>1, <2>3 DEF Chained, Full
<1> QED BY <1>1, <1>2 DEF Stored, StoredIn, Fits, Placed

\* No object outgrows what a read copies (MAXSPECSIZE), so no read cuts one
\* short, none lies outside the arrays the layer names, and a blob's chunks
\* are one chain, when the blobs are put far enough apart.
THEOREM ReadsCutNothing == UserTags /\ Apart => (Spec => []Stored)
<1> SUFFICES ASSUME UserTags, Apart PROVE Spec => []Stored
  OBVIOUS
<1>0. Room(Reach)
  BY RoomOf
<1>1. Init => Stored
  BY <1>0, InitStored
<1>2. Stored /\ [Next]_vars => Stored'
  BY <1>0, StepMaps
<1> QED BY <1>1, <1>2, PTL DEF Spec

\* Seen through its reads, the netnode layer is the map of separate
\* collections its docs promise: a write changes the one entry it names, a
\* refused one nothing, a delete answers whether something was there, and a
\* name belongs to one node (netnode/mod.rs:26, tag.rs:21).  A hash entry is
\* its key up to the first NUL; the user tags are to be none of the reserved
\* ones, and no blob long enough to reach into the next one's room.
THEOREM NetnodesImplementMap == UserTags /\ Apart => (Spec => Implements)
<1> SUFFICES ASSUME UserTags, Apart PROVE Spec => Implements
  OBVIOUS
<1>0. Room(Reach)
  BY RoomOf
<1>1. Init => Stored /\ Map!Init
  <2> SUFFICES ASSUME Init PROVE Stored /\ Map!Init
    OBVIOUS
  <2>1. Stored /\ Placed(objs) = {}
    BY <1>0, InitStored
  <2>2. Observed = {}
    BY <2>1 DEF Observed, Entries
  <2> QED BY <2>1, <2>2 DEF Init, Map!Init
<1>2. Stored /\ [Next]_vars => Stored' /\ [Map!Next]_<<names, Observed, call>>
  BY <1>0, StepMaps
<1> QED BY <1>1, <1>2, PTL DEF Spec, Implements, Map!Spec

-----------------------------------------------------------------------------
(* Walks.  An iterator follows the kernel's answers from key to key; that it *)
(* yields one sequence, and which, is shown by induction on how far it is    *)
(* from its end.                                                             *)

\* A set of numbers has a least one.
LEMMA LeastOf ==
  ASSUME NEW T, T \subseteq Nat, T # {}
  PROVE  \E x \in T : \A y \in T : x <= y
<1>1. PICK x \in T : \A y \in T : ~(<<y, x>> \in OpToRel(<, Nat))
  BY NatLessThanWellFounded, WFMin
<1>2. \A y \in T : x <= y
  <2>1. SUFFICES ASSUME NEW y \in T, ~(x <= y) PROVE FALSE
    OBVIOUS
  <2>2. x \in Nat /\ y \in Nat /\ y < x
    BY <2>1
  <2>3. <<y, x>> \in Nat \X Nat /\ <<y, x>>[1] < <<y, x>>[2]
    BY <2>2
  <2>4. <<y, x>> \in OpToRel(<, Nat)
    BY <2>3, Zenon DEF OpToRel
  <2> QED
    BY <1>1, <2>4
<1> QED
  BY <1>2

\* Induction, with the numbers a fact holds of as a set.
LEMMA SetInduction ==
  ASSUME NEW S, \A n \in Nat : (\A k \in Nat : k < n => k \in S) => n \in S
  PROVE  Nat \subseteq S
<1>1. ASSUME Nat \ S # {} PROVE FALSE
  <2>1. PICK n \in Nat \ S : \A k \in Nat \ S : n <= k
    BY <1>1, LeastOf
  <2>2. \A k \in Nat : k < n => k \in S
    BY <2>1
  <2> QED
    BY <2>2
<1> QED
  BY <1>1

\* One round of a walk that ends at `end`.
Round(f, d, end, nx, out) == IF d = end THEN <<>> ELSE <<out[d]>> \o f[nx[d]]

Walks(f, D, end, nx, out) == \A d \in D : f[d] = Round(f, d, end, nx, out)
HasWalk(D, end, nx, out) == \E f : f = [d \in D |-> Round(f, d, end, nx, out)]

\* A walk whose every step brings it nearer its end, which is at most M away.
IsWalk(D, end, nx, m, M, X, out) ==
  /\ end \in D /\ nx \in [D -> D] /\ M \in Nat /\ m \in [D -> 0..M] /\ out \in [D -> X]
  /\ \A d \in D \ {end} : m[nx[d]] < m[d]

\* The keys ahead of a place are its own, the least, and those ahead of the next.
KeysAhead(D, end, nx, out, h, ahead) ==
  /\ ahead[end] = {}
  /\ \A d \in D \ {end} : /\ ahead[d] = {h[out[d]]} \cup ahead[nx[d]]
                          /\ \A j \in ahead[nx[d]] : h[out[d]] < j

\* Such a walk yields something: the recursion that defines it has a solution.
LEMMA WalkExists ==
  ASSUME NEW D, NEW end, NEW nx, NEW m, NEW M, NEW X, NEW out, IsWalk(D, end, nx, m, M, X, out)
  PROVE  HasWalk(D, end, nx, out)
<1> USE DEF IsWalk
<1> DEFINE Near(n) == {d \in D : m[d] <= n} \cup {end}
           P(n) == \E f \in [Near(n) -> Seq(X)] : \A d \in Near(n) : f[d] = Round(f, d, end, nx, out)
           S == {n \in Nat : P(n)}
<1>1. ASSUME NEW n \in Nat, \A k \in Nat : k < n => k \in S PROVE n \in S
  <2>1. n # 0 => n - 1 \in Nat /\ n - 1 < n
    OBVIOUS
  <2>2. n # 0 => P(n - 1)
    BY <1>1, <2>1
  <2>3. CASE n = 0
    <3>0. \A d \in D : m[d] <= 0 => d = end
      <4> SUFFICES ASSUME NEW d \in D, m[d] <= 0, d # end PROVE FALSE
        OBVIOUS
      <4>1. nx[d] \in D
        OBVIOUS
      <4>2. m[nx[d]] \in Nat /\ m[d] \in Nat /\ m[nx[d]] < m[d]
        BY <4>1
      <4> QED
        BY <4>2
    <3>1. Near(n) = {end}
      BY <2>3, <3>0
    <3> DEFINE f == [d \in {end} |-> <<>>]
    <3>2. f \in [Near(n) -> Seq(X)] /\ f[end] = <<>>
      BY <3>1
    <3> HIDE DEF f
    <3>3. \A d \in Near(n) : f[d] = Round(f, d, end, nx, out)
      BY <3>1, <3>2 DEF Round
    <3> HIDE DEF Near
    <3> QED
      BY <3>2, <3>3, Zenon
  <2>4. CASE n # 0
    <3>1. n - 1 \in Nat
      BY <2>1, <2>4
    <3>2. PICK f \in [Near(n - 1) -> Seq(X)] : \A d \in Near(n - 1) : f[d] = Round(f, d, end, nx, out)
      BY <2>2, <2>4, Zenon
    <3>3. \A d \in Near(n) : d # end => nx[d] \in Near(n - 1) /\ nx[d] \in Near(n) /\ d \in D
      <4> SUFFICES ASSUME NEW d \in Near(n), d # end
                   PROVE  nx[d] \in Near(n - 1) /\ nx[d] \in Near(n) /\ d \in D
        OBVIOUS
      <4>1. d \in D /\ m[d] <= n /\ m[d] \in Nat /\ nx[d] \in D /\ m[nx[d]] \in Nat /\ m[nx[d]] < m[d]
        OBVIOUS
      <4>2. m[nx[d]] <= n - 1 /\ m[nx[d]] <= n
        BY <4>1
      <4> QED
        BY <4>1, <4>2
    <3>4. end \in Near(n) /\ end \in Near(n - 1)
      OBVIOUS
    <3> HIDE DEF P, Near
    <3> DEFINE g == [d \in Near(n) |-> Round(f, d, end, nx, out)]
    <3>5. \A d \in Near(n) : g[d] \in Seq(X) /\ g[d] = Round(f, d, end, nx, out)
      <4> SUFFICES ASSUME NEW d \in Near(n) PROVE Round(f, d, end, nx, out) \in Seq(X)
        OBVIOUS
      <4>1. CASE d = end
        BY <4>1 DEF Round
      <4>2. CASE d # end
        <5>1. f[nx[d]] \in Seq(X) /\ out[d] \in X
          BY <3>3, <4>2
        <5>2. <<out[d]>> \o f[nx[d]] \in Seq(X)
          BY <5>1
        <5> QED
          BY <4>2, <5>2 DEF Round
      <4> QED
        BY <4>1, <4>2
    <3>6. g \in [Near(n) -> Seq(X)]
      BY <3>5
    <3> HIDE DEF g
    <3>7. \A d \in Near(n) : g[d] = Round(g, d, end, nx, out)
      <4> SUFFICES ASSUME NEW d \in Near(n) PROVE g[d] = Round(g, d, end, nx, out)
        OBVIOUS
      <4>1. CASE d = end
        BY <3>5, <4>1 DEF Round
      <4>2. CASE d # end
        <5>1. g[nx[d]] = f[nx[d]]
          BY <3>2, <3>3, <3>5, <4>2
        <5> QED
          BY <3>5, <4>2, <5>1 DEF Round
      <4> QED
        BY <4>1, <4>2
    <3> QED
      BY <3>6, <3>7, Zenon DEF P
  <2> QED
    BY <2>3, <2>4
<1> HIDE DEF P
<1>2. P(M)
  <2>1. Nat \subseteq S
    BY <1>1, SetInduction
  <2> QED
    BY <2>1
<1>3. Near(M) = D
  OBVIOUS
<1>4. PICK f \in [D -> Seq(X)] : \A d \in D : f[d] = Round(f, d, end, nx, out)
  BY <1>2, <1>3, Zenon DEF P
<1>5. f = [d \in D |-> Round(f, d, end, nx, out)]
  BY <1>4
<1> QED
  BY <1>5, Zenon DEF HasWalk

\* A sequence whose keys, by h, are those of A in their order.
KeysOf(s, h, A) ==
  /\ {h[s[i]] : i \in 1..Len(s)} = A
  /\ \A i, j \in 1..Len(s) : i < j => h[s[i]] < h[s[j]]

LEMMA NoKeys == ASSUME NEW h PROVE KeysOf(<<>>, h, {})
  BY DEF KeysOf

\* A key before the rest.
LEMMA ConsKeys ==
  ASSUME NEW X, NEW h \in [X -> Int], NEW a \in X, NEW s \in Seq(X), NEW A, KeysOf(s, h, A),
         \A j \in A : h[a] < j
  PROVE  KeysOf(<<a>> \o s, h, {h[a]} \cup A)
<1> DEFINE t == <<a>> \o s
<1>0. {h[s[i]] : i \in 1..Len(s)} = A /\ \A i, j \in 1..Len(s) : i < j => h[s[i]] < h[s[j]]
  BY DEF KeysOf
<1>1. Len(s) \in Nat /\ Len(t) = Len(s) + 1 /\ t[1] = a
  OBVIOUS
<1>2. \A i \in 1..Len(s) : t[i + 1] = s[i]
  OBVIOUS
<1>3. \A i \in 2..Len(t) : i - 1 \in 1..Len(s) /\ t[i] = s[i - 1]
  BY <1>1, <1>2
<1>4. \A i \in 1..Len(s) : i + 1 \in 1..Len(t)
  BY <1>1
<1>5. \A i \in 1..Len(t) : i = 1 \/ i \in 2..Len(t)
  BY <1>1
<1>6. 1 \in 1..Len(t)
  BY <1>1
<1> HIDE DEF t
<1>7. \A i \in 1..Len(s) : h[s[i]] \in A
  BY <1>0
<1>8. \A j \in A : \E i \in 1..Len(s) : j = h[s[i]]
  BY <1>0
<1>9. \A i \in 1..Len(t) : h[t[i]] \in {h[a]} \cup A
  BY <1>1, <1>3, <1>5, <1>7
<1>10. \A j \in A : \E i \in 1..Len(t) : j = h[t[i]]
  <2> SUFFICES ASSUME NEW j \in A PROVE \E i \in 1..Len(t) : j = h[t[i]]
    OBVIOUS
  <2>1. PICK i \in 1..Len(s) : j = h[s[i]]
    BY <1>8
  <2>2. i + 1 \in 1..Len(t) /\ t[i + 1] = s[i]
    BY <1>2, <1>4
  <2> QED BY <2>1, <2>2
<1>11. {h[t[i]] : i \in 1..Len(t)} = {h[a]} \cup A
  BY <1>1, <1>6, <1>9, <1>10
<1>12. ASSUME NEW i \in 1..Len(t), NEW j \in 1..Len(t), i < j PROVE h[t[i]] < h[t[j]]
  <2>1. j \in 2..Len(t) /\ j - 1 \in 1..Len(s) /\ t[j] = s[j - 1]
    BY <1>3, <1>5, <1>12
  <2>2. CASE i = 1
    BY <1>1, <1>7, <2>1, <2>2
  <2>3. CASE i \in 2..Len(t)
    <3>1. i - 1 \in 1..Len(s) /\ t[i] = s[i - 1]
      BY <1>3, <2>3
    <3>2. i - 1 < j - 1
      BY <1>12
    <3>4. h[s[i - 1]] < h[s[j - 1]]
      BY <1>0, <2>1, <3>1, <3>2
    <3> QED
      BY <2>1, <3>1, <3>4
  <2> QED
    BY <1>5, <2>2, <2>3
<1> QED
  BY <1>11, <1>12 DEF KeysOf, t

\* What a walk visits: the keys ahead of where it starts, in their order.
LEMMA WalkVisits ==
  ASSUME NEW D, NEW end, NEW nx, NEW m, NEW M, NEW X, NEW out, IsWalk(D, end, nx, m, M, X, out),
         NEW h \in [X -> Int], NEW ahead, KeysAhead(D, end, nx, out, h, ahead),
         NEW f, Walks(f, D, end, nx, out)
  PROVE  \A d \in D : f[d] \in Seq(X) /\ KeysOf(f[d], h, ahead[d])
<1> DEFINE Good(d) == f[d] \in Seq(X) /\ KeysOf(f[d], h, ahead[d])
           S == {n \in Nat : \A d \in D : m[d] = n => Good(d)}
<1>0. /\ end \in D /\ nx \in [D -> D] /\ m \in [D -> Nat] /\ out \in [D -> X]
      /\ \A d \in D \ {end} : m[nx[d]] < m[d]
  BY DEF IsWalk
<1>a. /\ ahead[end] = {}
      /\ \A d \in D \ {end} : /\ ahead[d] = {h[out[d]]} \cup ahead[nx[d]]
                              /\ \A j \in ahead[nx[d]] : h[out[d]] < j
  BY DEF KeysAhead
<1>b. \A d \in D : f[d] = Round(f, d, end, nx, out)
  BY DEF Walks
<1>1. Good(end)
  <2>1. f[end] = <<>>
    BY <1>0, <1>b DEF Round
  <2>2. KeysOf(<<>>, h, {})
    BY NoKeys
  <2> QED
    BY <1>a, <2>1, <2>2
<1>2. ASSUME NEW d \in D, d # end, Good(nx[d]) PROVE Good(d)
  <2>1. f[d] = <<out[d]>> \o f[nx[d]]
    BY <1>2, <1>b DEF Round
  <2>2. f[nx[d]] \in Seq(X) /\ out[d] \in X
    BY <1>0, <1>2
  <2>3. /\ ahead[d] = {h[out[d]]} \cup ahead[nx[d]] /\ \A j \in ahead[nx[d]] : h[out[d]] < j
    BY <1>2, <1>a
  <2>4. KeysOf(<<out[d]>> \o f[nx[d]], h, {h[out[d]]} \cup ahead[nx[d]])
    BY <1>2, <2>2, <2>3, ConsKeys
  <2>5. <<out[d]>> \o f[nx[d]] \in Seq(X)
    BY <2>2
  <2> QED
    BY <2>1, <2>3, <2>4, <2>5
<1> HIDE DEF Good
<1>3. ASSUME NEW n \in Nat, \A k \in Nat : k < n => k \in S PROVE n \in S
  <2> SUFFICES ASSUME NEW d \in D, m[d] = n PROVE Good(d)
    OBVIOUS
  <2>1. CASE d = end
    BY <1>1, <2>1
  <2>2. CASE d # end
    <3>1. nx[d] \in D /\ m[nx[d]] < n /\ m[nx[d]] \in Nat
      BY <1>0, <2>2
    <3>2. Good(nx[d])
      BY <1>3, <3>1
    <3> QED
      BY <1>2, <2>2, <3>2
  <2> QED
    BY <2>1, <2>2
<1>4. Nat \subseteq S
  BY <1>3, SetInduction
<1> QED
  BY <1>0, <1>4 DEF Good

-----------------------------------------------------------------------------
(* The kernel's cursors.                                                     *)

LEMMA LowestOf ==
  ASSUME NEW S, S \subseteq Nat, S # {}, NEW z
  PROVE  Lowest(S, z) \in S /\ \A y \in S : Lowest(S, z) <= y
<1>1. \E x \in S : \A y \in S : x <= y
  BY LeastOf
<1>2. Lowest(S, z) = CHOOSE x \in S : \A y \in S : x <= y
  BY DEF Lowest
<1> QED BY <1>1, <1>2, Zenon

\* A cursor over keys below the sentinel.
LEMMA NextOf ==
  ASSUME NEW S, S \subseteq 0..(BADNODE - 1), NEW i \in 0..BADNODE
  PROVE  /\ Lowest({j \in S : j > i}, BADNODE) \in 0..BADNODE
         /\ i # BADNODE => Lowest({j \in S : j > i}, BADNODE) > i
         /\ LET l == Lowest({j \in S : j > i}, BADNODE)
            IN  /\ l = BADNODE => {j \in S : j > i} = {}
                /\ l # BADNODE => {j \in S : j > i} = {l} \cup {j \in S : j > l}
<1> DEFINE A == {j \in S : j > i}
<1>a. BADNODE \in Nat
  BY StoreAssumption
<1>b. \A j \in A : j \in 0..(BADNODE - 1) /\ j > i
  OBVIOUS
<1>c. \A j \in 0..(BADNODE - 1) : j \in Nat
  BY <1>a
<1>0. BADNODE \in Nat /\ A \subseteq Nat /\ \A j \in A : j \in 0..(BADNODE - 1) /\ j > i
  BY <1>a, <1>b, <1>c, Zenon
<1>1. CASE A = {}
  <2>1. Lowest(A, BADNODE) = BADNODE
    BY <1>1 DEF Lowest
  <2> QED BY <1>0, <1>1, <2>1
<1>2. CASE A # {}
  <2>1. PICK l : l = Lowest(A, BADNODE)
    OBVIOUS
  <2>2. l \in A /\ \A y \in A : l <= y
    BY <1>0, <1>2, <2>1, LowestOf
  <2>3. l \in 0..(BADNODE - 1) /\ l > i /\ l # BADNODE
    BY <1>0, <2>2
  <2>4. A = {l} \cup {j \in S : j > l}
    <3>1. \A j \in A : j = l \/ j > l
      BY <1>0, <2>2
    <3>2. \A j \in S : j > l => j > i
      BY <2>2, <2>3, StoreAssumption
    <3> QED BY <2>2, <3>1, <3>2
  <2> QED BY <2>1, <2>3, <2>4, StoreAssumption
<1> QED BY <1>1, <1>2

\* A key at the sentinel reads as the end: to a cursor it is not there
\* (netnode/arrays.rs:13).
LEMMA SentinelEnds ==
  ASSUME NEW K, K \subseteq 0..BADNODE
  PROVE  Lowest(K, BADNODE) = Lowest(K \ {BADNODE}, BADNODE)
<1>0. BADNODE \in Nat /\ \A x \in K : x \in Nat /\ x <= BADNODE
  BY StoreAssumption
<1>1. PICK A : A = K \ {BADNODE}
  OBVIOUS
<1>2. CASE BADNODE \notin K
  <2>1. A = K
    BY <1>1, <1>2
  <2> QED BY <1>1, <2>1
<1>3. CASE BADNODE \in K
  <2>1. Lowest(K, BADNODE) \in K /\ \A y \in K : Lowest(K, BADNODE) <= y
    BY <1>0, <1>3, LowestOf
  <2>2. CASE A = {}
    <3>1. Lowest(K, BADNODE) = BADNODE
      BY <1>1, <2>1, <2>2
    <3> QED BY <1>1, <2>2, <3>1 DEF Lowest
  <2>3. CASE A # {}
    <3>1. A \subseteq Nat
      BY <1>0, <1>1
    <3>2. Lowest(A, BADNODE) \in A /\ \A y \in A : Lowest(A, BADNODE) <= y
      BY <2>3, <3>1, LowestOf
    <3>3. PICK l, k : l = Lowest(A, BADNODE) /\ k = Lowest(K, BADNODE)
      OBVIOUS
    <3>4. l \in A /\ k \in K /\ k <= l /\ (k \in A => l <= k)
      BY <1>1, <2>1, <3>2, <3>3
    <3>5. k # BADNODE
      BY <1>0, <1>1, <3>4
    <3>6. k \in Nat /\ l \in Nat /\ l <= k
      BY <1>0, <1>1, <3>4, <3>5
    <3> QED BY <1>1, <3>3, <3>4, <3>6
  <2> QED BY <2>2, <2>3
<1> QED BY <1>2, <1>3

\* Heads of entries.
LEMMA HeadsVisit ==
  ASSUME NEW Y, NEW s \in Seq(Int \X Y), NEW A, KeysOf(s, [x \in Int \X Y |-> x[1]], A)
  PROVE  Visits(Heads(s), A)
<1> DEFINE h == [x \in Int \X Y |-> x[1]]
<1>1. DOMAIN s = 1..Len(s) /\ \A i \in 1..Len(s) : s[i] \in Int \X Y /\ h[s[i]] = s[i][1]
  OBVIOUS
<1>2. DOMAIN Heads(s) = 1..Len(s) /\ \A i \in 1..Len(s) : Heads(s)[i] = h[s[i]]
  BY <1>1 DEF Heads
<1>3. KeysOf(s, h, A)
  BY Zenon
<1> HIDE DEF h
<1>4. Ascending(Heads(s))
  <2>1. \A i, j \in 1..Len(s) : i < j => h[s[i]] < h[s[j]]
    BY <1>3 DEF KeysOf
  <2>2. \A i, j \in 1..Len(s) : i < j => Heads(s)[i] < Heads(s)[j]
    BY <1>2, <2>1
  <2> QED BY <1>2, <2>2 DEF Ascending
<1>5. {Heads(s)[i] : i \in DOMAIN Heads(s)} = A
  <2>1. {h[s[i]] : i \in 1..Len(s)} = A
    BY <1>3 DEF KeysOf
  <2>2. {Heads(s)[i] : i \in DOMAIN Heads(s)} = {h[s[i]] : i \in 1..Len(s)}
    BY <1>2
  <2> QED BY <2>1, <2>2
<1> QED BY <1>4, <1>5 DEF Visits

\* The raw answers of a cursor over S, and what the iterator makes of each.
IsIndexWalk(S, Y, nx, out) ==
  /\ S \subseteq 0..(BADNODE - 1)
  /\ out \in [0..BADNODE -> Int \X Y] /\ \A i \in 0..BADNODE : out[i][1] = i
  /\ nx = [i \in 0..BADNODE |-> Lowest({j \in S : j > i}, BADNODE)]

\* Every walk of them visits S.
AllVisit(D, end, nx, out, start, S) ==
  \A f : Walks(f, D, end, nx, out) => Visits(Heads(f[start]), S)

\* The walk of an array of indices, by the raw answers of first and next.
LEMMA IndexWalk ==
  ASSUME NEW S, NEW Y, NEW nx, NEW out, IsIndexWalk(S, Y, nx, out)
  PROVE  /\ HasWalk(0..BADNODE, BADNODE, nx, out)
         /\ AllVisit(0..BADNODE, BADNODE, nx, out, Lowest(S, BADNODE), S)
<1> USE DEF IsIndexWalk
<1> DEFINE D == 0..BADNODE
           X == Int \X Y
           h == [x \in X |-> x[1]]
           m == [i \in D |-> BADNODE - i]
           ahead == [i \in D |-> IF i = BADNODE THEN {} ELSE {i} \cup {j \in S : j > i}]
<1>1. BADNODE \in Nat /\ BADNODE \in D /\ m \in [D -> 0..BADNODE] /\ m \in [D -> Nat] /\ h \in [X -> Int]
  BY StoreAssumption
<1>2. \A i \in D : /\ nx[i] \in D /\ (i # BADNODE => nx[i] > i)
                   /\ nx[i] = BADNODE => {j \in S : j > i} = {}
                   /\ nx[i] # BADNODE => {j \in S : j > i} = {nx[i]} \cup {j \in S : j > nx[i]}
  <2> SUFFICES ASSUME NEW i \in D
               PROVE  /\ nx[i] \in D /\ (i # BADNODE => nx[i] > i)
                      /\ nx[i] = BADNODE => {j \in S : j > i} = {}
                      /\ nx[i] # BADNODE => {j \in S : j > i} = {nx[i]} \cup {j \in S : j > nx[i]}
    OBVIOUS
  <2>1. nx[i] = Lowest({j \in S : j > i}, BADNODE) /\ S \subseteq 0..(BADNODE - 1)
    OBVIOUS
  <2>2. LET w == Lowest({j \in S : j > i}, BADNODE)
        IN  /\ w \in 0..BADNODE /\ (i # BADNODE => w > i)
            /\ w = BADNODE => {j \in S : j > i} = {}
            /\ w # BADNODE => {j \in S : j > i} = {w} \cup {j \in S : j > w}
    BY <2>1, NextOf
  <2> QED BY <2>1, <2>2, Zenon
<1>3. nx \in [D -> D]
  <2>1. nx = [i \in D |-> nx[i]]
    OBVIOUS
  <2> QED BY <1>2, <2>1, Zenon
<1>4. \A i \in D \ {BADNODE} : m[nx[i]] < m[i]
  <2> SUFFICES ASSUME NEW i \in D \ {BADNODE} PROVE m[nx[i]] < m[i]
    OBVIOUS
  <2>1. nx[i] \in D /\ nx[i] > i
    BY <1>2
  <2> QED BY <1>1, <2>1
<1>5. ahead[BADNODE] = {}
  BY <1>1
<1>6. \A i \in D \ {BADNODE} : /\ ahead[i] = {h[out[i]]} \cup ahead[nx[i]]
                               /\ \A j \in ahead[nx[i]] : h[out[i]] < j
  <2> SUFFICES ASSUME NEW i \in D, i # BADNODE
               PROVE  /\ ahead[i] = {h[out[i]]} \cup ahead[nx[i]]
                      /\ \A j \in ahead[nx[i]] : h[out[i]] < j
    OBVIOUS
  <2>1. h[out[i]] = i
    OBVIOUS
  <2>2. ahead[nx[i]] = {j \in S : j > i}
    BY <1>2
  <2>3. ahead[i] = {i} \cup {j \in S : j > i}
    OBVIOUS
  <2> QED BY <2>1, <2>2, <2>3
<1>7. ahead[Lowest(S, BADNODE)] = S /\ Lowest(S, BADNODE) \in D
  <2>1. CASE S = {}
    BY <1>1, <1>5, <2>1 DEF Lowest
  <2>2. CASE S # {}
    <3>1. \A j \in 0..(BADNODE - 1) : j \in Nat
      BY <1>1
    <3>2. S \subseteq Nat
      BY <3>1, Zenon
    <3>3. PICK l : l = Lowest(S, BADNODE)
      OBVIOUS
    <3>4. l \in S /\ \A y \in S : l <= y
      BY <2>2, <3>2, <3>3, LowestOf
    <3>5. l \in D /\ l # BADNODE
      BY <1>1, <3>4
    <3>6. S = {l} \cup {j \in S : j > l}
      <4>1. \A j \in S : j \in Nat /\ l <= j
        BY <3>2, <3>4, Zenon
      <4>2. \A j \in S : j = l \/ j > l
        BY <3>4, <4>1
      <4> QED BY <3>4, <4>2
    <3> QED BY <3>3, <3>5, <3>6
  <2> QED BY <2>1, <2>2
<1> HIDE DEF D, X, h, m, ahead
<1>8. out \in [D -> X]
  BY DEF D, X
<1>9. IsWalk(D, BADNODE, nx, m, BADNODE, X, out)
  BY <1>1, <1>3, <1>4, <1>8 DEF IsWalk
<1>10. KeysAhead(D, BADNODE, nx, out, h, ahead)
  BY <1>5, <1>6 DEF KeysAhead
<1>11. HasWalk(D, BADNODE, nx, out)
  BY <1>9, WalkExists
<1>12. ASSUME NEW f, Walks(f, D, BADNODE, nx, out)
       PROVE  Visits(Heads(f[Lowest(S, BADNODE)]), S)
  <2>1. \A i \in D : f[i] \in Seq(X) /\ KeysOf(f[i], h, ahead[i])
    BY <1>1, <1>9, <1>10, <1>12, WalkVisits
  <2>2. f[Lowest(S, BADNODE)] \in Seq(X) /\ KeysOf(f[Lowest(S, BADNODE)], h, S)
    BY <1>7, <2>1
  <2> QED BY <2>2, HeadsVisit DEF X, h
<1> QED BY <1>11, <1>12, Zenon DEF AllVisit, D

\* What the cursors of an array answer, the sentinel left out.
LEMMA CursorOf ==
  ASSUME NEW node, NEW tag, KeysIn(node, tag, "num") \subseteq 0..BADNODE,
         NEW S, S = KeysIn(node, tag, "num") \ {BADNODE}
  PROVE  /\ S \subseteq 0..(BADNODE - 1)
         /\ first(node, tag) = Lowest(S, BADNODE)
         /\ \A i \in 0..BADNODE : next(node, tag, i) = Lowest({j \in S : j > i}, BADNODE)
<1>1. PICK K : K = KeysIn(node, tag, "num")
  OBVIOUS
<1>2. S \subseteq 0..(BADNODE - 1)
  BY StoreAssumption
<1>3. first(node, tag) = Lowest(S, BADNODE)
  BY <1>1, SentinelEnds DEF first, KeysIn
<1>4. ASSUME NEW i \in 0..BADNODE PROVE next(node, tag, i) = Lowest({j \in S : j > i}, BADNODE)
  <2>1. PICK A : A = {j \in K : j > i}
    OBVIOUS
  <2>2. next(node, tag, i) = Lowest(A, BADNODE)
    BY <1>1, <2>1 DEF next, KeysIn
  <2>3. A \subseteq 0..BADNODE /\ A \ {BADNODE} = {j \in S : j > i}
    BY <1>1, <2>1
  <2>4. Lowest(A, BADNODE) = Lowest(A \ {BADNODE}, BADNODE)
    BY <2>3, SentinelEnds
  <2> QED BY <2>2, <2>3, <2>4
<1> QED BY <1>2, <1>3, <1>4

\* NetnodeAltvals yields every index of its array once, in order.
LEMMA AltvalsWhole ==
  ASSUME NEW node, NEW tag, KeysIn(node, tag, "num") \subseteq 0..BADNODE
  PROVE  Visits(Heads(Altvals(node, tag)), KeysIn(node, tag, "num") \ {BADNODE})
<1>0. PICK S : S = KeysIn(node, tag, "num") \ {BADNODE}
  OBVIOUS
<1>k. /\ S \subseteq 0..(BADNODE - 1)
      /\ first(node, tag) = Lowest(S, BADNODE)
      /\ \A i \in 0..BADNODE : next(node, tag, i) = Lowest({j \in S : j > i}, BADNODE)
  BY <1>0, CursorOf
<1> DEFINE V(i) == Integer(Read(Num(node, tag, i)))
           Step(f, i) == IF index_or_end(i) = None THEN <<>> ELSE <<<<i, V(i)>>>> \o f[next(node, tag, i)]
           F == CHOOSE f : f = [i \in 0..BADNODE |-> Step(f, i)]
<1>1. PICK Y : Y = {V(i) : i \in 0..BADNODE}
  OBVIOUS
<1>2. PICK out : out = [i \in 0..BADNODE |-> <<i, V(i)>>]
  OBVIOUS
<1>3. PICK nx : nx = [i \in 0..BADNODE |-> Lowest({j \in S : j > i}, BADNODE)]
  OBVIOUS
<1>4. \A i \in 0..BADNODE : i \in Int
  OBVIOUS
<1>5. \A i \in 0..BADNODE : next(node, tag, i) = nx[i]
  BY <1>3, <1>k, Zenon
<1>6. \A i \in 0..BADNODE : index_or_end(i) = None <=> i = BADNODE
  BY DEF index_or_end, None, Some
<1>7. first(node, tag) = Lowest(S, BADNODE) /\ Altvals(node, tag) = F[first(node, tag)]
  <2>1. Altvals(node, tag) = F[first(node, tag)]
    BY Zenon DEF Altvals
  <2> QED BY <1>k, <2>1
<1> HIDE DEF V
<1>8. out \in [0..BADNODE -> Int \X Y] /\ \A i \in 0..BADNODE : out[i][1] = i /\ out[i] = <<i, V(i)>>
  BY <1>1, <1>2, <1>4
<1>9. \A f : \A i \in 0..BADNODE : Step(f, i) = Round(f, i, BADNODE, nx, out)
  BY <1>5, <1>6, <1>8, Zenon DEF Round
<1>10. IsIndexWalk(S, Y, nx, out)
  BY <1>k, <1>3, <1>8 DEF IsIndexWalk
<1>11. /\ HasWalk(0..BADNODE, BADNODE, nx, out)
       /\ AllVisit(0..BADNODE, BADNODE, nx, out, Lowest(S, BADNODE), S)
  BY <1>10, IndexWalk
<1>12. \E f : f = [i \in 0..BADNODE |-> Step(f, i)]
  <2>1. PICK f : f = [i \in 0..BADNODE |-> Round(f, i, BADNODE, nx, out)]
    BY <1>11, Zenon DEF HasWalk
  <2>2. [i \in 0..BADNODE |-> Round(f, i, BADNODE, nx, out)] = [i \in 0..BADNODE |-> Step(f, i)]
    BY <1>9, Zenon
  <2> QED BY <2>1, <2>2, Zenon
<1> HIDE DEF Step
<1>13. F = [i \in 0..BADNODE |-> Step(F, i)]
  BY <1>12, Zenon
<1> HIDE DEF F
<1>14. Walks(F, 0..BADNODE, BADNODE, nx, out)
  BY <1>9, <1>13 DEF Walks
<1> QED BY <1>0, <1>7, <1>11, <1>14, Zenon DEF AllVisit

\* NetnodeSupvals yields every index of its array once, in order.
LEMMA SupvalsWhole ==
  ASSUME NEW node, NEW tag, KeysIn(node, tag, "num") \subseteq 0..BADNODE
  PROVE  Visits(Heads(Supvals(node, tag)), KeysIn(node, tag, "num") \ {BADNODE})
<1>0. PICK S : S = KeysIn(node, tag, "num") \ {BADNODE}
  OBVIOUS
<1>k. /\ S \subseteq 0..(BADNODE - 1)
      /\ first(node, tag) = Lowest(S, BADNODE)
      /\ \A i \in 0..BADNODE : next(node, tag, i) = Lowest({j \in S : j > i}, BADNODE)
  BY <1>0, CursorOf
<1> DEFINE V(i) == unwrap_or_default(Clamped(Num(node, tag, i)))
           Step(f, i) == IF index_or_end(i) = None THEN <<>> ELSE <<<<i, V(i)>>>> \o f[next(node, tag, i)]
           F == CHOOSE f : f = [i \in 0..BADNODE |-> Step(f, i)]
<1>1. PICK Y : Y = {V(i) : i \in 0..BADNODE}
  OBVIOUS
<1>2. PICK out : out = [i \in 0..BADNODE |-> <<i, V(i)>>]
  OBVIOUS
<1>3. PICK nx : nx = [i \in 0..BADNODE |-> Lowest({j \in S : j > i}, BADNODE)]
  OBVIOUS
<1>4. \A i \in 0..BADNODE : i \in Int
  OBVIOUS
<1>5. \A i \in 0..BADNODE : next(node, tag, i) = nx[i]
  BY <1>3, <1>k, Zenon
<1>6. \A i \in 0..BADNODE : index_or_end(i) = None <=> i = BADNODE
  BY DEF index_or_end, None, Some
<1>7. first(node, tag) = Lowest(S, BADNODE) /\ Supvals(node, tag) = F[first(node, tag)]
  <2>1. Supvals(node, tag) = F[first(node, tag)]
    BY Zenon DEF Supvals
  <2> QED BY <1>k, <2>1
<1> HIDE DEF V
<1>8. out \in [0..BADNODE -> Int \X Y] /\ \A i \in 0..BADNODE : out[i][1] = i /\ out[i] = <<i, V(i)>>
  BY <1>1, <1>2, <1>4
<1>9. \A f : \A i \in 0..BADNODE : Step(f, i) = Round(f, i, BADNODE, nx, out)
  BY <1>5, <1>6, <1>8, Zenon DEF Round
<1>10. IsIndexWalk(S, Y, nx, out)
  BY <1>k, <1>3, <1>8 DEF IsIndexWalk
<1>11. /\ HasWalk(0..BADNODE, BADNODE, nx, out)
       /\ AllVisit(0..BADNODE, BADNODE, nx, out, Lowest(S, BADNODE), S)
  BY <1>10, IndexWalk
<1>12. \E f : f = [i \in 0..BADNODE |-> Step(f, i)]
  <2>1. PICK f : f = [i \in 0..BADNODE |-> Round(f, i, BADNODE, nx, out)]
    BY <1>11, Zenon DEF HasWalk
  <2>2. [i \in 0..BADNODE |-> Round(f, i, BADNODE, nx, out)] = [i \in 0..BADNODE |-> Step(f, i)]
    BY <1>9, Zenon
  <2> QED BY <2>1, <2>2, Zenon
<1> HIDE DEF Step
<1>13. F = [i \in 0..BADNODE |-> Step(F, i)]
  BY <1>12, Zenon
<1> HIDE DEF F
<1>14. Walks(F, 0..BADNODE, BADNODE, nx, out)
  BY <1>9, <1>13 DEF Walks
<1> QED BY <1>0, <1>7, <1>11, <1>14, Zenon DEF AllVisit

\* Keys above a key become fewer at each step.
LEMMA FewerAbove ==
  ASSUME NEW k \in Keys, NEW l \in Keys, k < l
  PROVE  /\ Cardinality({j \in Keys : j > k}) \in 0..Cardinality(Keys)
         /\ Cardinality({j \in Keys : j > l}) < Cardinality({j \in Keys : j > k})
<1>1. PICK A : A = {j \in Keys : j > k}
  OBVIOUS
<1>2. PICK B : B = {j \in Keys : j > l}
  OBVIOUS
<1>3. Keys \subseteq Nat /\ IsFiniteSet(Keys)
  BY StoreAssumption
<1>4. B \subseteq A /\ l \in A /\ l \notin B
  <2>1. k \in Nat /\ l \in Nat /\ \A j \in Keys : j \in Nat
    BY <1>3
  <2>2. \A j \in B : j \in A
    BY <1>1, <1>2, <2>1
  <2>3. l \in A /\ l \notin B
    BY <1>1, <1>2, <2>1
  <2> QED BY <2>2, <2>3, Zenon
<1>5. IsFiniteSet(A) /\ Cardinality(A) <= Cardinality(Keys) /\ Cardinality(Keys) \in Nat
  <2>1. A \in SUBSET Keys
    BY <1>1
  <2> QED BY <1>3, <2>1, FS_Subset, FS_CardinalityType
<1>6. Cardinality(A) \in Nat /\ Cardinality(B) < Cardinality(A)
  <2>1. B # A
    BY <1>4
  <2>2. IsFiniteSet(B) /\ Cardinality(B) <= Cardinality(A) /\ (Cardinality(A) = Cardinality(B) => A = B)
    BY <1>4, <1>5, FS_Subset
  <2>3. Cardinality(A) \in Nat /\ Cardinality(B) \in Nat
    BY <1>5, <2>2, FS_CardinalityType
  <2> QED BY <2>1, <2>2, <2>3
<1> QED BY <1>1, <1>2, <1>5, <1>6

\* The places of a walk over the hash keys, and the raw answer after each.
Places == {None} \cup {Some(k) : k \in Keys}
After(S, at) ==
  IF at = None \/ {j \in S : j > at[1]} = {} THEN None ELSE Some(Lowest({j \in S : j > at[1]}, 0))
FirstOf(S) == IF S = {} THEN None ELSE Some(Lowest(S, 0))

IsHashWalk(S, Y, nx, out) ==
  /\ S \subseteq Keys
  /\ out \in [Places -> Int \X Y] /\ \A k \in Keys : out[Some(k)][1] = k
  /\ nx = [at \in Places |-> After(S, at)]

\* The walk of a hash, whose end is None and not a number.
LEMMA HashWalk ==
  ASSUME NEW S, NEW Y, NEW nx, NEW out, IsHashWalk(S, Y, nx, out)
  PROVE  /\ HasWalk(Places, None, nx, out)
         /\ AllVisit(Places, None, nx, out, FirstOf(S), S)
<1> USE DEF IsHashWalk
<1> DEFINE X == Int \X Y
           h == [x \in X |-> x[1]]
           M == Cardinality(Keys) + 1
           m == [at \in Places |-> IF at = None THEN 0 ELSE Cardinality({j \in Keys : j > at[1]}) + 1]
           ahead == [at \in Places |-> IF at = None THEN {} ELSE {at[1]} \cup {j \in S : j > at[1]}]
<1>0. Keys \subseteq Nat /\ IsFiniteSet(Keys) /\ S \subseteq Keys
  BY StoreAssumption
<1>1. /\ None \in Places /\ \A k \in Keys : Some(k) \in Places /\ Some(k) # None /\ Some(k)[1] = k
      /\ \A at \in Places : at = None \/ \E k \in Keys : at = Some(k)
  BY DEF Places, None, Some
<1>2. \A k \in Keys : Cardinality({j \in Keys : j > k}) \in 0..Cardinality(Keys)
  <2> SUFFICES ASSUME NEW k \in Keys PROVE Cardinality({j \in Keys : j > k}) \in 0..Cardinality(Keys)
    OBVIOUS
  <2>1. PICK A : A = {j \in Keys : j > k}
    OBVIOUS
  <2>2. A \subseteq Keys
    BY <2>1
  <2>3. IsFiniteSet(A) /\ Cardinality(A) <= Cardinality(Keys)
    BY <1>0, <2>2, FS_Subset
  <2>4. Cardinality(A) \in Nat /\ Cardinality(Keys) \in Nat
    BY <1>0, <2>3, FS_CardinalityType
  <2> QED BY <2>1, <2>3, <2>4
<1>3. M \in Nat /\ \A at \in Places : m[at] \in 0..M
  <2>1. Cardinality(Keys) \in Nat
    BY <1>0, FS_CardinalityType
  <2> QED BY <1>1, <1>2, <2>1
<1>4. ASSUME NEW k \in Keys
      PROVE  LET A == {j \in S : j > k}
                 l == Lowest(A, 0)
             IN  \/ A = {} /\ nx[Some(k)] = None
                 \/ /\ nx[Some(k)] = Some(l) /\ l \in Keys /\ l > k
                    /\ A = {l} \cup {j \in S : j > l}
  <2>1. PICK A : A = {j \in S : j > k}
    OBVIOUS
  <2>2. PICK l : l = Lowest(A, 0)
    OBVIOUS
  <2>3. nx[Some(k)] = IF A = {} THEN None ELSE Some(l)
    BY <1>1, <2>1, <2>2, Zenon DEF After
  <2>4. CASE A = {}
    BY <2>1, <2>3, <2>4
  <2>5. CASE A # {}
    <3>1. A \subseteq Nat
      BY <1>0, <2>1
    <3>2. l \in A /\ \A y \in A : l <= y
      BY <2>2, <2>5, <3>1, LowestOf
    <3>3. l \in Keys /\ l > k /\ l \in Nat /\ k \in Nat /\ \A j \in S : j \in Nat
      BY <1>0, <2>1, <3>2
    <3>4. \A j \in A : j = l \/ j > l
      BY <3>1, <3>2
    <3>5. \A j \in S : j > l => j \in A
      BY <2>1, <3>3
    <3>6. A = {l} \cup {j \in S : j > l}
      BY <2>1, <3>2, <3>4, <3>5
    <3> QED BY <2>1, <2>2, <2>3, <2>5, <3>3, <3>6
  <2> QED BY <2>4, <2>5
<1>5. ASSUME NEW at \in Places, at # None
      PROVE  /\ nx[at] \in Places /\ m[nx[at]] < m[at]
             /\ ahead[at] = {h[out[at]]} \cup ahead[nx[at]]
             /\ \A j \in ahead[nx[at]] : h[out[at]] < j
  <2>1. PICK k \in Keys : at = Some(k)
    BY <1>1, <1>5
  <2>2. PICK A : A = {j \in S : j > k}
    OBVIOUS
  <2>3. PICK l : l = Lowest(A, 0)
    OBVIOUS
  <2>4. \/ A = {} /\ nx[Some(k)] = None
        \/ nx[Some(k)] = Some(l) /\ l \in Keys /\ l > k /\ A = {l} \cup {j \in S : j > l}
    BY <1>4, <2>2, <2>3, Zenon
  <2>5. h[out[at]] = k
    BY <1>1, <2>1
  <2>6. ahead[at] = {k} \cup A
    BY <1>1, <2>1, <2>2
  <2>7. m[at] = Cardinality({j \in Keys : j > k}) + 1
    BY <1>1, <2>1
  <2>8. CASE A = {} /\ nx[Some(k)] = None
    <3>1. m[nx[at]] = 0 /\ ahead[nx[at]] = {} /\ nx[at] \in Places
      BY <1>1, <2>1, <2>8
    <3> QED BY <1>2, <2>2, <2>5, <2>6, <2>7, <2>8, <3>1
  <2>9. CASE nx[Some(k)] = Some(l) /\ l \in Keys /\ l > k /\ A = {l} \cup {j \in S : j > l}
    <3>1. m[nx[at]] = Cardinality({j \in Keys : j > l}) + 1 /\ nx[at] \in Places
      BY <1>1, <2>1, <2>9
    <3>2. ahead[nx[at]] = A
      BY <1>1, <2>1, <2>9
    <3>3. k < l
      BY <1>0, <2>9
    <3>4. Cardinality({j \in Keys : j > l}) < Cardinality({j \in Keys : j > k})
      BY <2>9, <3>3, FewerAbove
    <3>5. m[nx[at]] < m[at]
      BY <1>2, <2>7, <2>9, <3>1, <3>4
    <3>6. \A j \in A : k < j
      BY <1>0, <2>2
    <3> QED BY <2>5, <2>6, <3>1, <3>2, <3>5, <3>6
  <2> QED BY <2>4, <2>8, <2>9
<1>6. nx[None] = None /\ ahead[None] = {}
  BY <1>1 DEF After
<1>7. ahead[FirstOf(S)] = S /\ FirstOf(S) \in Places
  <2>1. CASE S = {}
    BY <1>1, <1>6, <2>1 DEF FirstOf
  <2>2. CASE S # {}
    <3>1. S \subseteq Nat
      BY <1>0
    <3>2. PICK l : l = Lowest(S, 0)
      OBVIOUS
    <3>3. l \in S /\ \A y \in S : l <= y
      BY <2>2, <3>1, <3>2, LowestOf
    <3>4. S = {l} \cup {j \in S : j > l}
      <4>1. \A j \in S : j = l \/ j > l
        BY <3>1, <3>3
      <4> QED BY <3>3, <4>1
    <3>5. FirstOf(S) = Some(l) /\ l \in Keys
      BY <1>0, <2>2, <3>2, <3>3 DEF FirstOf
    <3> QED BY <1>1, <3>4, <3>5
  <2> QED BY <2>1, <2>2
<1>8. h \in [X -> Int] /\ nx \in [Places -> Places] /\ m \in [Places -> 0..M]
  <2>1. \A at \in Places : nx[at] \in Places
    BY <1>1, <1>5, <1>6, Zenon
  <2>2. nx = [at \in Places |-> nx[at]]
    OBVIOUS
  <2>3. nx \in [Places -> Places]
    BY <2>1, <2>2, Zenon
  <2>4. m \in [Places -> 0..M]
    BY <1>3
  <2> QED BY <2>3, <2>4
<1> HIDE DEF X, h, m, M, ahead
<1>9. out \in [Places -> X]
  BY DEF X
<1>10. IsWalk(Places, None, nx, m, M, X, out)
  BY <1>1, <1>3, <1>5, <1>8, <1>9 DEF IsWalk
<1>11. KeysAhead(Places, None, nx, out, h, ahead)
  BY <1>5, <1>6 DEF KeysAhead
<1>12. HasWalk(Places, None, nx, out)
  BY <1>10, WalkExists
<1>13. ASSUME NEW f, Walks(f, Places, None, nx, out)
       PROVE  Visits(Heads(f[FirstOf(S)]), S)
  <2>1. \A at \in Places : f[at] \in Seq(X) /\ KeysOf(f[at], h, ahead[at])
    BY <1>8, <1>10, <1>11, <1>13, WalkVisits
  <2>2. f[FirstOf(S)] \in Seq(X) /\ KeysOf(f[FirstOf(S)], h, S)
    BY <1>7, <2>1
  <2> QED BY <2>2, HeadsVisit DEF X, h
<1> QED BY <1>12, <1>13, Zenon DEF AllVisit

\* NetnodeHashEntries yields every key of its hash once, in order.
LEMMA HashWhole ==
  ASSUME NEW node, NEW tag, KeysIn(node, tag, "str") \subseteq Keys
  PROVE  Visits(Heads(HashEntries(node, tag)), KeysIn(node, tag, "str"))
<1>0. PICK S : S = KeysIn(node, tag, "str")
  OBVIOUS
<1> DEFINE V(k) == unwrap_or_default(Clamped(Str(node, tag, k)))
           Step(f, at) == IF at = None THEN <<>> ELSE <<<<at[1], V(at[1])>>>> \o f[hashnext(node, tag, at[1])]
           F == CHOOSE f : f = [at \in Places |-> Step(f, at)]
<1>1. PICK Y : Y = {V(k) : k \in Keys} \cup {0}
  OBVIOUS
<1>2. PICK out : out = [at \in Places |-> IF at = None THEN <<0, 0>> ELSE <<at[1], V(at[1])>>]
  OBVIOUS
<1>3. PICK nx : nx = [at \in Places |-> After(S, at)]
  OBVIOUS
<1>4. /\ \A k \in Keys : k \in Int /\ Some(k) \in Places /\ Some(k) # None /\ Some(k)[1] = k
      /\ \A at \in Places : at = None \/ \E k \in Keys : at = Some(k)
  BY StoreAssumption DEF Places, None, Some
<1>5. \A at \in Places : at # None => hashnext(node, tag, at[1]) = nx[at]
  <2> SUFFICES ASSUME NEW at \in Places, at # None PROVE hashnext(node, tag, at[1]) = nx[at]
    OBVIOUS
  <2>1. PICK A : A = {j \in S : j > at[1]}
    OBVIOUS
  <2>2. hashnext(node, tag, at[1]) = IF A = {} THEN None ELSE Some(Lowest(A, 0))
    BY <1>0, <2>1 DEF hashnext, KeysIn
  <2>3. nx[at] = IF A = {} THEN None ELSE Some(Lowest(A, 0))
    BY <1>3, <2>1 DEF After
  <2> QED BY <2>2, <2>3
<1>7. hashfirst(node, tag) = FirstOf(S) /\ HashEntries(node, tag) = F[hashfirst(node, tag)]
  BY <1>0, Zenon DEF hashfirst, KeysIn, HashEntries, FirstOf, Places
<1> HIDE DEF V
<1>8. /\ out \in [Places -> Int \X Y] /\ \A k \in Keys : out[Some(k)][1] = k
      /\ \A at \in Places : at # None => out[at] = <<at[1], V(at[1])>>
  BY <1>1, <1>2, <1>4
<1>9. \A f : \A at \in Places : Step(f, at) = Round(f, at, None, nx, out)
  BY <1>5, <1>8, Zenon DEF Round
<1>10. IsHashWalk(S, Y, nx, out)
  BY <1>0, <1>3, <1>8 DEF IsHashWalk
<1>11. /\ HasWalk(Places, None, nx, out)
       /\ AllVisit(Places, None, nx, out, FirstOf(S), S)
  BY <1>10, HashWalk
<1>12. \E f : f = [at \in Places |-> Step(f, at)]
  <2>1. PICK f : f = [at \in Places |-> Round(f, at, None, nx, out)]
    BY <1>11, Zenon DEF HasWalk
  <2>2. [at \in Places |-> Round(f, at, None, nx, out)] = [at \in Places |-> Step(f, at)]
    BY <1>9, Zenon
  <2> QED BY <2>1, <2>2, Zenon
<1> HIDE DEF Step
<1>13. F = [at \in Places |-> Step(F, at)]
  BY <1>12, Zenon
<1> HIDE DEF F
<1>14. Walks(F, Places, None, nx, out)
  BY <1>9, <1>13 DEF Walks
<1> QED BY <1>0, <1>7, <1>11, <1>14, Zenon DEF AllVisit

\* What Visits says of a sequence whose entries are their own keys.
LEMMA KeysVisit ==
  ASSUME NEW s \in Seq(Int), NEW A, KeysOf(s, [x \in Int |-> x], A)
  PROVE  Visits(s, A)
<1>1. PICK h : h = [x \in Int |-> x]
  OBVIOUS
<1>2. KeysOf(s, h, A)
  BY <1>1, Zenon
<1>3. DOMAIN s = 1..Len(s) /\ \A i \in 1..Len(s) : h[s[i]] = s[i]
  BY <1>1
<1>4. {h[s[i]] : i \in 1..Len(s)} = A /\ \A i, j \in 1..Len(s) : i < j => h[s[i]] < h[s[j]]
  BY <1>2 DEF KeysOf
<1>5. {s[i] : i \in DOMAIN s} = A
  BY <1>3, <1>4
<1>6. Ascending(s)
  BY <1>3, <1>4 DEF Ascending
<1> QED BY <1>5, <1>6 DEF Visits

\* Netnodes yields every node that exists once, in order, and ends where the
\* niche does, not at the node of id 0.
LEMMA NetnodesWhole == Visits(Netnodes, {n \in Nodes : exists(n)})
<1>0. PICK S : S = {n \in Nodes : exists(n)}
  OBVIOUS
<1> DEFINE D == 0..BADNODE
           Step(f, c) == IF ~IsSome(c) THEN <<>> ELSE <<get(c)>> \o f[try_new(netnode_next(get(c)))]
           F == CHOOSE f : f = [c \in D |-> Step(f, c)]
<1>1. /\ BADNODE \in Nat /\ S \subseteq 0..(BADNODE - 1)
      /\ \A c \in D : BADNODE - c \in D /\ BADNODE - c \in Int /\ c \in Nat
  <2>1. BADNODE \in Nat /\ Nodes \subseteq 0..(BADNODE - 1)
    BY StoreAssumption
  <2>2. S \subseteq 0..(BADNODE - 1)
    BY <1>0, <2>1
  <2>3. \A c \in D : BADNODE - c \in D /\ BADNODE - c \in Int /\ c \in Nat
    BY <2>1
  <2> QED BY <2>1, <2>2, <2>3
<1>2. PICK out : out = [c \in D |-> BADNODE - c]
  OBVIOUS
<1>3. PICK nx : nx = [c \in D |-> BADNODE - Lowest({j \in S : j > BADNODE - c}, BADNODE)]
  OBVIOUS
<1>4. PICK h : h = [x \in Int |-> x]
  OBVIOUS
<1>5. PICK m : m = [c \in D |-> c]
  OBVIOUS
<1>6. PICK ahead : ahead = [c \in D |-> IF c = 0 THEN {} ELSE {BADNODE - c} \cup {j \in S : j > BADNODE - c}]
  OBVIOUS
<1>7. ASSUME NEW n PROVE netnode_next(n) = Lowest({j \in S : j > n}, BADNODE)
  <2>1. {k \in Nodes : exists(k) /\ k > n} = {j \in S : j > n}
    BY <1>0
  <2> QED BY <2>1 DEF netnode_next
<1>8. \A f : \A c \in D : Step(f, c) = Round(f, c, 0, nx, out)
  <2> SUFFICES ASSUME NEW f, NEW c \in D PROVE Step(f, c) = Round(f, c, 0, nx, out)
    OBVIOUS
  <2>1. get(c) = out[c] /\ (IsSome(c) <=> c # 0)
    BY <1>2 DEF get, Complement, IsSome
  <2>2. try_new(netnode_next(get(c))) = nx[c]
    BY <1>3, <1>7, Zenon DEF get, Complement, try_new
  <2> QED BY <2>1, <2>2, Zenon DEF Round
<1>9. netnode_first = Lowest(S, BADNODE) /\ Netnodes = F[try_new(netnode_first)]
  BY <1>0, Zenon DEF netnode_first, Netnodes
<1>10. ASSUME NEW c \in D
       PROVE  /\ nx[c] \in D /\ (c # 0 => nx[c] < c)
              /\ nx[c] = 0 => {j \in S : j > BADNODE - c} = {}
              /\ nx[c] # 0 => {j \in S : j > BADNODE - c}
                              = {BADNODE - nx[c]} \cup {j \in S : j > BADNODE - nx[c]}
  <2>1. PICK i : i = BADNODE - c
    OBVIOUS
  <2>2. PICK l : l = Lowest({j \in S : j > i}, BADNODE)
    OBVIOUS
  <2>3. i \in 0..BADNODE /\ i \in Int /\ c \in Nat /\ (c # 0 <=> i # BADNODE)
    BY <1>1, <2>1
  <2>4. /\ l \in 0..BADNODE /\ (i # BADNODE => l > i)
        /\ l = BADNODE => {j \in S : j > i} = {}
        /\ l # BADNODE => {j \in S : j > i} = {l} \cup {j \in S : j > l}
    <3>1. S \subseteq 0..(BADNODE - 1) /\ i \in 0..BADNODE
      BY <1>1, <2>3
    <3> HIDE DEF D
    <3>2. LET w == Lowest({j \in S : j > i}, BADNODE)
          IN  /\ w \in 0..BADNODE /\ (i # BADNODE => w > i)
              /\ w = BADNODE => {j \in S : j > i} = {}
              /\ w # BADNODE => {j \in S : j > i} = {w} \cup {j \in S : j > w}
      BY <3>1, NextOf
    <3> QED BY <2>2, <3>2, Zenon
  <2>5. nx[c] = BADNODE - l
    BY <1>3, <2>1, <2>2
  <2>6. l \in Int /\ BADNODE - nx[c] = l /\ (nx[c] = 0 <=> l = BADNODE) /\ nx[c] \in D
    BY <1>1, <2>4, <2>5
  <2>7. c # 0 => nx[c] < c
    BY <1>1, <2>1, <2>3, <2>4, <2>5, <2>6
  <2> QED BY <2>1, <2>4, <2>6, <2>7, Zenon
<1>11. 0 \in D /\ ahead[0] = {}
  BY <1>1, <1>6
<1>12. ASSUME NEW c \in D, c # 0
       PROVE  /\ m[nx[c]] < m[c] /\ ahead[c] = {h[out[c]]} \cup ahead[nx[c]]
              /\ \A j \in ahead[nx[c]] : h[out[c]] < j
  <2>1. PICK i : i = BADNODE - c
    OBVIOUS
  <2>2. PICK A : A = {j \in S : j > i}
    OBVIOUS
  <2>3. nx[c] \in D /\ nx[c] < c /\ m[nx[c]] = nx[c] /\ m[c] = c
    BY <1>5, <1>10, <1>12
  <2>4. i \in Int /\ h[out[c]] = i
    BY <1>1, <1>2, <1>4, <2>1
  <2>5. ahead[c] = {i} \cup A
    BY <1>6, <1>12, <2>1, <2>2
  <2>6. ahead[nx[c]] = A
    BY <1>6, <1>10, <2>1, <2>2, <2>3
  <2>7. \A j \in A : i < j
    BY <1>1, <2>2, <2>4
  <2> QED BY <2>3, <2>4, <2>5, <2>6, <2>7
<1>13. PICK start : start = try_new(netnode_first)
  OBVIOUS
<1>14. start \in D /\ ahead[start] = S
  <2>1. PICK l : l = Lowest(S, BADNODE)
    OBVIOUS
  <2>2. start = BADNODE - l
    BY <1>9, <1>13, <2>1 DEF try_new, Complement
  <2>3. CASE S = {}
    BY <1>1, <1>11, <2>1, <2>2, <2>3 DEF Lowest
  <2>4. CASE S # {}
    <3>1. \A j \in S : j \in Nat /\ j < BADNODE
      BY <1>1
    <3>2. S \subseteq Nat
      BY <3>1, Zenon
    <3>3. l \in S /\ \A y \in S : l <= y
      BY <2>1, <2>4, <3>2, LowestOf
    <3>4. l \in Nat /\ l < BADNODE
      BY <3>1, <3>3
    <3>5. start \in D /\ start # 0 /\ BADNODE - start = l
      BY <1>1, <2>2, <3>4
    <3>6. \A j \in S : j = l \/ j > l
      BY <3>1, <3>3, <3>4
    <3>7. S = {l} \cup {j \in S : j > l}
      BY <3>3, <3>6
    <3> QED BY <1>6, <3>5, <3>7
  <2> QED BY <2>3, <2>4
<1>15. /\ nx \in [D -> D] /\ m \in [D -> 0..BADNODE] /\ out \in [D -> Int] /\ h \in [Int -> Int]
  <2>1. \A c \in D : nx[c] \in D
    BY <1>10
  <2>2. nx = [c \in D |-> nx[c]]
    BY <1>3
  <2>3. nx \in [D -> D]
    BY <2>1, <2>2, Zenon
  <2> QED BY <1>1, <1>2, <1>4, <1>5, <2>3
<1> HIDE DEF D
<1>16. IsWalk(D, 0, nx, m, BADNODE, Int, out)
  BY <1>1, <1>11, <1>12, <1>15 DEF IsWalk
<1>17. KeysAhead(D, 0, nx, out, h, ahead)
  BY <1>11, <1>12 DEF KeysAhead
<1>18. HasWalk(D, 0, nx, out)
  BY <1>16, WalkExists
<1>19. \E f : f = [c \in D |-> Step(f, c)]
  <2>1. PICK f : f = [c \in D |-> Round(f, c, 0, nx, out)]
    BY <1>18, Zenon DEF HasWalk
  <2>2. [c \in D |-> Round(f, c, 0, nx, out)] = [c \in D |-> Step(f, c)]
    BY <1>8, Zenon
  <2> QED BY <2>1, <2>2, Zenon
<1> HIDE DEF Step
<1>20. F = [c \in D |-> Step(F, c)]
  BY <1>19, Zenon
<1> HIDE DEF F
<1>21. PICK f : f = F
  OBVIOUS
<1>22. Walks(f, D, 0, nx, out)
  BY <1>8, <1>20, <1>21 DEF Walks
<1>23. f[start] \in Seq(Int) /\ KeysOf(f[start], h, S)
  BY <1>14, <1>15, <1>16, <1>17, <1>22, WalkVisits
<1>24. Visits(f[start], S)
  BY <1>4, <1>23, KeysVisit
<1> QED BY <1>0, <1>9, <1>13, <1>21, <1>24

-----------------------------------------------------------------------------
(* The keys of the store.                                                    *)

IsKeyed(s) == /\ s[3] = "num" => s[4] \in 0..BADNODE
              /\ s[3] = "str" => s[4] \in Keys

\* Every index is a u64 and every hash key one of the order's; the cursor's
\* node is one the kernel gave.
Keyed ==
  /\ \A s \in DOMAIN objs : IsKeyed(s)
  /\ cursor = 0 \/ id \in Nodes

\* A step that adds at most the one object.
AddsOnly(slot) == DOMAIN objs' \subseteq DOMAIN objs \cup {slot} /\ cursor' = cursor

\* Such a step keeps the store keyed, if the slot is.
LEMMA AddsKeyed ==
  ASSUME Keyed, NEW slot, IsKeyed(slot), AddsOnly(slot)
  PROVE  Keyed'
<1>1. \A s \in DOMAIN objs' : IsKeyed(s)
  BY DEF Keyed, AddsOnly
<1>2. cursor' = 0 \/ id' \in Nodes
  BY DEF Keyed, AddsOnly, id, get, Complement
<1> QED BY <1>1, <1>2 DEF Keyed

\* The slots the writes name are keyed.
LEMMA NumKeyed == ASSUME NEW n, NEW tag, NEW i \in 0..BADNODE PROVE IsKeyed(Num(n, tag, i))
  BY DEF IsKeyed, Num
LEMMA StrKeyed == ASSUME NEW n, NEW tag, NEW k \in Keys PROVE IsKeyed(Str(n, tag, k))
<1>1. CStr[k] \in Keys
  BY StoreAssumption
<1> QED BY <1>1 DEF IsKeyed, Str

\* A setter of one slot adds that slot.
LEMMA IntegerAdds ==
  ASSUME NEW slot, NEW v, NEW at, NEW shown, PutInteger(slot, v, at, shown)
  PROVE  AddsOnly(slot)
<1>1. objs' = objs \/ objs' = Put(objs, slot, Le(v, Width))
  BY DEF PutInteger, Write, checked
<1>2. cursor' = cursor
  BY DEF PutInteger, Write
<1> QED BY <1>1, <1>2 DEF AddsOnly, Put

LEMMA BytesAdds ==
  ASSUME NEW slot, NEW bytes, NEW at, Bytes(slot, bytes, at)
  PROVE  AddsOnly(slot)
<1>1. objs' = objs \/ objs' = Put(objs, slot, bytes)
  BY DEF Bytes, checked
<1>2. cursor' = cursor
  BY DEF Bytes
<1> QED BY <1>1, <1>2 DEF AddsOnly, Put

\* A step that adds nothing.
LEMMA LessKeyed ==
  ASSUME Keyed, DOMAIN objs' \subseteq DOMAIN objs, cursor' = cursor
  PROVE  Keyed'
<1>1. \A s \in DOMAIN objs' : IsKeyed(s)
  BY DEF Keyed
<1>2. cursor' = 0 \/ id' \in Nodes
  BY DEF Keyed, id, get, Complement
<1> QED BY <1>1, <1>2 DEF Keyed

LEMMA DeleteKeyed ==
  ASSUME Keyed, NEW op, NEW gone, NEW at, Delete(op, gone, at)
  PROVE  Keyed'
<1>1. DOMAIN objs' \subseteq DOMAIN objs /\ cursor' = cursor
  BY DEF Delete
<1> QED BY <1>1, LessKeyed

LEMMA FailedKeyed ==
  ASSUME Keyed, NEW at, SerializeFailed(at)
  PROVE  Keyed'
<1>1. DOMAIN objs' \subseteq DOMAIN objs /\ cursor' = cursor
  BY DEF SerializeFailed
<1> QED BY <1>1, LessKeyed

\* A blob takes slots of its own array, and those have u64 indices.
LEMMA BlobKeyed ==
  ASSUME Keyed, NEW tag, NEW i, NEW v, PutBlob(tag, i, v)
  PROVE  Keyed'
<1>1. PICK n : n = id
  OBVIOUS
<1>2. PICK g : g = setblob(objs, n, tag, i, v)
  OBVIOUS
<1>3. (objs' = objs \/ objs' = g) /\ cursor' = cursor
  BY <1>1, <1>2 DEF PutBlob, Write, checked
<1>4. \A s \in DOMAIN g : s \in DOMAIN objs \/ \E x \in 0..BADNODE : s = Num(n, tag, x)
  BY <1>2 DEF setblob
<1>5. \A s \in DOMAIN g : IsKeyed(s)
  BY <1>4, NumKeyed DEF Keyed
<1>6. \A s \in DOMAIN objs' : IsKeyed(s)
  BY <1>3, <1>5 DEF Keyed
<1>7. cursor' = 0 \/ id' \in Nodes
  BY <1>3 DEF Keyed, id, get, Complement
<1> QED BY <1>6, <1>7 DEF Keyed

\* Every step keeps the store keyed.
LEMMA StepKeyed ==
  ASSUME Keyed, [Next]_vars
  PROVE  Keyed'
<1>0. PICK n : n = id
  OBVIOUS
<1>a. \A i \in Indices \cup Starts : i \in 0..BADNODE
  BY StoreAssumption
<1>b. 0 \in 0..BADNODE
  BY StoreAssumption
<1>num. ASSUME NEW tag, NEW i \in 0..BADNODE, AddsOnly(Num(n, tag, i)) PROVE Keyed'
  BY <1>num, NumKeyed, AddsKeyed
<1>str. ASSUME NEW tag, NEW k \in Keys, AddsOnly(Str(n, tag, k)) PROVE Keyed'
  BY <1>str, StrKeyed, AddsKeyed
<1>1. ASSUME NEW m \in Names, netnode_mut(m) PROVE Keyed'
  <2>1. PICK o \in Nodes : cursor' = try_new(o) /\ objs' = objs
    BY <1>1 DEF netnode_mut
  <2>2. BADNODE \in Nat /\ o \in 0..(BADNODE - 1)
    BY StoreAssumption
  <2>3. id' = o
    BY <2>1, <2>2 DEF id, get, try_new, Complement
  <2>4. \A s \in DOMAIN objs' : IsKeyed(s)
    BY <2>1 DEF Keyed
  <2> QED BY <2>3, <2>4 DEF Keyed
<1>2. ASSUME NEW m \in Names \cup {""}, rename(m) PROVE Keyed'
  BY <1>2, LessKeyed DEF rename
<1>3. ASSUME NEW i \in Indices, NEW v \in Integers64, set_altval(i, v) PROVE Keyed'
  <2>1. PutInteger(Num(n, ALTVAL, i), v, <<n, <<"altval">>, i>>, v)
    BY <1>0, <1>3 DEF set_altval
  <2> QED BY <1>a, <1>num, <2>1, IntegerAdds
<1>4. ASSUME NEW i \in Indices, NEW v \in Objects, set_supval(i, v) PROVE Keyed'
  <2>1. Bytes(Num(n, SUPVAL, i), v, <<n, <<"supval">>, i>>)
    BY <1>0, <1>4 DEF set_supval
  <2> QED BY <1>a, <1>num, <2>1, BytesAdds
<1>5. ASSUME NEW i \in Indices, remove_altval(i) \/ remove_supval(i) PROVE Keyed'
  <2>1. PICK gone, at : Delete("remove", gone, at)
    BY <1>5, Zenon DEF remove_altval, remove_supval
  <2> QED BY <2>1, DeleteKeyed
<1>6. ASSUME NEW k \in Keys, NEW v \in Integers64, set_hash_integer(k, v) PROVE Keyed'
  <2>1. PutInteger(Str(n, HASH, k), v, <<n, <<"hash">>, CStr[k]>>, Le(v, Width))
    BY <1>0, <1>6 DEF set_hash_integer
  <2> QED BY <1>str, <2>1, IntegerAdds
<1>7. ASSUME NEW k \in Keys, NEW bytes, set_hash(k, bytes) PROVE Keyed'
  <2>1. Bytes(Str(n, HASH, k), bytes, <<n, <<"hash">>, CStr[k]>>)
    BY <1>0, <1>7 DEF set_hash
  <2> QED BY <1>str, <2>1, BytesAdds
<1>8. ASSUME NEW k \in Keys, NEW T, NEW v, put(T, k, v) PROVE Keyed'
  BY <1>7, <1>8 DEF put
<1>9. ASSUME NEW k \in Keys, NEW v, NEW encodes \in BOOLEAN, put_serde(k, v, encodes) PROVE Keyed'
  <2>1. set_hash(k, Postcard(v)) \/ SerializeFailed(<<n, <<"hash">>, CStr[k]>>)
    BY <1>0, <1>9 DEF put_serde
  <2> QED BY <1>7, <2>1, FailedKeyed
<1>10. ASSUME NEW k \in Keys, remove_hash(k) PROVE Keyed'
  <2>1. PICK gone, at : Delete("remove", gone, at)
    BY <1>10, Zenon DEF remove_hash
  <2> QED BY <2>1, DeleteKeyed
<1>11. ASSUME NEW i \in Starts, NEW v, NEW encodes \in BOOLEAN, put_serde_at(i, v, encodes) PROVE Keyed'
  <2>1. PutBlob(BLOB, i, Postcard(v)) \/ SerializeFailed(<<n, <<"blob">>, i>>)
    BY <1>0, <1>11 DEF put_serde_at
  <2> QED BY <2>1, BlobKeyed, FailedKeyed
<1>12. ASSUME NEW v, set_value(v) PROVE Keyed'
  <2>1. Bytes(Num(n, VALUE, 0), v, <<n, <<"value">>, 0>>) /\ IsSome(cursor)
    BY <1>0, <1>12 DEF set_value, Bytes
  <2> QED BY <1>b, <1>num, <2>1, BytesAdds
<1>13. ASSUME NEW v, set_blob(v) PROVE Keyed'
  BY <1>13, BlobKeyed DEF set_blob
<1>14. ASSUME clear_value \/ remove_blob \/ clear_altvals \/ clear_supvals \/ clear_hash PROVE Keyed'
  <2>1. PICK op, gone, at : Delete(op, gone, at)
    BY <1>14, Zenon DEF clear_value, remove_blob, clear_altvals, clear_supvals, clear_hash
  <2> QED BY <2>1, DeleteKeyed
<1>15. ASSUME kill PROVE Keyed'
  <2>1. DOMAIN objs' \subseteq DOMAIN objs /\ cursor' = cursor
    BY <1>15 DEF kill
  <2> QED BY <2>1, LessKeyed
<1>16. ASSUME NEW t \in Tags, NEW i \in Indices, NEW v, tag_set_integer(t, i, v) PROVE Keyed'
  <2>1. PutInteger(Num(n, t, i), v, <<n, Slot(t), i>>, Le(v, Width))
    BY <1>0, <1>16 DEF tag_set_integer
  <2> QED BY <1>a, <1>num, <2>1, IntegerAdds
<1>17. ASSUME NEW t \in Tags, NEW i \in Indices, NEW v, tag_set_value(t, i, v) PROVE Keyed'
  <2>1. Bytes(Num(n, t, i), v, <<n, Slot(t), i>>)
    BY <1>0, <1>17 DEF tag_set_value
  <2> QED BY <1>a, <1>num, <2>1, BytesAdds
<1>18. ASSUME NEW t \in Tags, NEW k \in Keys, NEW v, tag_set_hash(t, k, v) PROVE Keyed'
  <2>1. Bytes(Str(n, t, k), v, <<n, Table(t), CStr[k]>>)
    BY <1>0, <1>18 DEF tag_set_hash
  <2> QED BY <1>str, <2>1, BytesAdds
<1>19. ASSUME NEW t \in Tags, NEW i, tag_remove(t, i) \/ tag_remove_hash(t, i) PROVE Keyed'
  <2>1. PICK op, gone, at : Delete(op, gone, at)
    BY <1>19, Zenon DEF tag_remove, tag_remove_hash
  <2> QED BY <2>1, DeleteKeyed
<1>20. ASSUME NEW t \in Tags, tag_clear(t) \/ tag_clear_hash(t) PROVE Keyed'
  <2>1. PICK op, gone, at : Delete(op, gone, at)
    BY <1>20, Zenon DEF tag_clear, tag_clear_hash
  <2> QED BY <2>1, DeleteKeyed
<1>21. CASE UNCHANGED vars
  <2>1. DOMAIN objs' \subseteq DOMAIN objs /\ cursor' = cursor
    BY <1>21 DEF vars
  <2> QED BY <2>1, LessKeyed
<1>22. CASE Next
  BY <1>1, <1>2, <1>3, <1>4, <1>5, <1>6, <1>7, <1>8, <1>9, <1>10, <1>11, <1>12, <1>13, <1>14,
     <1>15, <1>16, <1>17, <1>18, <1>19, <1>20, <1>22 DEF Next
<1> QED BY <1>21, <1>22

\* A keyed store is walked whole.
LEMMA KeyedWhole == Keyed => WalksWhole
<1> SUFFICES ASSUME Keyed PROVE WalksWhole
  OBVIOUS
<1>1. ASSUME NEW n, NEW t PROVE KeysIn(n, t, "num") \subseteq 0..BADNODE
  BY DEF Keyed, IsKeyed, KeysIn, Slots
<1>2. ASSUME NEW n, NEW t PROVE KeysIn(n, t, "str") \subseteq Keys
  BY DEF Keyed, IsKeyed, KeysIn, Slots
<1>3. ASSUME NEW n, NEW t PROVE Visits(Heads(Altvals(n, t)), KeysIn(n, t, "num") \ {BADNODE})
  BY <1>1, AltvalsWhole
<1>4. ASSUME NEW n, NEW t PROVE Visits(Heads(Supvals(n, t)), KeysIn(n, t, "num") \ {BADNODE})
  BY <1>1, SupvalsWhole
<1>5. ASSUME NEW n, NEW t PROVE Visits(Heads(HashEntries(n, t)), KeysIn(n, t, "str"))
  BY <1>2, HashWhole
<1> QED BY <1>3, <1>4, <1>5, NetnodesWhole, Zenon DEF WalksWhole

\* Every iterator visits every key of its array once and in order, the index
\* u64::MAX excepted, which ends the walk and cuts nothing else off; and
\* netnodes() visits every node that has a name or data, the one of id 0
\* included (netnode/arrays.rs:13, netnode/mod.rs:656).
THEOREM IteratorsVisitAll == Spec => []WalksWhole
<1>1. Init => Keyed
  BY DEF Init, Keyed
<1>2. Keyed /\ [Next]_vars => Keyed'
  BY StepKeyed
<1> QED BY <1>1, <1>2, KeyedWhole, PTL DEF Spec

=============================================================================

------------------------------ MODULE Netnode ------------------------------
(***************************************************************************)
(* The netnode layer (idakit/src/netnode) over IDA's persistent store: the *)
(* id niche, the read view and the write cursor, the byte domain of the    *)
(* setters, typed and serde values, the tagged views, and the iterators.   *)
(*                                                                         *)
(* The store is physical: per node, one numeric array and one hash under   *)
(* each tag byte, holding byte objects.  The node's value, an integer, a   *)
(* byte object and a blob are all objects of some tag's array, and only    *)
(* the tag keeps them apart.  A blob is cut into chunks of Cap bytes, one  *)
(* to a slot, from its index on; a slot past the last index is the first.  *)
(* No empty blob is written.  A hash key reaches the kernel as a C string. *)
(* A byte is a digit below Base, a u64 is Width bytes, and the byte        *)
(* Base - 1 stands for one no UTF-8 text has.                              *)
(***************************************************************************)
EXTENDS Integers, Sequences, FiniteSets

CONSTANTS
  BADNODE,     \* the sentinel, and the largest u64
  Nodes,       \* the ids the kernel hands out
  Names,       \* node names
  Keys,        \* hash keys a caller names, numbered in lexical order
  CStr,        \* a key up to its first NUL, which is what c_str() hands over
  Indices,     \* indices of altvals and supvals
  Starts,      \* indices of blobs
  Tags,        \* user tags
  Cap,         \* MAXSPECSIZE
  Base, Width, \* the byte and the bytes of a u64
  Objects,     \* byte slices a caller passes
  Integers64,  \* integers a caller passes
  PutTypes,    \* types of the values a caller puts
  MaxObjects   \* bound: objects in the store, a blob counting once

ASSUME StoreAssumption ==
  /\ BADNODE \in Nat /\ Nodes \subseteq 0..(BADNODE - 1)
  /\ Indices \cup Starts \subseteq 0..BADNODE /\ Keys \subseteq Nat /\ IsFiniteSet(Keys)
  /\ CStr \in [Keys -> Keys] /\ \A k \in Keys : CStr[CStr[k]] = CStr[k]
  /\ Cap \in Nat /\ Width \in 1..Cap /\ Base \in Nat /\ Base > 1
  /\ Objects \subseteq Seq(Nat) /\ Integers64 \subseteq Nat

VARIABLES
  names,   \* node -> name, for the named nodes
  objs,    \* the objects: <<node, tag, array, key>> -> bytes
  cursor,  \* the Option<NodeId> of the write cursor, as its niche
  call     \* the last write: what was asked, of which entry, and the answer

vars == <<names, objs, cursor, call>>

None == <<>>
Some(x) == <<x>>

Put(f, k, v) == [x \in DOMAIN f \cup {k} |-> IF x = k THEN v ELSE f[x]]
-----------------------------------------------------------------------------
(* NodeId: the complement is stored, so that 0 is free to mean None.       *)

Complement(raw) == BADNODE - raw
try_new(raw) == Complement(raw)
get(niche) == Complement(niche)
IsSome(niche) == niche # 0
id == get(cursor)

(* Tags.                                                                   *)
ALTVAL == "A"
SUPVAL == "S"
HASH == "H"
BLOB == "B"
VALUE == "V"     \* the kernel's own tag of the node value

Num(node, tag, i) == <<node, tag, "num", i>>
Str(node, tag, k) == <<node, tag, "str", CStr[k]>>

-----------------------------------------------------------------------------
(* The kernel's store, as the facade's bodies reach it.                    *)

Read(slot) == IF slot \in DOMAIN objs THEN Some(objs[slot]) ELSE None

\* A read copies at most MAXSPECSIZE bytes out of the object.
Clamped(slot) ==
  IF slot \in DOMAIN objs
  THEN Some(SubSeq(objs[slot], 1, IF Len(objs[slot]) < Cap THEN Len(objs[slot]) ELSE Cap))
  ELSE None

Slots(node, tag, array) == {s \in DOMAIN objs : s[1] = node /\ s[2] = tag /\ s[3] = array}

Lowest(S, sentinel) == IF S = {} THEN sentinel ELSE CHOOSE x \in S : \A y \in S : x <= y

first(node, tag) == Lowest({s[4] : s \in Slots(node, tag, "num")}, BADNODE)
next(node, tag, i) == Lowest({j \in {s[4] : s \in Slots(node, tag, "num")} : j > i}, BADNODE)

hashfirst(node, tag) ==
  LET ks == {s[4] : s \in Slots(node, tag, "str")} IN
  IF ks = {} THEN None ELSE Some(Lowest(ks, 0))
hashnext(node, tag, k) ==
  LET ks == {j \in {s[4] : s \in Slots(node, tag, "str")} : j > k} IN
  IF ks = {} THEN None ELSE Some(Lowest(ks, 0))

\* The index j slots past i, and how many slots past i an index is.
Index(i, j) == IF i + j <= BADNODE THEN i + j ELSE i + j - (BADNODE + 1)
Past(i, x) == IF i <= x THEN x - i ELSE x - i + (BADNODE + 1)

Full(store, slot) == slot \in DOMAIN store /\ Len(store[slot]) = Cap

\* The slots of the blob at i: one chunk follows another while they are full.
Chain(store, node, tag, i) ==
  {s \in DOMAIN store :
     /\ s[1] = node /\ s[2] = tag /\ s[3] = "num"
     /\ \A j \in 0..(Past(i, s[4]) - 1) : Full(store, Num(node, tag, Index(i, j)))}

getblob(store, node, tag, i) ==
  LET Ends(s) == ~Full(store, s) \/ Num(node, tag, Index(s[4], 1)) \notin DOMAIN store
      last == {s \in Chain(store, node, tag, i) : Ends(s)}
      Joined(s) == [p \in 1..(Past(i, s[4]) * Cap + Len(store[s])) |->
                      store[Num(node, tag, Index(i, (p - 1) \div Cap))][((p - 1) % Cap) + 1]]
  IN  IF last = {} THEN None ELSE Some(Joined(CHOOSE s \in last : TRUE))

\* The old blob goes, and each chunk of the new one takes a slot.
Chunk(v, j) == SubSeq(v, j * Cap + 1, IF Len(v) < (j + 1) * Cap THEN Len(v) ELSE (j + 1) * Cap)

setblob(store, node, tag, i, v) ==
  LET links == {Num(node, tag, x) : x \in {y \in 0..BADNODE : Past(i, y) * Cap < Len(v)}}
  IN  [s \in (DOMAIN store \ Chain(store, node, tag, i)) \cup links |->
         IF s \in links THEN Chunk(v, Past(i, s[4])) ELSE store[s]]

\* The slots where an object starts: not those of a blob's further chunks,
\* unless a blob of its own is put there.
Placed(store) == {s \in DOMAIN store : s[2] = BLOB => s[4] \in Starts \cup {0}}

exists(node) == node \in DOMAIN names \/ \E s \in DOMAIN objs : s[1] = node
netnode_first == Lowest({n \in Nodes : exists(n)}, BADNODE)
netnode_next(n) == Lowest({m \in Nodes : exists(m) /\ m > n}, BADNODE)

-----------------------------------------------------------------------------
(* Bytes.                                                                  *)

\* A u64 or a typed integer as `w` little-endian bytes, and back.
Le(v, w) == [i \in 1..w |-> ((v % Base ^ w) \div Base ^ (i - 1)) % Base]
UnLe(b) ==
  LET sum[i \in 0..Len(b)] == IF i = 0 THEN 0 ELSE sum[i - 1] + b[i] * Base ^ (i - 1)
  IN  sum[Len(b)]

\* What the kernel's integer reads make of an object: 0 when unset.
Integer(o) == IF o = None THEN 0 ELSE UnLe(SubSeq(o[1], 1, IF Len(o[1]) < Width THEN Len(o[1]) ELSE Width))

\* The integers a caller passes are u64s.
ASSUME CodecAssumption == \A v \in Integers64 : Integer(Some(Le(v, Width))) = v

validate(bytes) ==
  IF Len(bytes) = 0 THEN "Empty" ELSE IF Len(bytes) > Cap THEN "TooLarge" ELSE "ok"

\* The types Persist is implemented for, and the values the runs put.
IntWidth == [u8 |-> 1, i8 |-> 1, u64 |-> Width, i64 |-> Width]
Signed == {"i8", "i64"}
Types == DOMAIN IntWidth \cup {"bool", "String", "bytes"}

ASSUME TypesAssumption == PutTypes \subseteq Types

ValuesOf(T) ==
  IF T \in Signed THEN {-(Base ^ IntWidth[T] \div 2)}
  ELSE IF T \in DOMAIN IntWidth THEN {Base ^ IntWidth[T] \div 2}
  ELSE IF T = "bool" THEN BOOLEAN
  ELSE IF T = "String" THEN {s \in Objects : \A i \in DOMAIN s : s[i] < Base - 1}
  ELSE Objects

to_netnode_bytes(T, v) ==
  IF T \in DOMAIN IntWidth THEN Le(v, IntWidth[T])
  ELSE IF T = "bool" THEN <<IF v THEN 1 ELSE 0>>
  ELSE v

\* mutant: an integer takes any object at least as wide as itself.
AnyWidth(T, b) ==
  CASE T \in DOMAIN IntWidth -> IF Len(b) < IntWidth[T] THEN None ELSE Some(UnLe(SubSeq(b, 1, IntWidth[T])))
    [] T = "bool" -> IF Len(b) = 1 THEN Some(b[1] # 0) ELSE None
    [] T \in {"String", "bytes"} -> Some(b)

from_netnode_bytes(T, b) ==
  CASE T \in DOMAIN IntWidth ->
         IF Len(b) # IntWidth[T] THEN None
         ELSE IF T \in Signed /\ UnLe(b) >= Base ^ Len(b) \div 2 THEN Some(UnLe(b) - Base ^ Len(b))
         ELSE Some(UnLe(b))
    [] T = "bool" -> IF Len(b) = 1 THEN Some(b[1] # 0) ELSE None
    [] T = "String" -> IF \A i \in DOMAIN b : b[i] < Base - 1 THEN Some(b) ELSE None
    [] T = "bytes" -> Some(b)

\* postcard of a byte list: its length, then the bytes; trailing bytes are
\* ignored.
Postcard(v) == <<Len(v)>> \o v
Unpostcard(b) ==
  IF b = <<>> \/ Len(b) - 1 < b[1] THEN None ELSE Some(SubSeq(b, 2, 1 + b[1]))

-----------------------------------------------------------------------------
(* The reads of Netnode and NetnodeMut, and of their tagged views.         *)

name(node) == IF node \in DOMAIN names THEN Some(names[node]) ELSE None
value(node) == Clamped(Num(node, VALUE, 0))
altval(node, i) == Integer(Read(Num(node, ALTVAL, i)))
supval(node, i) == Clamped(Num(node, SUPVAL, i))
hash(node, k) == Clamped(Str(node, HASH, k))
hash_integer(node, k) == Integer(Read(Str(node, HASH, k)))
blob_at(node, i) == getblob(objs, node, BLOB, i)
blob(node) == blob_at(node, 0)
blob_size(node) == IF blob(node) = None THEN 0 ELSE Len(blob(node)[1])
contains(node, k) == hash(node, k) # None

get_as(node, T, k) == IF hash(node, k) = None THEN None ELSE from_netnode_bytes(T, hash(node, k)[1])
get_serde(node, k) == IF hash(node, k) = None THEN None ELSE Unpostcard(hash(node, k)[1])
get_serde_at(node, i) == IF blob_at(node, i) = None THEN None ELSE Unpostcard(blob_at(node, i)[1])

tag_integer(node, t, i) == Integer(Read(Num(node, t, i)))
tag_value(node, t, i) == Clamped(Num(node, t, i))
tag_hash(node, t, k) == Clamped(Str(node, t, k))

-----------------------------------------------------------------------------
(* The iterators: a cursor of the kernel's, asked again for each step.     *)

\* mutant: 0 read as the end as well.
ZeroEnds(raw) == IF raw \in {0, BADNODE} THEN None ELSE Some(raw)

index_or_end(raw) == IF raw # BADNODE THEN Some(raw) ELSE None

\* What an iterator yields whose cursor the kernel answered with `raw`.
Altvals(node, tag) ==
  LET from[raw \in 0..BADNODE] ==
        IF index_or_end(raw) = None THEN <<>>
        ELSE <<<<raw, Integer(Read(Num(node, tag, raw)))>>>> \o from[next(node, tag, raw)]
  IN  from[first(node, tag)]

\* An object the read does not find is yielded as no bytes.
unwrap_or_default(bytes) == IF bytes = None THEN <<>> ELSE bytes[1]

Supvals(node, tag) ==
  LET from[raw \in 0..BADNODE] ==
        IF index_or_end(raw) = None THEN <<>>
        ELSE <<<<raw, unwrap_or_default(Clamped(Num(node, tag, raw)))>>>> \o from[next(node, tag, raw)]
  IN  from[first(node, tag)]

HashEntries(node, tag) ==
  LET from[at \in {None} \cup {Some(k) : k \in Keys}] ==
        IF at = None THEN <<>>
        ELSE <<<<at[1], unwrap_or_default(Clamped(Str(node, tag, at[1])))>>>>
             \o from[hashnext(node, tag, at[1])]
  IN  from[hashfirst(node, tag)]

\* Netnodes holds an Option<NodeId>, so its end is the niche's.
Netnodes ==
  LET from[niche \in 0..BADNODE] ==
        IF ~IsSome(niche) THEN <<>>
        ELSE <<get(niche)>> \o from[try_new(netnode_next(get(niche)))]
  IN  from[try_new(netnode_first)]

-----------------------------------------------------------------------------
(* The writes.  Each names the entry it is about, for the answer.          *)

Reply(op, at, v, answer) == call' = [op |-> op, at |-> at, value |-> v, answer |-> answer]

\* Database::netnode_mut: the node of that name, or one the kernel makes.
netnode_mut(n) ==
  /\ \E m \in Nodes :
       /\ IF \E o \in DOMAIN names : names[o] = n
          THEN m \in DOMAIN names /\ names[m] = n /\ names' = names
          ELSE ~exists(m) /\ names' = Put(names, m, n)
       /\ cursor' = try_new(m)
       /\ Reply("open", <<m>>, n, "ok")
  /\ UNCHANGED objs

\* checked: the kernel took the write, or refused it and changed nothing.
checked(written, at, v) ==
  \/ /\ Cardinality(Placed(written)) <= MaxObjects
     /\ objs' = written
     /\ Reply("set", at, v, "ok")
  \/ objs' = objs /\ Reply("set", at, v, "WriteRejected")

Write(written, at, v) == IsSome(cursor) /\ checked(written, at, v) /\ UNCHANGED <<names, cursor>>

\* The facade's own guards, before a setter that would measure an empty
\* value with strlen and cut an oversized one short.
FacadeAccepts(bytes) == Len(bytes) \in 1..Cap

\* A setter of a byte object: NetnodeBytes first, then the facade and the kernel.
Bytes(slot, bytes, at) ==
  /\ IsSome(cursor)
  /\ IF validate(bytes) # "ok"
     THEN objs' = objs /\ Reply("set", at, bytes, validate(bytes))
     ELSE IF ~FacadeAccepts(bytes)
     THEN objs' = objs /\ Reply("set", at, bytes, "WriteRejected")
     ELSE checked(Put(objs, slot, bytes), at, bytes)
  /\ UNCHANGED <<names, cursor>>

PutInteger(slot, v, at, shown) == Write(Put(objs, slot, Le(v, Width)), at, shown)

set_altval(i, v) == PutInteger(Num(id, ALTVAL, i), v, <<id, <<"altval">>, i>>, v)
set_hash_integer(k, v) == PutInteger(Str(id, HASH, k), v, <<id, <<"hash">>, CStr[k]>>, Le(v, Width))

PutBlob(tag, i, v) == Write(setblob(objs, id, tag, i, v), <<id, <<"blob">>, i>>, v)

\* mutant: the blobs under the tag of the supvals.
SharedTag(v) == PutBlob(SUPVAL, 0, v)

set_blob(v) == PutBlob(BLOB, 0, v)

set_value(v) == Bytes(Num(id, VALUE, 0), v, <<id, <<"value">>, 0>>)
set_supval(i, v) == Bytes(Num(id, SUPVAL, i), v, <<id, <<"supval">>, i>>)
set_hash(k, v) == Bytes(Str(id, HASH, k), v, <<id, <<"hash">>, CStr[k]>>)
put(T, k, v) == set_hash(k, to_netnode_bytes(T, v))

\* A serde value that does not encode never reaches the store.
SerializeFailed(at) ==
  /\ IsSome(cursor)
  /\ Reply("set", at, <<>>, "SerializeFailed")
  /\ UNCHANGED <<names, objs, cursor>>

put_serde(k, v, encodes) ==
  IF encodes THEN set_hash(k, Postcard(v)) ELSE SerializeFailed(<<id, <<"hash">>, CStr[k]>>)

put_serde_at(i, v, encodes) ==
  IF encodes THEN PutBlob(BLOB, i, Postcard(v))
  ELSE SerializeFailed(<<id, <<"blob">>, i>>)

\* An empty name clears the node's; one another node has is refused.
rename(n) ==
  /\ IsSome(cursor)
  /\ IF \E m \in DOMAIN names \ {id} : names[m] = n
     THEN names' = names /\ Reply("rename", <<id>>, n, "WriteRejected")
     ELSE /\ names' = IF n = "" THEN [m \in DOMAIN names \ {id} |-> names[m]] ELSE Put(names, id, n)
          /\ Reply("rename", <<id>>, n, "ok")
  /\ UNCHANGED <<objs, cursor>>

\* The deletes: one entry, or a whole array of a tag.
Delete(op, gone, at) ==
  /\ IsSome(cursor)
  /\ objs' = [s \in DOMAIN objs \ gone |-> objs[s]]
  /\ Reply(op, at, <<>>, gone \cap DOMAIN objs # {})
  /\ UNCHANGED <<names, cursor>>

clear_value == Delete("remove", {Num(id, VALUE, 0)}, <<id, <<"value">>, 0>>)
remove_altval(i) == Delete("remove", {Num(id, ALTVAL, i)}, <<id, <<"altval">>, i>>)
clear_altvals == Delete("clear", Slots(id, ALTVAL, "num"), <<id, <<"altval">>>>)
remove_supval(i) == Delete("remove", {Num(id, SUPVAL, i)}, <<id, <<"supval">>, i>>)
clear_supvals == Delete("clear", Slots(id, SUPVAL, "num"), <<id, <<"supval">>>>)
remove_hash(k) == Delete("remove", {Str(id, HASH, k)}, <<id, <<"hash">>, CStr[k]>>)
clear_hash == Delete("clear", Slots(id, HASH, "str"), <<id, <<"hash">>>>)

\* The kernel answers with the slots it freed; only the sign is kept.
remove_blob == Delete("remove", Chain(objs, id, BLOB, 0), <<id, <<"blob">>, 0>>)

\* The cursor keeps the id of the node it killed.
kill ==
  /\ IsSome(cursor)
  /\ names' = [m \in DOMAIN names \ {id} |-> names[m]]
  /\ objs' = [s \in {o \in DOMAIN objs : o[1] # id} |-> objs[s]]
  /\ Reply("kill", <<id>>, <<>>, "ok")
  /\ UNCHANGED cursor

\* TaggedNetnodeMut: an integer and a byte object are one slot's two views.
Slot(t) == IF t = SUPVAL THEN <<"supval">> ELSE <<"slots", t>>
Table(t) == <<"hash", t>>

tag_set_integer(t, i, v) == PutInteger(Num(id, t, i), v, <<id, Slot(t), i>>, Le(v, Width))
tag_set_value(t, i, v) == Bytes(Num(id, t, i), v, <<id, Slot(t), i>>)
tag_set_hash(t, k, v) == Bytes(Str(id, t, k), v, <<id, Table(t), CStr[k]>>)
tag_remove(t, i) == Delete("remove", {Num(id, t, i)}, <<id, Slot(t), i>>)
tag_clear(t) == Delete("clear", Slots(id, t, "num"), <<id, Slot(t)>>)
tag_remove_hash(t, k) == Delete("remove", {Str(id, t, k)}, <<id, Table(t), CStr[k]>>)
tag_clear_hash(t) == Delete("clear", Slots(id, t, "str"), <<id, Table(t)>>)

Init ==
  /\ names = <<>> /\ objs = <<>>
  /\ cursor = 0
  /\ call = [op |-> "none"]

Next ==
  \/ \E n \in Names : netnode_mut(n)
  \/ \E n \in Names \cup {""} : rename(n)
  \/ \E i \in Indices :
       \/ \E v \in Integers64 : set_altval(i, v)
       \/ \E v \in Objects : set_supval(i, v)
       \/ remove_altval(i)
       \/ remove_supval(i)
  \/ \E k \in Keys :
       \/ \E v \in Integers64 : set_hash_integer(k, v)
       \/ \E v \in Objects : set_hash(k, v)
       \/ \E T \in PutTypes : \E v \in ValuesOf(T) : put(T, k, v)
       \/ \E v \in Objects, encodes \in BOOLEAN : put_serde(k, v, encodes)
       \/ remove_hash(k)
  \/ \E i \in Starts, v \in Objects, encodes \in BOOLEAN : put_serde_at(i, v, encodes)
  \/ \E v \in Objects : set_value(v)
  \/ \E v \in Objects \ {<<>>} : set_blob(v)
  \/ clear_value \/ clear_altvals \/ clear_supvals \/ clear_hash \/ remove_blob \/ kill
  \/ \E t \in Tags :
       \/ \E i \in Indices :
            \/ \E v \in Integers64 : tag_set_integer(t, i, v)
            \/ \E v \in Objects : tag_set_value(t, i, v)
            \/ tag_remove(t, i)
       \/ \E k \in Keys : (\E v \in Objects : tag_set_hash(t, k, v)) \/ tag_remove_hash(t, k)
       \/ tag_clear(t)
       \/ tag_clear_hash(t)

Spec == Init /\ [][Next]_vars
-----------------------------------------------------------------------------

(* Properties.                                                             *)

\* The entry an object of the store is, and its value as it is read.
Entry(n, tag, array, k) ==
  IF tag = VALUE THEN <<<<n, <<"value">>, k>>, value(n)>>
  ELSE IF tag = ALTVAL THEN <<<<n, <<"altval">>, k>>, Some(altval(n, k))>>
  ELSE IF tag = BLOB THEN <<<<n, <<"blob">>, k>>, blob_at(n, k)>>
  ELSE IF tag = HASH THEN <<<<n, <<"hash">>, k>>, hash(n, k)>>
  ELSE IF array = "str" THEN <<<<n, Table(tag), k>>, tag_hash(n, tag, k)>>
  ELSE IF tag = SUPVAL THEN <<<<n, <<"supval">>, k>>, supval(n, k)>>
  ELSE <<<<n, Slot(tag), k>>, tag_value(n, tag, k)>>

Shown(entry) == <<entry[1], entry[2][1]>>
Entries == {Entry(s[1], s[2], s[3], s[4]) : s \in Placed(objs)}
Observed == {Shown(entry) : entry \in Entries}

Map == INSTANCE NetnodeMap WITH data <- Observed

\* The store read back through the reads is the map the docs promise: every
\* write changes the entry it names and no other collection's, a refused one
\* nothing, and a delete's bool says whether something was there
\* (netnode/mod.rs:26, tag.rs:21).  A hash entry is its key up to the first
\* NUL; the blobs are the ones whose chains do not meet.
Implements == Map!Spec

Wrote(collection) == call.op = "set" /\ call.answer = "ok" /\ call.at[2] = collection

\* The reads of the type, and of the others, after a write of it.
ReadBack(node, key, stored) ==
  /\ Wrote(<<"hash">>) =>
       /\ \A T \in Types : \A v \in ValuesOf(T) : stored = to_netnode_bytes(T, v) =>
            /\ get_as(node, T, key) = Some(v)
            /\ \A U \in DOMAIN IntWidth : IntWidth[U] # Len(stored) => get_as(node, U, key) = None
       /\ \A v \in Objects : stored = Postcard(v) => get_serde(node, key) = Some(v)
       /\ \A v \in Integers64 : stored = Le(v, Width) => hash_integer(node, key) = v
  /\ Wrote(<<"blob">>) => \A v \in Objects : stored = Postcard(v) => get_serde_at(node, key) = Some(v)
  /\ Wrote(<<"altval">>) => altval(node, key) = stored
  /\ \A t \in Tags : Wrote(Slot(t)) =>
       \A v \in Integers64 : stored = Le(v, Width) => tag_integer(node, t, key) = v

\* What a typed write stored, the read of the same type gives back, and an
\* integer read of another width gives None, never a wrong value
\* (persist.rs, netnode/mod.rs get and put; tagged.rs integer).
TypedRoundTrip == [][call'.op = "set" => ReadBack(call.at[1], call.at[3], call.value)']_vars

Ascending(seq) == \A i, j \in DOMAIN seq : i < j => seq[i] < seq[j]
Heads(seq) == [i \in DOMAIN seq |-> seq[i][1]]
Visits(heads, keys) == Ascending(heads) /\ {heads[i] : i \in DOMAIN heads} = keys

\* The keys of an array.
KeysIn(node, tag, array) == {s[4] : s \in Slots(node, tag, array)}

\* An iterator visits every key of its array once and in order, the index
\* u64::MAX excepted, which reads as the end; netnodes() visits every node
\* that has a name or data, the one of id 0 included (netnode/arrays.rs,
\* netnode/mod.rs:656).
WalksWhole ==
  /\ Visits(Netnodes, {n \in Nodes : exists(n)})
  /\ \A n \in Nodes :
       /\ Visits(Heads(Altvals(n, ALTVAL)), KeysIn(n, ALTVAL, "num") \ {BADNODE})
       /\ \A t \in Tags \cup {SUPVAL} :
            Visits(Heads(Supvals(n, t)), KeysIn(n, t, "num") \ {BADNODE})
       /\ \A t \in Tags \cup {HASH} : Visits(Heads(HashEntries(n, t)), KeysIn(n, t, "str"))

\* What is set is walked: altvals() iterates the altval array, a sparse map of
\* u64 indices (netnode/mod.rs:315, 8), and an index that stores and reads
\* back (tests/kernel/netnode.rs:338) is one of them.
AltvalsWalked == \A n \in Nodes : Visits(Heads(Altvals(n, ALTVAL)), KeysIn(n, ALTVAL, "num"))

\* The hash is a string-keyed map (netnode/mod.rs:12): setting one key leaves
\* what every other key reads as.
KeyedByString ==
  [][\A k \in Keys, v \in Objects : Wrote(<<"hash">>)' /\ set_hash(k, v) =>
       \A j \in Keys \ {k} : hash(id, j)' = hash(id, j)]_vars

\* put_serde_at stores a value of any size in the blob at an index
\* (netnode/mod.rs:630, 14): the blob at every other index stays as it was.
BlobsApart ==
  [][\A i \in Starts, v \in Objects : Wrote(<<"blob">>)' /\ put_serde_at(i, v, TRUE) =>
       \A j \in Starts \ {i} : get_serde_at(id, j)' = get_serde_at(id, j)]_vars

=============================================================================

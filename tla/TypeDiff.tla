-------------------------------- MODULE TypeDiff --------------------------------
(***************************************************************************)
(* The canonical form of a type (types/diff/canonical/model.rs), the diff  *)
(* of two canonical forms (engine.rs), the canonical string, and the       *)
(* catalogs that pair the named types of two databases (catalog.rs).       *)
(* Everything here is a pure function of a type table.                     *)
(*                                                                         *)
(* A canonical type is a record of one shape for all variants, as a slot   *)
(* of the table is, with its children inlined: kids for wrapped types and  *)
(* [n, off, bw, ty] members.  Offset -1 is an offset the lens dropped.     *)
(* A change is [c |-> kind, path |-> sequence of names] and its values.    *)
(***************************************************************************)
EXTENDS TypeTable, SequencesExt

CONSTANTS Rank,       \* Rank[name]: the lexicographic order of the names in use
          Delimiting  \* the names in use that hold a separator of the canonical string

Synthetic == {"$1", "$2"}     \* the names in use that start with '$'

Lens == {"strict", "logical"}

NamedKinds == {"named struct", "named union", "named enum"}   \* Named, by its AggregateKind

CanonicalType(k, tag, kids, ms, w, sz) ==
    [k |-> k, tag |-> tag, kids |-> kids, ms |-> ms, w |-> w, size |-> sz]

(***************************************************************************)
(* CanonicalOptions: what the lens keeps of a layout.                      *)
(***************************************************************************)
width(lens, bytes) == IF lens = "strict" THEN bytes ELSE None
(* A pointer's width is its slot's size when that fits u8, else dropped.   *)
ptr_width(lens, sz) == IF lens = "strict" /\ sz <= MaxWidth THEN sz ELSE None
offset(lens, bits) == IF lens = "strict" THEN bits ELSE -1
size(lens, sz) == IF lens = "strict" THEN sz ELSE None

is_synthetic(tag) == tag = Anonymous \/ tag \in Synthetic

real_tag(tag) == IF is_synthetic(tag) THEN Anonymous ELSE tag

(* Away from the root an aggregate with a stable tag is cut to its name.   *)
nominal_cut_never(tag, spell_named) == FALSE
nominal_cut(tag, spell_named) == ~spell_named /\ ~is_synthetic(tag)

(* Vec::sort_by on the name: stable, so equal names keep their order.      *)
SortByName(s) ==
    SortSeq([i \in DOMAIN s |-> [i |-> i, x |-> s[i]]],
            LAMBDA a, b : \/ Rank[a.x.n] < Rank[b.x.n]
                          \/ a.x.n = b.x.n /\ a.i < b.i)
Sorted(s) == LET r == SortByName(s) IN [i \in DOMAIN s |-> r[i].x]

RECURSIVE canon(_, _, _, _, _)
(* canon over the members, with the aggregate's handle on the stack.       *)
CanonMembers(types, id, lens, stack) ==
    [i \in DOMAIN types[id].ms |->
        LET m == types[id].ms[i]
        IN  [n |-> m.n, off |-> offset(lens, m.off), bw |-> m.bw,
             ty |-> canon(types, m.ty, lens, Append(stack, id), FALSE)]]

aggregate(types, id, lens, stack, spell_named) ==
    LET v == types[id]
        open == {i \in DOMAIN stack : stack[i] = id}
        ms == CanonMembers(types, id, lens, stack)
    IN  CASE nominal_cut(v.tag, spell_named) ->
               CanonicalType("named " \o v.k, v.tag, <<>>, <<>>, 0, None)
          [] ~nominal_cut(v.tag, spell_named) /\ open # {} ->
               CanonicalType("backref", Anonymous, <<>>, <<>>, Len(stack) + 1 - Max(open), None)
          [] OTHER ->
               CanonicalType(v.k, real_tag(v.tag), <<>>,
                             IF v.k = "union" THEN Sorted(ms) ELSE ms, 0, size(lens, v.size))

canon(types, id, lens, stack, spell_named) ==
    LET v == types[id]
        kids == [i \in DOMAIN v.kids |-> canon(types, v.kids[i], lens, stack, FALSE)]
    IN  CASE v.k \in {"void", "bool"} -> CanonicalType(v.k, Anonymous, <<>>, <<>>, 0, None)
          [] v.k \in {"int", "uint", "float"} ->
               CanonicalType(v.k, Anonymous, <<>>, <<>>, width(lens, v.w), None)
          [] v.k = "ptr" ->
               CanonicalType("ptr", Anonymous, kids, <<>>, ptr_width(lens, v.size), None)
          [] v.k \in {"array", "fn"} -> CanonicalType(v.k, Anonymous, kids, <<>>, v.w, None)
          [] v.k \in {"struct", "union"} -> aggregate(types, id, lens, stack, spell_named)
          [] v.k = "enum" /\ nominal_cut(v.tag, spell_named) ->
               CanonicalType("named enum", v.tag, <<>>, <<>>, 0, None)
          [] v.k = "enum" /\ ~nominal_cut(v.tag, spell_named) ->
               CanonicalType("enum", real_tag(v.tag), kids, Sorted(v.ms), 0, size(lens, v.size))
          [] v.k = "typedef" -> CanonicalType("typedef", v.tag, kids, <<>>, 0, None)
          [] v.k = "opaque" -> CanonicalType("opaque", v.tag, <<>>, <<>>, 0, None)
          [] v.k = "unknown" -> CanonicalType("opaque", "<unfilled>", <<>>, <<>>, 0, None)

canonicalize(types, root, lens) == canon(types, root, lens, <<>>, TRUE)

(* The name a type is paired by across databases; <<>> for none.           *)
identity(c) ==
    CASE c.k \in NamedKinds -> <<"tagged", c.tag, c.k>>
      [] c.k \in {"struct", "union", "enum"} /\ c.tag # Anonymous ->
           <<"tagged", c.tag, "named " \o c.k>>
      [] c.k = "typedef" -> <<"alias", c.tag>>
      [] OTHER -> <<>>

(***************************************************************************)
(* write_canonical: the canonical string.  A name is written as it is:     *)
(* nothing sets it off from the separators around it.                      *)
(***************************************************************************)
RECURSIVE write_canonical(_), Joined(_)

keyword(k) ==
    CASE k = "named struct" -> "struct" [] k = "named union" -> "union"
      [] k = "named enum" -> "enum"     [] OTHER -> k

Joined(s) ==
    IF s = <<>> THEN ""
    ELSE IF Len(s) = 1 THEN s[1] ELSE s[1] \o "," \o Joined(Tail(s))

Opt(sep, present, x) == IF present THEN sep \o ToString(x) ELSE ""
OptTag(tag) == IF tag # Anonymous THEN ":" \o tag ELSE ""

write_scalar(c) ==
    CASE c.k \in {"int", "uint"} ->
           (IF c.k = "int" THEN "i" ELSE "u") \o (IF c.w = None THEN "int" ELSE ToString(8 * c.w))
      [] c.k = "float" -> IF c.w = None THEN "float" ELSE "f" \o ToString(8 * c.w)
      [] c.k = "backref" -> "#" \o ToString(c.w)
      [] c.k \in {"void", "bool"} -> c.k

write_member_plain(m) == m.n \o Opt("@", m.off # -1, m.off) \o "=" \o write_canonical(m.ty)
write_member(m) ==
    m.n \o Opt("@", m.off # -1, m.off) \o Opt(":", m.bw # None, m.bw) \o "=" \o write_canonical(m.ty)

write_canonical(c) ==
    CASE c.k \in {"void", "bool", "int", "uint", "float", "backref"} -> write_scalar(c)
      [] c.k = "ptr" -> "ptr" \o Opt(":", c.w # None, c.w) \o "(" \o write_canonical(c.kids[1]) \o ")"
      [] c.k = "array" -> "[" \o write_canonical(c.kids[1]) \o ";" \o ToString(c.w) \o "]"
      [] c.k \in NamedKinds -> keyword(c.k) \o ":" \o c.tag
      [] c.k \in {"struct", "union"} ->
           c.k \o OptTag(c.tag) \o "{" \o Joined([i \in DOMAIN c.ms |-> write_member(c.ms[i])]) \o "}"
             \o Opt("=", c.size # None, c.size)
      [] c.k = "enum" ->
           "enum" \o OptTag(c.tag) \o "(" \o write_canonical(c.kids[1]) \o "){"
             \o Joined([i \in DOMAIN c.ms |-> c.ms[i].n \o "=" \o ToString(c.ms[i].v)]) \o "}"
             \o Opt("=", c.size # None, c.size)
      [] c.k = "fn" ->
           "fn(" \o Joined([i \in 1..(Len(c.kids) - 1) |-> write_canonical(c.kids[i + 1])]
                            \o (IF c.w = 1 THEN <<"...">> ELSE <<>>))
             \o ")->" \o write_canonical(c.kids[1])
      [] c.k = "typedef" -> "typedef " \o c.tag \o "=" \o write_canonical(c.kids[1])
      [] c.k = "opaque" -> "opaque:" \o c.tag

(***************************************************************************)
(* The diff of two canonical types.                                        *)
(***************************************************************************)
path_in(path, m) == IF m.n = Anonymous THEN path ELSE Append(path, m.n)

(* Pass 1 of diff_members: each named left member takes the first free     *)
(* right member of its name.                                               *)
RECURSIVE NamePairs(_, _, _)
NamePairs(lm, rm, li) ==
    IF li = 0 THEN <<>>
    ELSE LET before == NamePairs(lm, rm, li - 1)
             used == {before[i][2] : i \in DOMAIN before}
             free == {ri \in DOMAIN rm \ used : rm[ri].n = lm[li].n}
         IN  IF lm[li].n = Anonymous \/ free = {} THEN before
             ELSE Append(before, <<li, Min(free)>>)

(* The members left over, by offset; a dropped offset groups nothing.      *)
group_unpaired_by_offset(ms, unpaired, off) == {i \in unpaired : ms[i].off = off /\ off # -1}

(* Pass 2: an offset with one member left on each side is a rename.        *)
OffsetPairs(lm, rm, lu, ru) ==
    LET OfLeft(li) == group_unpaired_by_offset(lm, lu, lm[li].off)
        OfRight(li) == group_unpaired_by_offset(rm, ru, lm[li].off)
        ls == {li \in lu : OfLeft(li) = {li} /\ Cardinality(OfRight(li)) = 1}
        order == SetToSortSeq(ls, <)
    IN  [i \in DOMAIN order |-> <<order[i], CHOOSE ri \in OfRight(order[i]) : TRUE>>]

(* Names only: a constant whose value changed is not reported.             *)
diff_constants_names(path, lm, rm) ==
    LET Without(ms, os) == SelectSeq(ms, LAMBDA m : \A i \in DOMAIN os : os[i].n # m.n)
        Change(c, ms) == [i \in DOMAIN ms |-> [c |-> c, path |-> Append(path, ms[i].n)]]
    IN  Change("ConstantRemoved", Without(lm, rm)) \o Change("ConstantAdded", Without(rm, lm))
diff_constants(path, lm, rm) ==
    LET Names(ms) == {ms[i].n : i \in DOMAIN ms}
        ValueIn(ms, n) == ms[Min({i \in DOMAIN ms : ms[i].n = n})].v
        Left(m) ==
            IF m.n \notin Names(rm)
            THEN <<[c |-> "ConstantRemoved", path |-> Append(path, m.n), left |-> m.v]>>
            ELSE IF ValueIn(rm, m.n) = m.v THEN <<>>
            ELSE <<[c |-> "ConstantChanged", path |-> Append(path, m.n),
                    left |-> m.v, right |-> ValueIn(rm, m.n)]>>
        Right(m) ==
            IF m.n \in Names(lm) THEN <<>>
            ELSE <<[c |-> "ConstantAdded", path |-> Append(path, m.n), right |-> m.v]>>
    IN  FlattenSeq([i \in DOMAIN lm |-> Left(lm[i])]) \o FlattenSeq([i \in DOMAIN rm |-> Right(rm[i])])

RECURSIVE diff_into(_, _, _)

(* Two members matched to one slot.  A move counts only when no member was *)
(* added or removed to explain it.                                         *)
diff_against(l, r, parent, report_move) ==
    LET at == path_in(parent, r)
    IN  diff_into(at, l.ty, r.ty)
          \o (IF l.bw = r.bw THEN <<>>
              ELSE <<[c |-> "BitfieldChanged", path |-> at, left |-> l.bw, right |-> r.bw]>>)
          \o (IF report_move /\ l.off # r.off /\ l.off # -1 /\ r.off # -1
              THEN <<[c |-> "Moved", path |-> at, left |-> l.off, right |-> r.off]>> ELSE <<>>)

diff_members(path, lm, rm) ==
    LET byName == NamePairs(lm, rm, Len(lm))
        Lefts(ps) == {ps[i][1] : i \in DOMAIN ps}
        Rights(ps) == {ps[i][2] : i \in DOMAIN ps}
        byOffset == OffsetPairs(lm, rm, DOMAIN lm \ Lefts(byName), DOMAIN rm \ Rights(byName))
        pairs == byName \o byOffset
        lone == SetToSortSeq(DOMAIN lm \ Lefts(pairs), <)
        rone == SetToSortSeq(DOMAIN rm \ Rights(pairs), <)
        Paired(p) ==
            LET l == lm[p[1]]
                r == rm[p[2]]
            IN  (IF l.n = r.n THEN <<>>
                 ELSE <<[c |-> "Renamed", path |-> path_in(path, r), from |-> l.n]>>)
                  \o diff_against(l, r, path, lone = <<>> /\ rone = <<>>)
    IN  FlattenSeq([i \in DOMAIN pairs |-> Paired(pairs[i])])
          \o [i \in DOMAIN lone |->
                [c |-> "Removed", path |-> path_in(path, lm[lone[i]]), lt |-> lm[lone[i]].ty]]
          \o [i \in DOMAIN rone |->
                [c |-> "Added", path |-> path_in(path, rm[rone[i]]), rt |-> rm[rone[i]].ty]]

SizeChange(path, l, r) ==
    IF l.size = r.size THEN <<>>
    ELSE <<[c |-> "SizeChanged", path |-> path, left |-> l.size, right |-> r.size]>>

(* Wrappers whose own shape is unchanged recurse; anything else that       *)
(* differs is one whole retype.                                            *)
diff_into(path, l, r) ==
    CASE l = r -> <<>>
      [] l # r /\ l.k = r.k /\ l.k \in {"struct", "union"} /\ l.tag = r.tag ->
           SizeChange(path, l, r) \o diff_members(path, l.ms, r.ms)
      [] l # r /\ l.k = r.k /\ l.k = "enum" /\ l.tag = r.tag ->
           diff_into(Append(path, "underlying"), l.kids[1], r.kids[1])
             \o SizeChange(path, l, r) \o diff_constants(path, l.ms, r.ms)
      [] l # r /\ l.k = r.k /\ l.k \in {"ptr", "array"} /\ l.w = r.w ->
           diff_into(path, l.kids[1], r.kids[1])
      [] l # r /\ l.k = r.k /\ l.k = "fn" /\ l.w = r.w /\ Len(l.kids) = Len(r.kids) ->
           FlattenSeq([i \in DOMAIN l.kids |->
               diff_into(Append(path, IF i = 1 THEN "return" ELSE "arg" \o ToString(i - 2)),
                         l.kids[i], r.kids[i])])
      [] OTHER -> <<[c |-> "Retyped", path |-> path, lt |-> l, rt |-> r]>>

diff(l, r) == diff_into(<<>>, l, r)

CountOf(changes, kinds) == Cardinality({i \in DOMAIN changes : changes[i].c \in kinds})
added(changes) == CountOf(changes, {"Added", "ConstantAdded"})
removed(changes) == CountOf(changes, {"Removed", "ConstantRemoved"})
changed(changes) ==
    CountOf(changes, {"Retyped", "Renamed", "Moved", "BitfieldChanged", "ConstantChanged"})
(* The size changes found at the root, of which the first is reported.     *)
size_change(changes) == SelectSeq(changes, LAMBDA c : c.c = "SizeChanged" /\ c.path = <<>>)

(***************************************************************************)
(* Catalogs: the named types of a library that resolve, under one lens.    *)
(* The key a catalog pairs entries by hashes the canonical type, not its   *)
(* string, and is taken to be free of collisions.                          *)
(***************************************************************************)
(* The ordinals in order, the anonymous ones skipped; as a set of names.   *)
named_types(til) == DOMAIN til \ {Anonymous}

(* A walk by ordinal: type_named's, keyed by the live ordinal.             *)
resolve(til, n) == walk_type(til, [k |-> "ref", n |-> n])

CatalogOf(walks, lens) ==
    LET resolves == {n \in DOMAIN walks : walks[n].ok}
    IN  [types |-> [n \in resolves |-> canonicalize(walks[n].types, walks[n].root, lens)],
         opts |-> lens, skipped |-> Cardinality(DOMAIN walks \ resolves)]
type_catalog_with(til, lens) == CatalogOf([n \in named_types(til) |-> resolve(til, n)], lens)

catalog_diff(l, r) ==
    LET both == DOMAIN l.types \cap DOMAIN r.types
        same == {n \in both : l.types[n] = r.types[n]}
    IN  [identical |-> same,
         drifted |-> [n \in both \ same |-> diff(l.types[n], r.types[n])],
         only_left |-> DOMAIN l.types \ both,
         only_right |-> DOMAIN r.types \ both]
===============================================================================

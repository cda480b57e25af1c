------------------------------- MODULE TypeTable -------------------------------
(***************************************************************************)
(* How a type of the database becomes an owned snapshot: the facade walks  *)
(* a tinfo_t depth first (typewalk_bridge.cpp) and calls back, through     *)
(* the sink adapter, into TypeBuilder, which interns the pieces in a       *)
(* TypeTable and closes recursion with by-name placeholders.  The walk     *)
(* runs on the kernel thread without interruption, so it is a function of  *)
(* the type library; the builder's state `b` is threaded through it.       *)
(*                                                                         *)
(* The library, til, maps a name to a body.  A body, or a use of a type,   *)
(* is a term:                                                              *)
(*   [k |-> "int", b, s]   [k |-> "float", b]   [k |-> "bool"]             *)
(*   [k |-> "void"]        [k |-> "ref", n]                                *)
(*   [k |-> "ptr", to]     [k |-> "array", of, len]                        *)
(*   [k |-> "fn", ret, ps, va, known]       [k |-> "typedef", to]          *)
(*   [k |-> "struct" or "union", ms]        [k |-> "enum", cs, sz, bm, repr] *)
(*   [k |-> "fwd"]         [k |-> "bits", b, w, s]                         *)
(* with members [n, off, ty, repr] and constants [n, v]; bm marks a bitmask *)
(* enum, and a representation is its value-type nibble, 0 for none.  Names *)
(* are UTF-8, for which the walk's lossy decoding is exact.  A size or a width is     *)
(* never Some(0) in the code, so 0 stands for None.                        *)
(***************************************************************************)
EXTENDS Integers, Sequences, SequencesExt, FiniteSets, FiniteSetsExt, TLC

CONSTANTS PtrBytes,     \* the size of a pointer
          MaxWidth      \* u8::MAX, the widest scalar a table can hold

None == 0
Anonymous == ""

(* One slot of the table: a TypeValue with its TypeShape.  kids are the    *)
(* handles it holds, ms its members or constants, w a width, a length, a   *)
(* flag, or an enum's is_bitmask and repr, as its shape k says.            *)
TypeValue(k, tag, kids, ms, w, sz) ==
    [k |-> k, tag |-> tag, kids |-> kids, ms |-> ms, w |-> w, size |-> sz]
Unknown == TypeValue("unknown", Anonymous, <<>>, <<>>, 0, None)

(***************************************************************************)
(* What the SDK answers about a term: the body behind a name, and sizes in *)
(* bytes.  A reference whose type is gone, or only declared, has no size.  *)
(***************************************************************************)
Body(til, t) == IF t.k = "ref" /\ t.n \in DOMAIN til THEN til[t.n] ELSE t

RECURSIVE SizeOf(_, _)
SizeOf(til, t) ==
    CASE t.k \in {"int", "float", "bits"} -> t.b
      [] t.k = "bool"    -> 1
      [] t.k = "ptr"     -> PtrBytes
      [] t.k = "array"   -> t.len * SizeOf(til, t.of)
      [] t.k = "struct"  -> Max({0} \cup {(m.off \div 8) + SizeOf(til, m.ty) :
                                            m \in {t.ms[i] : i \in DOMAIN t.ms}})
      [] t.k = "union"   -> Max({0} \cup {SizeOf(til, t.ms[i].ty) : i \in DOMAIN t.ms})
      [] t.k = "enum"    -> t.sz
      [] t.k = "typedef" -> SizeOf(til, t.to)
      [] t.k = "ref" /\ t.n \in DOMAIN til -> SizeOf(til, til[t.n])
      [] OTHER -> 0

(***************************************************************************)
(* TypeTable: interned slots share a handle, placeholders do not.          *)
(***************************************************************************)
NewBuilder ==
    [arena |-> <<>>, dedup |-> {}, name2type |-> <<>>, pending |-> <<>>,
     too_wide |-> None, defined |-> {}]

Drop(f, x) == [y \in DOMAIN f \ {x} |-> f[y]]

alloc(b, v) == [id |-> Len(b.arena) + 1, b |-> [b EXCEPT !.arena = Append(@, v)]]

Interned(new) == [new EXCEPT !.b.dedup = @ \cup {new.id}]
intern(b, v) ==
    IF \E i \in b.dedup : b.arena[i] = v
    THEN [id |-> CHOOSE i \in b.dedup : b.arena[i] = v, b |-> b]
    ELSE Interned(alloc(b, v))

alloc_placeholder(b) == alloc(b, Unknown)

fill(b, id, v) == [b EXCEPT !.arena[id] = v]

(***************************************************************************)
(* TypeBuilder: one operator per callback of the walk.                     *)
(***************************************************************************)
scalar(b, kind, bytes, signed, sz) ==
    LET k == CASE kind = "int" -> IF signed THEN "int" ELSE "uint"
               [] kind \in {"void", "bool", "float"} -> kind
               [] OTHER -> "unknown"
        w == IF kind \in {"int", "float"} /\ bytes <= MaxWidth THEN bytes ELSE 0
    IN  intern([b EXCEPT !.too_wide = IF bytes <= MaxWidth \/ @ # None THEN @ ELSE bytes],
               TypeValue(k, Anonymous, <<>>, <<>>, w, sz))

(* A wrapper's children come walked: the last handle, or several, and the  *)
(* builder after them.                                                     *)
ptr(w, sz) == intern(w.b, TypeValue("ptr", Anonymous, <<w.id>>, <<>>, 0, sz))

array(w, nelems, sz) ==
    intern(w.b, TypeValue("array", Anonymous, <<w.id>>, <<>>, nelems, sz))

function(w, vararg) ==
    intern(w.b, TypeValue("fn", Anonymous, w.ids, <<>>, IF vararg THEN 1 ELSE 0, None))

opaque(b, name) == intern(b, TypeValue("opaque", name, <<>>, <<>>, 0, None))

Unnamed(p) == [p EXCEPT !.b.pending = (p.id :> Anonymous) @@ @]
Named(p, name) ==
    [p EXCEPT !.b.name2type = (name :> p.id) @@ @, !.b.pending = (p.id :> name) @@ @]
(* Without the record of the names met.                                    *)
named_ref_forgetful(b, name) == Unnamed(alloc_placeholder(b))
named_ref(b, name) ==
    IF name \in DOMAIN b.name2type THEN [id |-> b.name2type[name], b |-> b]
    ELSE Named(alloc_placeholder(b), name)

anon(b) == Unnamed(alloc_placeholder(b))

(* A second fill of one handle finds no name left to take.                 *)
take_name(b, id) == IF id \in DOMAIN b.pending THEN b.pending[id] ELSE Anonymous

Taken(b, id) == [b EXCEPT !.pending = Drop(@, id)]

fill_struct(b, id, kind, members, sz) ==
    fill(Taken(b, id), id, TypeValue(kind, take_name(b, id), <<>>, members, 0, sz))

fill_enum(b, id, underlying, consts, sz, is_bitmask, repr) ==
    fill(Taken(b, id), id,
         TypeValue("enum", take_name(b, id), <<underlying>>, consts, <<is_bitmask, repr>>, sz))

(* A typedef takes the size its target's slot has at this moment.          *)
fill_typedef(b, id, underlying) ==
    fill(Taken(b, id), id,
         TypeValue("typedef", take_name(b, id), <<underlying>>, <<>>, 0,
                   b.arena[underlying].size))

(***************************************************************************)
(* The walk.  Every operator returns a handle and the builder after it.    *)
(***************************************************************************)
RECURSIVE ty(_, _, _)

Extended(w, h) == [ids |-> Append(w.ids, h.id), b |-> h.b]

(* The handles of several types walked one after the other.                *)
ty_seq(til, ts, b) ==
    LET Visit(w, t) == Extended(w, ty(til, t, w.b))
    IN  FoldLeft(Visit, [ids |-> <<>>, b |-> b], ts)

(* FRB_* nibbles the snapshot keeps: 1-4 (number bases) and 6 (char).      *)
is_modeled_frb_vtype(v) == v \in {1, 2, 3, 4, 6}

ReprOf(v) == IF is_modeled_frb_vtype(v) THEN v ELSE 0

Returned(id, b) == [id |-> id, b |-> b]

placeholder(t, b) ==
    IF t.k = "ref"
    THEN [first |-> t.n \notin b.defined,
          r |-> named_ref([b EXCEPT !.defined = @ \cup {t.n}], t.n)]
    ELSE [first |-> TRUE, r |-> anon(b)]

ty_opaque(t, b) == opaque(b, IF t.k = "ref" THEN t.n ELSE "?")

ty_bitfield(t, b) == scalar(b, "int", t.b, t.s, t.b)

MemberInfo(m, id) ==
    [n |-> m.n, off |-> m.off, ty |-> id, repr |-> ReprOf(m.repr),
     bw |-> IF m.ty.k = "bits" THEN m.ty.w ELSE None]

(* A placeholder is filled the first time its name is met.                 *)
FillUdt(til, t, u, p, w) ==
    Returned(p.r.id, fill_struct(w.b, p.r.id, u.k,
                                 [i \in DOMAIN u.ms |-> MemberInfo(u.ms[i], w.ids[i])],
                                 SizeOf(til, t)))
DefineUdt(til, t, u, p) ==
    IF ~p.first THEN p.r
    ELSE FillUdt(til, t, u, p, ty_seq(til, [i \in DOMAIN u.ms |-> u.ms[i].ty], p.r.b))
ty_udt(til, t, b) == DefineUdt(til, t, Body(til, t), placeholder(t, b))

FillEnum(e, p, u) == Returned(p.r.id, fill_enum(u.b, p.r.id, u.id, e.cs, e.sz, e.bm, ReprOf(e.repr)))
DefineEnum(e, p) ==
    IF ~p.first THEN p.r
    ELSE FillEnum(e, p, scalar(p.r.b, "int", IF e.sz # None THEN e.sz ELSE 4, FALSE, e.sz))
ty_enum(til, t, b) == DefineEnum(Body(til, t), placeholder(t, b))

ty_func(til, t, b) ==
    IF t.known THEN function(ty_seq(til, <<t.ret>> \o t.ps, b), t.va)
    ELSE function(Extended([ids |-> <<>>], scalar(b, "unmodelled", 0, FALSE, None)), FALSE)

Resolved(til, t, body, sz, b) ==
    CASE body.k = "ptr" -> ptr(ty(til, body.to, b), sz)
      [] body.k = "array" -> array(ty(til, body.of, b), body.len, sz)
      [] body.k = "fn" -> ty_func(til, body, b)
      [] body.k \in {"struct", "union"} -> ty_udt(til, t, b)
      [] body.k = "enum" -> ty_enum(til, t, b)
      [] body.k \in {"void", "bool"} -> scalar(b, body.k, 0, FALSE, sz)
      [] body.k \in {"int", "float"} ->
           scalar(b, body.k, body.b, body.k = "int" /\ body.s, sz)
      [] body.k = "bits" -> ty_bitfield(body, b)
      [] OTHER -> ty_opaque(t, b)
ty_resolved(til, t, b) == Resolved(til, t, Body(til, t), SizeOf(til, t), b)

(* One step of a typedef chain: its next name, else what it resolves to.   *)
FillTypedef(p, u) == Returned(p.r.id, fill_typedef(u.b, p.r.id, u.id))
DefineTypedef(til, to, p) ==
    CASE ~p.first -> p.r
      [] p.first /\ to.k = "ref" -> FillTypedef(p, ty(til, to, p.r.b))
      [] p.first /\ to.k # "ref" -> FillTypedef(p, ty_resolved(til, to, p.r.b))
ty_typedef(til, t, b) == DefineTypedef(til, til[t.n].to, placeholder(t, b))

ty(til, t, b) ==
    IF Body(til, t).k = "typedef" THEN ty_typedef(til, t, b) ELSE ty_resolved(til, t, b)

(***************************************************************************)
(* walk_type: a walk that met an over-wide scalar, or left a placeholder   *)
(* unfilled, is an error and no table.                                     *)
(***************************************************************************)
Finished(w) ==
    CASE w.b.too_wide # None -> [ok |-> FALSE, err |-> "ScalarTooWide"]
      [] w.b.too_wide = None /\ DOMAIN w.b.pending # {} -> [ok |-> FALSE, err |-> "UnfilledType"]
      [] OTHER -> [ok |-> TRUE, root |-> w.id, types |-> w.b.arena, dedup |-> w.b.dedup]

walk_type(til, t) == Finished(ty(til, t, NewBuilder))

type_named(til, name) ==
    IF name \notin DOMAIN til THEN [ok |-> FALSE, err |-> "TypeNotFound"]
    ELSE walk_type(til, [k |-> "ref", n |-> name])

(* The type at an address, a walk of its own kind: nothing there is Ok(None). *)
type_at(til, t) == IF t.k = "none" THEN [ok |-> FALSE, err |-> "None"] ELSE walk_type(til, t)

(***************************************************************************)
(* What a walk must deliver.                                               *)
(***************************************************************************)
Handles(v) ==
    {v.kids[i] : i \in DOMAIN v.kids} \cup
    (IF v.k \in {"struct", "union"} THEN {v.ms[i].ty : i \in DOMAIN v.ms} ELSE {})

(* The types a term and a slot spell, to depth d: the reference meaning a  *)
(* table is compared with, names, places, bit widths and representations   *)
(* included.  Both cut at depth 0.                                         *)
RECURSIVE Spelled(_, _, _), Unfolded(_, _, _)
Spelled(til, t, d) ==
    LET x == Body(til, t)
        tag == IF t.k = "ref" THEN t.n ELSE Anonymous
        S(u) == Spelled(til, u, d - 1)
        Format(v) == IF v \in {1, 2, 3, 4, 6} THEN v ELSE 0     \* NumberFormat
        Member(m) == <<m.n, m.off, IF m.ty.k = "bits" THEN m.ty.w ELSE None, Format(m.repr), S(m.ty)>>
    IN  IF d = 0 THEN <<>> ELSE
        CASE x.k = "ptr" -> <<"ptr", Anonymous, <<S(x.to)>> >>
          [] x.k = "array" -> <<"array", Anonymous, <<S(x.of)>> >>
          [] x.k = "fn" /\ x.known ->
               <<"fn", Anonymous, <<S(x.ret)>> \o [i \in DOMAIN x.ps |-> S(x.ps[i])]>>
          [] x.k = "fn" /\ ~x.known -> <<"fn", Anonymous, << <<"unknown", Anonymous, <<>> >> >> >>
          [] x.k \in {"struct", "union"} ->
               <<x.k, tag, [i \in DOMAIN x.ms |-> Member(x.ms[i])]>>
          [] x.k = "enum" -> <<"enum", tag, <<S([k |-> "int", b |-> 4, s |-> FALSE]), x.cs,
                                              <<x.bm, Format(x.repr)>> >> >>
          [] x.k = "typedef" -> <<"typedef", tag, <<S(x.to)>> >>
          [] x.k \in {"int", "bits"} -> <<IF x.s THEN "int" ELSE "uint", Anonymous, <<>> >>
          [] x.k \in {"void", "bool", "float"} -> <<x.k, Anonymous, <<>> >>
          [] OTHER -> <<"opaque", IF t.k = "ref" THEN t.n ELSE "?", <<>> >>

Unfolded(types, id, d) ==
    LET v == types[id]
        U(h) == Unfolded(types, h, d - 1)
        Member(m) == <<m.n, m.off, m.bw, m.repr, U(m.ty)>>
    IN  IF d = 0 THEN <<>> ELSE
        <<v.k, v.tag,
          CASE v.k \in {"struct", "union"} -> [i \in DOMAIN v.ms |-> Member(v.ms[i])]
            [] v.k = "enum" -> <<U(v.kids[1]), v.ms, v.w>>
            [] OTHER -> [i \in DOMAIN v.kids |-> U(v.kids[i])]>>

(* Depth to which tables are compared: past one turn of every cycle the    *)
(* instances hold.                                                         *)
UnfoldDepth == 5

TableSound(til, t, w) ==
    w.ok => /\ \A i \in DOMAIN w.types : Handles(w.types[i]) \subseteq DOMAIN w.types
            /\ \A i, j \in w.dedup : w.types[i] = w.types[j] => i = j
            /\ Unfolded(w.types, w.root, UnfoldDepth)
                 = Spelled(til, t, UnfoldDepth)
===============================================================================

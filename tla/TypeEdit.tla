-------------------------------- MODULE TypeEdit --------------------------------
(***************************************************************************)
(* Writing types: the cursors of types/edit.rs over the facade's edits of  *)
(* the local type library (udt_edit.cpp, enum_edit.cpp, type_define.cpp),  *)
(* a function's prototype (func_sig.cpp, type_apply.cpp), and durable      *)
(* member references.  One operation runs at a time on the kernel thread,  *)
(* but a MemberRef and a catalog outlive the operations around them.       *)
(*                                                                         *)
(* An operation of the facade is an operator that answers [code, til]; the *)
(* SDK calls below it are modelled from how the facade and the docs of the *)
(* Rust side use them.  Code "OK" is 0; the others keep the names of the   *)
(* TEDIT_*, SIG_*, TYPE_* and TERR_* values.                               *)
(***************************************************************************)
EXTENDS TypeDiff, TypeRecipe

CONSTANTS Libraries,    \* the libraries a database may open with
          Decls,        \* what the declarations in use define: [names, til, errors]
          Exprs,        \* the TypeExprs in use
          TypeNames, NewNames, MemberNames, ConstNames,
          Bits,         \* the bit offsets members are inserted at
          Values,       \* the constant values in use
          Protos,       \* the prototypes a function may start with
          MaxEdits      \* bound on the operations of one behaviour

VARIABLES til,      \* the edited database's library
          base,     \* the library of the database it is compared with
          proto,    \* the type at the function's entry
          ref,      \* a MemberRef kept by the caller, and what it was minted over
          last,     \* the last operation: op, type, error, by-ref flag, expression
          edits     \* operations so far that may write
vars == <<til, base, proto, ref, last, edits>>

NoType == [k |-> "none"]
NoRef == [type |-> Anonymous]

(* The term a built tree is stored as: qualifiers do not reach the walk.   *)
RECURSIVE Stored(_)
Stored(t) ==
    CASE t.op = "int" -> [k |-> "int", b |-> t.arg[1], s |-> t.arg[2] = 1]
      [] t.op = "bits" -> [k |-> "bits", b |-> t.arg[1], w |-> t.arg[2], s |-> t.arg[3] = 1]
      [] t.op = "float" -> [k |-> "float", b |-> t.arg[1]]
      [] t.op \in {"void", "bool"} -> [k |-> t.op]
      [] t.op = "ref" -> [k |-> "ref", n |-> t.arg[1]]
      [] t.op = "ptr" -> [k |-> "ptr", to |-> Stored(t.kids[1])]
      [] t.op = "array" -> [k |-> "array", of |-> Stored(t.kids[1]), len |-> t.arg[1]]
      [] t.op = "fn" ->
           [k |-> "fn", ret |-> Stored(t.kids[1]), known |-> TRUE,
            ps |-> [i \in 1..(Len(t.kids) - 1) |-> Stored(t.kids[i + 1])],
            names |-> t.arg[1], cc |-> t.arg[2], va |-> t.arg[2] = "ellipsis"]

(* The names a term holds by value, every name it mentions, and the names  *)
(* of its members and constants beside those.                              *)
RECURSIVE ByValue(_, _), Mentions(_)
ByValue(lib, t) ==
    CASE t.k = "ref" -> {t.n} \cup (IF t.n \in DOMAIN lib THEN ByValue(lib, lib[t.n]) ELSE {})
      [] t.k = "array" -> ByValue(lib, t.of)
      [] t.k = "typedef" -> ByValue(lib, t.to)
      [] t.k \in {"struct", "union"} -> UNION {ByValue(lib, t.ms[i].ty) : i \in DOMAIN t.ms}
      [] OTHER -> {}
Mentions(t) ==
    CASE t.k = "ref" -> {t.n}
      [] t.k = "ptr" -> Mentions(t.to)
      [] t.k = "array" -> Mentions(t.of)
      [] t.k = "typedef" -> Mentions(t.to)
      [] t.k = "fn" -> Mentions(t.ret) \cup UNION {Mentions(t.ps[i]) : i \in DOMAIN t.ps}
      [] t.k \in {"struct", "union"} -> UNION {Mentions(t.ms[i].ty) : i \in DOMAIN t.ms}
      [] OTHER -> {}

NamesIn(t) ==
    Mentions(t) \cup CASE t.k \in {"struct", "union"} -> {t.ms[i].n : i \in DOMAIN t.ms}
                        [] t.k = "enum" -> {t.cs[i].n : i \in DOMAIN t.cs}
                        [] OTHER -> {}

(***************************************************************************)
(* The SDK's edits of one aggregate.                                       *)
(***************************************************************************)
Answer(code, lib) == [code |-> code, til |-> lib]
IsUdt(lib, n) == lib[n].k \in {"struct", "union"}
EndOf(lib, m) == m.off + (IF m.ty.k = "bits" THEN m.ty.w ELSE 8 * SizeOf(lib, m.ty))
Overlaps(lib, a, b) == a.off < EndOf(lib, b) /\ b.off < EndOf(lib, a)

(* Whether the members ms with x among them can be type n's layout.        *)
LayoutCode(lib, n, ms, x) ==
    CASE lib[n].k = "union" /\ x.ty.k = "bits" -> "TERR_UNION_BF"
      [] n \in ByValue(lib, x.ty) -> "TERR_BAD_SUBTYPE"
      [] x.ty.k # "bits" /\ SizeOf(lib, x.ty) = 0 -> "TERR_BAD_SIZE"
      [] lib[n].k = "union" /\ x.off # 0 -> "TERR_BAD_OFFSET"
      [] x.n # Anonymous /\ \E i \in DOMAIN ms : ms[i].n = x.n -> "TERR_DUPNAME"
      [] lib[n].k = "struct" /\ \E i \in DOMAIN ms : Overlaps(lib, ms[i], x) -> "TERR_OVERLAP"
      [] OTHER -> "OK"

(* A new member goes where its offset puts it, a union's at the end.       *)
add_udm(lib, n, x) ==
    LET ms == lib[n].ms
        at == 1 + Cardinality({i \in DOMAIN ms : ms[i].off <= x.off})
        code == IF IsUdt(lib, n) THEN LayoutCode(lib, n, ms, x) ELSE "TERR_BAD_TYPE"
    IN  IF code # "OK" THEN Answer(code, lib)
        ELSE Answer("OK", [lib EXCEPT ![n].ms = InsertAt(ms, at, x)])

WithMember(lib, n, i, x) == Answer("OK", [lib EXCEPT ![n].ms[i] = x])

set_udm_type(lib, n, i, t, compatible) ==
    LET m == lib[n].ms[i]
        differs == t.k # m.ty.k \/ SizeOf(lib, t) # SizeOf(lib, m.ty)
        code == IF compatible /\ differs THEN "TERR_NOT_COMPAT"
                ELSE LayoutCode(lib, n, RemoveAt(lib[n].ms, i), [m EXCEPT !.ty = t])
    IN  IF code # "OK" THEN Answer(code, lib)
        ELSE WithMember(lib, n, i, [m EXCEPT !.ty = t])

rename_udm(lib, n, i, new) ==
    IF \E j \in DOMAIN lib[n].ms \ {i} : lib[n].ms[j].n = new /\ new # Anonymous
    THEN Answer("TERR_DUPNAME", lib)
    ELSE WithMember(lib, n, i, [lib[n].ms[i] EXCEPT !.n = new])

(* The byte array that keeps the place of a deleted member.                *)
Gap(lib, m) ==
    [n |-> "gap" \o ToString(m.off \div 8), off |-> m.off, repr |-> 0,
     ty |-> [k |-> "array", of |-> [k |-> "int", b |-> 1, s |-> FALSE],
             len |-> SizeOf(lib, m.ty)]]

del_udm(lib, n, i) ==
    LET ms == lib[n].ms
    IN  IF lib[n].k = "struct" /\ i # Len(ms)
        THEN WithMember(lib, n, i, Gap(lib, ms[i]))
        ELSE Answer("OK", [lib EXCEPT ![n].ms = RemoveAt(ms, i)])

Constants(lib, n) == IF lib[n].k = "enum" THEN {lib[n].cs[i].n : i \in DOMAIN lib[n].cs} ELSE {}

(* A constant's name is taken within its enum, and alien in another one    *)
(* unless it is forced.                                                    *)
NameCode(lib, n, c, forced) ==
    CASE c \in Constants(lib, n) -> "TERR_DUPNAME"
      [] c \notin Constants(lib, n) /\ ~forced
           /\ \E o \in DOMAIN lib \ {n} : c \in Constants(lib, o) -> "TERR_ALIEN_NAME"
      [] OTHER -> "OK"

(***************************************************************************)
(* The facade.  load_named_type comes first in every edit.                 *)
(***************************************************************************)
load_named_type(lib, n) == n \in DOMAIN lib

MEMBER_APPEND == -1      \* past the last member

(* The members a name matches, or, for the empty name, a bit offset.       *)
resolve_member(lib, n, m, bit) ==
    IF ~IsUdt(lib, n) THEN {}
    ELSE {i \in DOMAIN lib[n].ms : IF m # Anonymous THEN lib[n].ms[i].n = m
                                                   ELSE lib[n].ms[i].off = bit}

bitfield_width_bits(t) == IF t.k = "bits" THEN t.w ELSE None

AppendAt(lib, n) == IF lib[n].k = "union" THEN 0 ELSE 8 * SizeOf(lib, lib[n])

udt_add_member(lib, n, m, recipe, bit) ==
    LET t == build_recipe(recipe)
    IN  CASE ~load_named_type(lib, n) -> Answer("TEDIT_NO_TYPE", lib)
          [] load_named_type(lib, n) /\ t = Null -> Answer("TEDIT_BUILD", lib)
          [] OTHER -> add_udm(lib, n, [n |-> m, ty |-> Stored(t), repr |-> 0,
                                       off |-> IF bit = MEMBER_APPEND THEN AppendAt(lib, n) ELSE bit])

(* An edit of the resolved member: Do(i) is the SDK call on its index.     *)
OnMember(lib, n, m, bit, Do(_)) ==
    CASE ~load_named_type(lib, n) -> Answer("TEDIT_NO_TYPE", lib)
      [] load_named_type(lib, n) /\ resolve_member(lib, n, m, bit) = {} ->
           Answer("TEDIT_NO_MEMBER", lib)
      [] OTHER -> Do(Min(resolve_member(lib, n, m, bit)))

udt_set_member_type(lib, n, m, bit, recipe, compatible) ==
    LET t == build_recipe(recipe)
        Do(i) == IF t = Null THEN Answer("TEDIT_BUILD", lib)
                 ELSE set_udm_type(lib, n, i, Stored(t), compatible)
    IN  OnMember(lib, n, m, bit, Do)

udt_rename_member(lib, n, m, bit, new) ==
    LET Do(i) == rename_udm(lib, n, i, new) IN OnMember(lib, n, m, bit, Do)

(* A comment is not part of any type that is read back.                    *)
udt_set_member_comment(lib, n, m, bit) ==
    LET Do(i) == Answer("OK", lib) IN OnMember(lib, n, m, bit, Do)

udt_set_member_repr(lib, n, m, bit, vtype) ==
    LET Do(i) == WithMember(lib, n, i, [lib[n].ms[i] EXCEPT !.repr = vtype])
    IN  OnMember(lib, n, m, bit, Do)

udt_del_member(lib, n, m, bit) ==
    LET Do(i) == del_udm(lib, n, i) IN OnMember(lib, n, m, bit, Do)

(* The enum edits: Do is the SDK call; on another kind it is refused.      *)
OnEnum(lib, n, do) ==
    CASE ~load_named_type(lib, n) -> Answer("TEDIT_NO_TYPE", lib)
      [] load_named_type(lib, n) /\ lib[n].k # "enum" -> Answer("TERR_BAD_TYPE", lib)
      [] OTHER -> do

resolve_edm(lib, n, c) == {i \in DOMAIN lib[n].cs : lib[n].cs[i].n = c}

OnConstant(lib, n, c, Do(_)) ==
    CASE ~load_named_type(lib, n) -> Answer("TEDIT_NO_TYPE", lib)
      [] load_named_type(lib, n) /\ c \notin Constants(lib, n) -> Answer("TEDIT_NO_MEMBER", lib)
      [] OTHER -> Do(Min(resolve_edm(lib, n, c)))

enum_add_member(lib, n, c, v, forced) ==
    OnEnum(lib, n,
      IF NameCode(lib, n, c, forced) # "OK" THEN Answer(NameCode(lib, n, c, forced), lib)
      ELSE Answer("OK", [lib EXCEPT ![n].cs = Append(@, [n |-> c, v |-> v])]))

enum_set_bitmask(lib, n, on) == OnEnum(lib, n, Answer("OK", [lib EXCEPT ![n].bm = on]))
enum_set_repr(lib, n, vtype) == OnEnum(lib, n, Answer("OK", [lib EXCEPT ![n].repr = vtype]))

enum_set_width(lib, n, nbytes) ==
    OnEnum(lib, n, IF nbytes \notin {0, 1, 2, 4, 8} THEN Answer("TERR_ENUM_SIZE", lib)
                   ELSE Answer("OK", [lib EXCEPT ![n].sz = IF nbytes = 0 THEN 4 ELSE nbytes]))

enum_set_member_value(lib, n, c, v) ==
    LET Do(i) == Answer("OK", [lib EXCEPT ![n].cs[i].v = v]) IN OnConstant(lib, n, c, Do)

enum_rename_member(lib, n, c, new, forced) ==
    LET Do(i) == IF NameCode(lib, n, new, forced) # "OK"
                 THEN Answer(NameCode(lib, n, new, forced), lib)
                 ELSE Answer("OK", [lib EXCEPT ![n].cs[i].n = new])
    IN  OnConstant(lib, n, c, Do)

enum_del_member(lib, n, c) ==
    LET Do(i) == Answer("OK", [lib EXCEPT ![n].cs = RemoveAt(@, i)]) IN OnConstant(lib, n, c, Do)

enum_del_member_by_value(lib, n, v) ==
    LET hits == {i \in DOMAIN lib[n].cs : lib[n].cs[i].v = v}
    IN  OnEnum(lib, n, IF hits = {} THEN Answer("TERR_NOT_FOUND", lib)
                       ELSE Answer("OK", [lib EXCEPT ![n].cs = RemoveAt(@, Min(hits))]))

(* The error count is the code; what parsed before an error is defined.    *)
define_type(lib, d) ==
    Answer(IF d.errors THEN "TypeDefineFailed" ELSE "OK", d.til @@ lib)

delete_type(lib, n) ==
    IF ~load_named_type(lib, n) THEN Answer("TEDIT_NO_TYPE", lib) ELSE Answer("OK", Drop(lib, n))

(* A reference is by ordinal, so it follows the type to its new name.      *)
RECURSIVE Renamed(_, _, _)
Renamed(t, n, new) ==
    LET R(u) == Renamed(u, n, new)
    IN  CASE t.k = "ref" -> IF t.n = n THEN [t EXCEPT !.n = new] ELSE t
          [] t.k = "ptr" -> [t EXCEPT !.to = R(@)]
          [] t.k = "array" -> [t EXCEPT !.of = R(@)]
          [] t.k = "typedef" -> [t EXCEPT !.to = R(@)]
          [] t.k = "fn" -> [t EXCEPT !.ret = R(@), !.ps = [i \in DOMAIN @ |-> R(@[i])]]
          [] t.k \in {"struct", "union"} ->
               [t EXCEPT !.ms = [i \in DOMAIN @ |-> [@[i] EXCEPT !.ty = R(@)]]]
          [] OTHER -> t

rename_type(lib, n, new) ==
    CASE ~load_named_type(lib, n) -> Answer("TEDIT_NO_TYPE", lib)
      [] load_named_type(lib, n) /\ new \in DOMAIN lib -> Answer("TERR_DUPNAME", lib)
      [] OTHER -> LET moved == (new :> lib[n]) @@ Drop(lib, n)
                  IN  Answer("OK", [x \in DOMAIN moved |-> Renamed(moved[x], n, new)])

forward_declare_type(lib, n) ==
    IF n \in DOMAIN lib THEN Answer("TERR_SAVE_ERROR", lib)
    ELSE Answer("OK", (n :> [k |-> "fwd"]) @@ lib)

(***************************************************************************)
(* The Rust side.  edit_result tells the errors apart that have a meaning  *)
(* of their own; every other code is a rejection.                          *)
(***************************************************************************)
TypeEditCode ==
    {"TERR_SAVE_ERROR", "TERR_SERIALIZE", "TERR_BAD_NAME", "TERR_BAD_ARG", "TERR_BAD_TYPE",
     "TERR_BAD_SIZE", "TERR_BAD_INDEX", "TERR_BAD_ARRAY", "TERR_BAD_BF", "TERR_BAD_OFFSET",
     "TERR_BAD_UNIVAR", "TERR_BAD_VARLAST", "TERR_OVERLAP", "TERR_BAD_SUBTYPE", "TERR_BAD_VALUE",
     "TERR_NO_BMASK", "TERR_BAD_BMASK", "TERR_BAD_MSKVAL", "TERR_BAD_REPR", "TERR_GRP_NOEMPTY",
     "TERR_DUPNAME", "TERR_UNION_BF", "TERR_BAD_TAH", "TERR_BAD_BASE", "TERR_BAD_GAP",
     "TERR_NESTED", "TERR_NOT_COMPAT", "TERR_BAD_LAYOUT", "TERR_BAD_GROUPS", "TERR_BAD_SERIAL",
     "TERR_ALIEN_NAME", "TERR_STOCK", "TERR_ENUM_SIZE", "TERR_NOT_IMPL", "TERR_TYPE_WORSE",
     "TERR_BAD_FX_SIZE", "TERR_STRUCT_SIZE", "TERR_NOT_FOUND"}

edit_result(code) ==
    CASE code = "OK" -> "Ok"
      [] code = "TEDIT_NO_TYPE" -> "NoType"
      [] code = "TEDIT_NO_MEMBER" -> "NoMember"
      [] code = "TEDIT_BUILD" -> "BuildFailed"
      [] code \in TypeEditCode -> "Rejected"
      [] OTHER -> "UnknownCode"

Op(op, n, err, byRef, e) ==
    /\ edits < MaxEdits
    /\ edits' = edits + (IF op = "member_ref" THEN 0 ELSE 1)
    /\ last' = [op |-> op, type |-> n, err |-> err, byRef |-> byRef, expr |-> e]
    /\ base' = base

VoidExpr == Expr("void", <<>>, <<>>)

(* One edit of the library: the answer is applied, whatever its code.      *)
Edit(op, n, answer, e) ==
    /\ Op(op, n, edit_result(answer.code), FALSE, e)
    /\ til' = answer.til
    /\ UNCHANGED <<proto, ref>>

define(d) ==
    /\ Op("define", Anonymous,
          IF define_type(til, d).code = "OK" THEN "Ok" ELSE "TypeDefineFailed", FALSE, VoidExpr)
    /\ til' = define_type(til, d).til
    /\ UNCHANGED <<proto, ref>>
delete(n) ==
    /\ n # Anonymous
    /\ Edit("delete", n, delete_type(til, n), VoidExpr)
rename(n, new) ==
    LET a == rename_type(til, n, new)
    IN  /\ Op("rename", n, edit_result(a.code), FALSE, VoidExpr)
        /\ til' = a.til
        /\ proto' = IF a.code = "OK" THEN Renamed(proto, n, new) ELSE proto
        /\ ref' = ref
forward_declare(n) == Edit("forward_declare", n, forward_declare_type(til, n), VoidExpr)

(* add_member and add_member_at.                                           *)
add_member(n, m, e) ==
    Edit("member", n, udt_add_member(til, n, m, encode(e), MEMBER_APPEND), e)
add_member_at(n, m, e, bit) ==
    Edit("member", n, udt_add_member(til, n, m, encode(e), bit), e)

(* MemberEdit, for a key by name or by bit offset (the empty name).        *)
set_type(n, m, bit, e, compatible) ==
    Edit("member", n, udt_set_member_type(til, n, m, bit, encode(e), compatible), e)
rename_member(n, m, bit, new) ==
    Edit("member", n, udt_rename_member(til, n, m, bit, new), VoidExpr)
comment(n, m, bit) == Edit("member", n, udt_set_member_comment(til, n, m, bit), VoidExpr)
set_member_repr(n, m, bit, vtype) ==
    Edit("member", n, udt_set_member_repr(til, n, m, bit, vtype), VoidExpr)
delete_member(n, m, bit) == Edit("member", n, udt_del_member(til, n, m, bit), VoidExpr)

(* The enum's own edits and ConstantEdit.                                  *)
add_constant(n, c, v, forced) ==
    Edit("constant", n, enum_add_member(til, n, c, v, forced), VoidExpr)
set_bitmask(n, on) == Edit("constant", n, enum_set_bitmask(til, n, on), VoidExpr)
set_repr(n, vtype) == Edit("constant", n, enum_set_repr(til, n, vtype), VoidExpr)
set_enum_width(n, nbytes) == Edit("constant", n, enum_set_width(til, n, nbytes), VoidExpr)
delete_constant_by_value(n, v) ==
    Edit("constant", n, enum_del_member_by_value(til, n, v), VoidExpr)
set_value(n, c, v) == Edit("constant", n, enum_set_member_value(til, n, c, v), VoidExpr)
rename_constant(n, c, new, forced) ==
    Edit("constant", n, enum_rename_member(til, n, c, new, forced), VoidExpr)
delete_constant(n, c) == Edit("constant", n, enum_del_member(til, n, c), VoidExpr)

(***************************************************************************)
(* Durable member references.                                              *)
(***************************************************************************)
(* The discriminant of a shape: signedness, width and children are fields. *)
discriminant(k) == IF k = "uint" THEN "int" ELSE k

(* The layout's fingerprint; the hash is modelled by what it hashes.       *)
LayoutOf(w, v) ==
    IF v.k \notin {"struct", "union"} THEN [ok |-> FALSE]
    ELSE [ok |-> TRUE, count |-> Len(v.ms), ms |-> v.ms,
          generation |-> [i \in DOMAIN v.ms |->
             <<v.ms[i].off, w.types[v.ms[i].ty].size, discriminant(w.types[v.ms[i].ty].k)>>]]
ReadLayout(w) == IF w.ok THEN LayoutOf(w, w.types[w.root]) ELSE [ok |-> FALSE]
read_layout(lib, n) == ReadLayout(type_named(lib, n))

Mint(n, index, l) ==
    LET err == CASE ~l.ok -> "NoType"
                 [] l.ok /\ index > l.count -> "MemberIndexOutOfRange"
                 [] OTHER -> "Ok"
    IN  /\ Op("member_ref", n, err, FALSE, VoidExpr)
        /\ ref' = IF err = "Ok" THEN [type |-> n, index |-> index, generation |-> l.generation,
                                      was |-> til[n].ms, kind |-> til[n].k]
                  ELSE ref
        /\ UNCHANGED <<til, proto>>
member_ref(n, index) == Mint(n, index, read_layout(til, n))

(* Without the fingerprint check.                                          *)
Selects_unchecked(r, n, l) ==
    CASE ~l.ok -> [err |-> "NoType"]
      [] l.ok /\ (r.type # n \/ r.index > l.count) -> [err |-> "StaleMemberRef"]
      [] OTHER -> [err |-> "Ok", m |-> l.ms[r.index].n, bit |-> l.ms[r.index].off]

(* The key a reference selects now: the member's present name, or its bit  *)
(* offset when it has none.                                                *)
Selects(r, n, l) ==
    CASE ~l.ok -> [err |-> "NoType"]
      [] l.ok /\ (r.type # n \/ r.generation # l.generation \/ r.index > l.count) ->
           [err |-> "StaleMemberRef"]
      [] OTHER -> [err |-> "Ok", m |-> l.ms[r.index].n, bit |-> l.ms[r.index].off]
member_by_ref(lib, r, n) == Selects(r, n, read_layout(lib, n))

(* An edit through the reference: Do is one of the MemberEdit operations.  *)
EditKey(n, k, Do(_, _), e) ==
    LET a == Do(k.m, IF k.m = Anonymous THEN k.bit ELSE 0)
    IN  /\ IF k.err = "Ok"
           THEN /\ Op("member", n, edit_result(a.code), TRUE, e)
                /\ til' = a.til
           ELSE /\ Op("member", n, k.err, TRUE, e)
                /\ til' = til
        /\ UNCHANGED <<proto, ref>>
ThroughRef(n, Do(_, _), e) == ref # NoRef /\ EditKey(n, member_by_ref(til, ref, n), Do, e)

rename_by_ref(n, new) ==
    LET Do(m, bit) == udt_rename_member(til, n, m, bit, new) IN ThroughRef(n, Do, VoidExpr)
set_type_by_ref(n, e) ==
    LET Do(m, bit) == udt_set_member_type(til, n, m, bit, encode(e), FALSE)
    IN  ThroughRef(n, Do, e)
delete_by_ref(n) ==
    LET Do(m, bit) == udt_del_member(til, n, m, bit) IN ThroughRef(n, Do, VoidExpr)

(***************************************************************************)
(* The type at a function's entry.  apply_tinfo refuses a type with a name *)
(* the library does not hold.                                              *)
(***************************************************************************)
apply_tinfo(lib, t) == Mentions(t) \subseteq DOMAIN lib

Applied(t, rejected) == IF apply_tinfo(til, t) THEN [p |-> t, err |-> "Ok"]
                        ELSE [p |-> proto, err |-> rejected]

apply_named_type(n) ==
    IF n \in DOMAIN til THEN Applied([k |-> "ref", n |-> n], "ApplyRejected")
    ELSE [p |-> proto, err |-> "NoType"]
apply_type_decl(d) ==
    IF parse_decl(d) = Null THEN [p |-> proto, err |-> "ParseFailed"]
    ELSE Applied(Stored(parse_decl(d)), "ApplyRejected")
apply_type_recipe(recipe) ==
    IF build_recipe(recipe) = Null THEN [p |-> proto, err |-> "BuildFailed"]
    ELSE Applied(Stored(build_recipe(recipe)), "ApplyRejected")

(* apply_type_at: a name and a declaration take paths of their own.        *)
apply_type_at(e) ==
    LET a == CASE e.x = "named" -> apply_named_type(e.arg[1])
               [] e.x = "decl" -> apply_type_decl(e.arg[1])
               [] OTHER -> apply_type_recipe(encode(e))
    IN  /\ Op("apply", Anonymous, a.err, FALSE, e)
        /\ proto' = a.p
        /\ UNCHANGED <<til, ref>>

(* TypeInfo handles reach the same place built eagerly.                    *)
tinfo_apply(t, e) ==
    LET a == Applied(Stored(t), "ApplyRejected")
    IN  /\ t # Null
        /\ Op("apply", Anonymous, a.err, FALSE, e)
        /\ proto' = a.p
        /\ UNCHANGED <<til, ref>>

clear_type ==
    /\ Op("apply", Anonymous, "Ok", FALSE, VoidExpr)
    /\ proto' = NoType
    /\ UNCHANGED <<til, ref>>

read_func_details(p) == p.k = "fn" /\ p.known

rebuild_and_apply(ftd) == Applied(ftd, "SIG_APPLY")

sig_result(code) ==
    CASE code = "Ok" -> "Ok"
      [] code = "SIG_NO_PROTOTYPE" -> "NoPrototype"
      [] code = "SIG_ARG_RANGE" -> "ArgIndexOutOfRange"
      [] code = "SIG_BUILD" -> "BuildFailed"
      [] OTHER -> "ApplyRejected"

Fail(code) == [p |-> proto, err |-> code]

func_set_rettype(recipe) ==
    CASE ~read_func_details(proto) -> Fail("SIG_NO_PROTOTYPE")
      [] read_func_details(proto) /\ build_recipe(recipe) = Null -> Fail("SIG_BUILD")
      [] OTHER -> rebuild_and_apply([proto EXCEPT !.ret = Stored(build_recipe(recipe))])

func_set_argtype(idx, recipe) ==
    CASE ~read_func_details(proto) -> Fail("SIG_NO_PROTOTYPE")
      [] read_func_details(proto) /\ idx > Len(proto.ps) -> Fail("SIG_ARG_RANGE")
      [] read_func_details(proto) /\ idx <= Len(proto.ps) /\ build_recipe(recipe) = Null ->
           Fail("SIG_BUILD")
      [] OTHER -> rebuild_and_apply([proto EXCEPT !.ps[idx] = Stored(build_recipe(recipe))])

func_rename_arg(idx, name) ==
    CASE ~read_func_details(proto) -> Fail("SIG_NO_PROTOTYPE")
      [] read_func_details(proto) /\ idx > Len(proto.ps) -> Fail("SIG_ARG_RANGE")
      [] OTHER -> rebuild_and_apply([proto EXCEPT !.names[idx] = name])

func_set_cc(cc) ==
    IF ~read_func_details(proto) THEN Fail("SIG_NO_PROTOTYPE")
    ELSE rebuild_and_apply([proto EXCEPT !.cc = cc, !.va = cc = "ellipsis"])

func_prepend_this(recipe) ==
    CASE ~read_func_details(proto) -> Fail("SIG_NO_PROTOTYPE")
      [] read_func_details(proto) /\ build_recipe(recipe) = Null -> Fail("SIG_BUILD")
      [] OTHER -> rebuild_and_apply([proto EXCEPT !.ps = <<Stored(build_recipe(recipe))>> \o @,
                                                  !.names = <<"this">> \o @])

Sign(op, answer, e) ==
    /\ Op(op, Anonymous, sig_result(answer.err), FALSE, e)
    /\ proto' = answer.p
    /\ UNCHANGED <<til, ref>>

set_return_type(e) == Sign("sig", func_set_rettype(encode(e)), e)
set_arg_type(idx, e) == Sign("sig", func_set_argtype(idx, encode(e)), e)
rename_arg(idx, name) == Sign("sig", func_rename_arg(idx, name), VoidExpr)
set_calling_convention(cc) == Sign("sig", func_set_cc(cc), VoidExpr)
prepend_this(e) == Sign("sig", func_prepend_this(encode(e)), e)

-------------------------------------------------------------------------------
Init ==
    /\ til \in Libraries
    /\ base = til
    /\ proto \in Protos
    /\ ref = NoRef
    /\ last = [op |-> "open", type |-> Anonymous, err |-> "Ok", byRef |-> FALSE, expr |-> VoidExpr]
    /\ edits = 0

(* Two of the five value-type nibbles a ValueRepr can hold.                *)
NumberFormat == {1, 6}

(* A member key: by name, or by bit offset.                                *)
MemberKeys == (MemberNames \X {0}) \cup {<<Anonymous, 0>>}

Next ==
    \/ \E d \in Decls : define(d)
    \/ \E n \in NewNames : forward_declare(n)
    \/ \E n \in TypeNames :
         \/ delete(n)
         \/ \E new \in NewNames : rename(n, new)
         \/ \E m \in MemberNames \cup {Anonymous}, e \in Exprs :
              \/ add_member(n, m, e)
              \/ \E bit \in Bits : add_member_at(n, m, e, bit)
         \/ \E k \in MemberKeys :
              \/ \E e \in Exprs, compatible \in BOOLEAN : set_type(n, k[1], k[2], e, compatible)
              \/ \E new \in MemberNames : rename_member(n, k[1], k[2], new)
              \/ comment(n, k[1], k[2])
              \/ \E vtype \in NumberFormat : set_member_repr(n, k[1], k[2], vtype)
              \/ delete_member(n, k[1], k[2])
         \/ \E c \in ConstNames, v \in Values :
              \/ \E forced \in BOOLEAN : add_constant(n, c, v, forced)
              \/ set_value(n, c, v)
         \/ \E c, new \in ConstNames, forced \in BOOLEAN : rename_constant(n, c, new, forced)
         \/ \E c \in ConstNames : delete_constant(n, c)
         \/ \E v \in Values : delete_constant_by_value(n, v)
         \/ \E on \in BOOLEAN : set_bitmask(n, on)
         \/ \E vtype \in NumberFormat : set_repr(n, vtype)
         \/ \E nbytes \in {0, 2, 3} : set_enum_width(n, nbytes)
         \/ \E index \in 2..3 : member_ref(n, index)
         \/ \E new \in MemberNames : rename_by_ref(n, new)
         \/ \E e \in Exprs : set_type_by_ref(n, e)
         \/ delete_by_ref(n)
    \/ \E e \in Exprs :
         \/ apply_type_at(e)
         \/ tinfo_apply(Meaning(e), e)
         \/ set_return_type(e)
         \/ \E idx \in 1..2 : set_arg_type(idx, e)
         \/ prepend_this(e)
    \/ \E idx \in 1..2 : rename_arg(idx, "q")
    \/ \E cc \in {"cdecl", "ellipsis"} : set_calling_convention(cc)
    \/ clear_type

Spec == Init /\ [][Next]_vars

-------------------------------------------------------------------------------
Catalog(lib, lens) == type_catalog_with(lib, lens).types

(* The stack depth a canonical type's back references may reach.           *)
RECURSIVE WellScoped(_, _)
WellScoped(c, depth) ==
    /\ c.k = "backref" => c.w \in 1..depth
    /\ \A i \in DOMAIN c.kids : WellScoped(c.kids[i], depth)
    /\ c.k \in {"struct", "union"} => \A i \in DOMAIN c.ms : WellScoped(c.ms[i].ty, depth + 1)

(* Every named type, and the type at an address, is read into a table that *)
(* says what the library says: handles in range, one handle per interned value, the  *)
(* same shape turn after turn of a recursive type; and its canonical form  *)
(* is paired by its own name and refers back only to open aggregates       *)
(* (typewalk_bridge.cpp, builder.rs, canonical/model.rs).                  *)
Readable(lib, n, w, c) ==
    /\ TableSound(lib, [k |-> "ref", n |-> n], w)
    /\ WellScoped(c, 0)
    /\ c.k \notin NamedKinds
    /\ identity(c) # <<>> => identity(c)[2] = n
WalkSound ==
    /\ \A n \in DOMAIN til :
         LET w == type_named(til, n)
         IN  w.ok /\ Readable(til, n, w, canonicalize(w.types, w.root, "strict"))
    /\ TableSound(til, proto, type_at(til, proto))

(* The strict diff of two named types is empty exactly when their          *)
(* canonical forms are equal, and the diff the other way round adds what   *)
(* this one removes (engine.rs diff_into, diff_members, diff_constants).   *)
Exact(l, r, d, u) ==
    /\ d = <<>> <=> l = r
    /\ added(d) = removed(u) /\ removed(d) = added(u)
    /\ size_change(d) = <<>> <=> size_change(u) = <<>>
AllExact(left, right) ==
    \A n \in DOMAIN left \cap DOMAIN right :
      Exact(left[n], right[n], diff(left[n], right[n]), diff(right[n], left[n]))
DiffExact == AllExact(Catalog(base, "strict"), Catalog(til, "strict"))

(* Two canonical forms print the same string only when they are equal,     *)
(* under either lens, as long as no name holds a separator of the string   *)
(* (model.rs write_canonical).                                             *)
Keys(c) == [n \in DOMAIN c |-> write_canonical(c[n])]
KeysTellApart(l, r, left, right) ==
    \A a \in DOMAIN l, b \in DOMAIN r : left[a] = right[b] => l[a] = r[b]
AllKeysTellApart(l, r) == KeysTellApart(l, r, Keys(l), Keys(r))
StringIsKey == \A lens \in Lens : AllKeysTellApart(Catalog(base, lens), Catalog(til, lens))
KeyString == (UNION {NamesIn(til[n]) : n \in DOMAIN til}) \cap Delimiting = {} => StringIsKey

(* What the documentation of the Display form says, whatever the names:    *)
(* "self-delimiting, ... and the string is itself a stable key".           *)
SelfDelimiting == StringIsKey

(* The recipe of every expression written builds, in the facade's stack    *)
(* machine, the type that handles built one call at a time would give      *)
(* (expr.rs encode, type_write_common.cpp build_recipe).                   *)
RecipeAgrees ==
    [][build_recipe(encode(last'.expr)) = Meaning(last'.expr)]_vars

(* The names a catalog diff of two libraries reports, under a lens.        *)
Drifted(l, r, lens) ==
    LET d == catalog_diff(type_catalog_with(l, lens), type_catalog_with(r, lens))
    IN  DOMAIN d.drifted \cup d.only_left \cup d.only_right

(* An edit of one type's members or constants drifts that type alone under *)
(* the logical lens, and otherwise only types that hold it by value; a     *)
(* failed edit drifts nothing (edit.rs, model.rs nominal_cut).             *)
DriftLocal ==
    [][ til' # til =>
        LET holders == {n \in DOMAIN til : last'.type \in ByValue(til, til[n])}
        IN  /\ last'.op \in {"member", "constant"} =>
                 /\ Drifted(til, til', "logical") \subseteq {last'.type}
                 /\ Drifted(til, til', "strict") \subseteq {last'.type} \cup holders
            /\ last'.op # "define" /\ last'.err # "Ok" => Drifted(til, til', "strict") = {}
      ]_vars

(* An edit of a struct through a MemberRef that is not refused touches the *)
(* member the reference was minted for, and no other: the one at its bit   *)
(* offset (edit.rs member_by_ref, read_layout).                            *)
RefEditsItsMember ==
    [][ last'.byRef /\ til' # til /\ ref.kind = "struct" =>
          LET was == ref.was[ref.index]
              old == {til[ref.type].ms[i] : i \in DOMAIN til[ref.type].ms}
              new == {til'[ref.type].ms[i] : i \in DOMAIN til'[ref.type].ms}
          IN  /\ last'.type = ref.type
              /\ \A m \in (old \ new) \cup (new \ old) : m.off = was.off
      ]_vars

(* What the documentation of member_ref says: adding, removing, resizing   *)
(* or retyping a member invalidates the reference.                         *)
RetypeInvalidates ==
    ref # NoRef /\ ref.type \in DOMAIN til
      => LET k == member_by_ref(til, ref, ref.type)
             now == til[ref.type].ms
         IN  k.err = "Ok" => [i \in DOMAIN now |-> now[i].ty]
                               = [i \in DOMAIN ref.was |-> ref.was[i].ty]

===============================================================================

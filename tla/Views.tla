------------------------------- MODULE Views -------------------------------
(***************************************************************************)
(* The read side of an open database: the lazy iterators over functions,   *)
(* segments, names, strings, exports, instructions and search matches,     *)
(* which borrow the database and read the kernel as they go; the owned     *)
(* snapshots (chunks, imports, cross-references, entries, flow charts),    *)
(* which outlive the edits made after them; and the string list, one       *)
(* global list of the kernel's that each strings() call rebuilds.          *)
(*                                                                         *)
(* An image is what the kernel knows of the program.  A byte is a pair of  *)
(* nibbles, and a nibble one of a few digits.                              *)
(***************************************************************************)
EXTENDS Addresses

CONSTANTS
  Images,       \* image name -> image
  Slots,        \* places where a caller keeps an iterator or a snapshot
  MayHold,      \* bound: slot -> the kinds it is used for
  HexTexts,     \* texts of Pattern::hex: sequences of tokens of characters
  CodeMasks,    \* <<code, mask text>> of Pattern::code_mask
  ByteMasks,    \* <<data, optional mask>> of Pattern::bytes
  IdaPatterns,  \* what IDA's parser makes of a text: Unparseable or a pattern
  Ranges        \* <<start, end>> of search_in and instructions_in

VARIABLES
  db,       \* the name of the image the database holds
  strlist,  \* the kernel's global string list
  slots     \* slot -> what the caller holds there

vars == <<db, strlist, slots>>

Image == Images[db]
Insn == INSTANCE Instruction
Seg == INSTANCE Segment
Frame == INSTANCE StackFrame
-----------------------------------------------------------------------------
(* Functions.                                                              *)

(* The functions of the image are disjoint.                                *)
ChunksOf(f) == <<<<f.start, f.end>>>> \o f.tails
Covers(f, a) == \E k \in DOMAIN ChunksOf(f) : a \in ChunksOf(f)[k][1]..(ChunksOf(f)[k][2] - 1)
FunctionsAt(img, a) == {f \in img.functions : Covers(f, a)}
get_func(img, a) == CHOOSE f \in FunctionsAt(img, a) : TRUE

func_start(a) == IF FunctionsAt(Image, a) = {} THEN BADADDR ELSE get_func(Image, a).start
function_at(a) == try_new(func_start(a))

range_all_chunks(a) == IF FunctionsAt(Image, a) = {} THEN <<>> ELSE ChunksOf(get_func(Image, a))
BoundedChunk(chunk) == try_new(chunk[1]) # None /\ try_new(chunk[2]) # None
FunctionChunks(a) == SelectSeq(range_all_chunks(a), BoundedChunk)

total_size(a) == LET AddSpan(chunk, sum) == sum + distance_to(chunk[1], chunk[2])
                 IN FoldRight(AddSpan, FunctionChunks(a), 0)

(* The name flags, and what they say of who named the function.            *)
NameFlags(f) == CASE f.named = "User" -> {"NAME"}
                  [] f.named = "Auto" -> {"NAME", "LABL"}
                  [] f.named = "Dummy" -> {"LABL"}
FunctionName(flags) == IF "NAME" \notin flags THEN "Dummy"
                       ELSE IF "LABL" \in flags THEN "Auto" ELSE "User"

(* The kernel's text of a name is missing or not empty; a name the facade  *)
(* refuses reads as the empty string.                                      *)
func_name(a) == IF FunctionsAt(Image, a) = {} THEN None ELSE Unless(get_func(Image, a).name, "")
name_of(a) == <<FunctionName(IF FunctionsAt(Image, a) = {} THEN {} ELSE NameFlags(get_func(Image, a))),
                IF func_name(a) = None THEN "" ELSE func_name(a)[1]>>

(* What the facade answers of a function, and instead of one.              *)
func_end(a) == IF FunctionsAt(Image, a) = {} THEN BADADDR ELSE get_func(Image, a).end
func_flags(a) == IF FunctionsAt(Image, a) = {} THEN {} ELSE get_func(Image, a).flags
func_bitness(a) == IF FunctionsAt(Image, a) = {} THEN 0 ELSE get_func(Image, a).bits
func_cmt(a, repeatable) ==
  IF FunctionsAt(Image, a) = {} THEN None
  ELSE Unless(get_func(Image, a)[IF repeatable THEN "rptcmt" ELSE "cmt"], "")

(* The accessors of a view, which is keyed by the function's entry.        *)
entry_size(entry) == LET end == try_new(func_end(entry))
                     IN IF end = None THEN 0 ELSE distance_to(entry, end[1])
FunctionView(entry) ==
  [address |-> entry, name |-> name_of(entry), end |-> try_new(func_end(entry)),
   size |-> entry_size(entry), total_size |-> total_size(entry),
   comment |-> func_cmt(entry, FALSE), repeatable_comment |-> func_cmt(entry, TRUE),
   does_return |-> get_func(Image, entry).returns,
   bitness |-> TryFrom(Seg!Bitness, func_bitness(entry)),
   is_lib |-> "LIB" \in func_flags(entry), is_thunk |-> "THUNK" \in func_flags(entry),
   is_noreturn |-> "NORET" \in func_flags(entry)]

(* The entry record crosses the facade with a sentinel for each absent     *)
(* field, u64::MAX and u32::MAX among them, and empty strings.             *)
func_entry_info(a, name) ==
  LET f == get_func(Image, a)
      Raw(option, sentinel) == IF option = None THEN sentinel ELSE option[1]
  IN [start |-> f.start, end |-> f.end, frame_id |-> Raw(f.frame, BADADDR),
      color |-> Raw(f.color, BADADDR), name |-> IF name THEN f.name ELSE ""]
from_raw(raw) ==
  IF try_new(raw.start) = None \/ try_new(raw.end) = None THEN None
  ELSE Some([address |-> raw.start, end |-> raw.end,
             frame_id |-> Unless(raw.frame_id, BADADDR),
             color |-> Unless(raw.color, BADADDR), name |-> Unless(raw.name, "")])
entry_with(a, name) ==
  IF FunctionsAt(Image, a) = {} THEN None ELSE from_raw(func_entry_info(a, name))

(* Segments, keyed by the kernel's index.                                  *)
SegmentsAt(img, a) == {n \in DOMAIN img.segments :
                         a \in img.segments[n].start..(img.segments[n].end - 1)}
seg_at(a) == IF SegmentsAt(Image, a) = {} THEN -1
             ELSE (CHOOSE n \in SegmentsAt(Image, a) : TRUE) - 1
segment_at(a) == IF seg_at(a) >= 0 THEN Some(Seg!View(Image.segments, seg_at(a), Image.bytes))
                 ELSE None

(* The frame of the function at an address.                                *)
frame(a) == Frame!frame(IF FunctionsAt(Image, a) = {} THEN None ELSE get_func(Image, a).udt)
-----------------------------------------------------------------------------
(* Flow charts.  A block of the image flows to other blocks of the         *)
(* function, <<"in", index>>, and out of it, <<"out", target, noreturn>>.  *)

BasicBlockKind == {0, 1, 2, 3, 4, 7}
FCB_ENORET == 5
FCB_EXTERN == 6

flowchart_flags(call_ends, externals, predecessors) ==
  (IF call_ends THEN {"CALL_ENDS"} ELSE {}) \cup (IF externals THEN {} ELSE {"NOEXT"})
    \cup (IF predecessors THEN {} ELSE {"NOPREDS"})

IsOut(edge) == edge[1] = "out"
FlowsOf(f, flags) == f.blocks[IF "CALL_ENDS" \in flags THEN "split" ELSE "whole"]

(* The kernel's chart: the proper blocks, then one stub per outside edge.  *)
qflow_chart(f, flags) ==
  LET proper == FlowsOf(f, flags)
      Outs(b) == SelectSeq(b.edges, IsOut)
      stubs == IF "NOEXT" \in flags THEN <<>>
               ELSE LET AddOuts(outs, b) == outs \o Outs(b) IN FoldLeft(AddOuts, <<>>, proper)
      First(i) == LET AddLen(sum, b) == sum + Len(Outs(b))
                  IN FoldLeft(AddLen, Len(proper), SubSeq(proper, 1, i - 1))
      Succs(i) ==
        LET Index(k) == IF IsOut(proper[i].edges[k])
                        THEN First(i) + Len(SelectSeq(SubSeq(proper[i].edges, 1, k - 1), IsOut))
                        ELSE proper[i].edges[k][2]
            Kept == IF "NOEXT" \in flags
                    THEN SelectSeq([k \in DOMAIN proper[i].edges |-> k],
                                   LAMBDA k : ~IsOut(proper[i].edges[k]))
                    ELSE [k \in DOMAIN proper[i].edges |-> k]
        IN [k \in DOMAIN Kept |-> Index(Kept[k])]
      Preds(n) == IF "NOPREDS" \in flags THEN <<>>
                  ELSE SetToSortSeq({i - 1 : i \in {j \in DOMAIN proper : n \in ToSet(Succs(j))}}, <)
  IN [nproper |-> Len(proper),
      blocks |->
        [i \in DOMAIN proper |->
           [start |-> proper[i].start, end |-> proper[i].end, kind |-> proper[i].kind,
            succ |-> Succs(i), pred |-> Preds(i - 1)]]
        \o [s \in DOMAIN stubs |->
              [start |-> stubs[s][2], end |-> stubs[s][2],
               kind |-> IF stubs[s][3] THEN FCB_ENORET ELSE FCB_EXTERN,
               succ |-> <<>>, pred |-> Preds(Len(proper) + s - 1)]]]

cfg_block(chart, n) == chart.blocks[n + 1]
cfg_succs(chart, n) == chart.blocks[n + 1].succ
cfg_preds(chart, n) == chart.blocks[n + 1].pred

ExternalExit(block) == [target |-> block.start, noreturn |-> block.kind = FCB_ENORET]
BasicBlock(block, succ, pred, exits) ==
  [range |-> <<block.start, block.end>>, kind |-> block.kind, succ |-> succ, pred |-> pred,
   exits |-> exits]

(* One index past the last proper block taken for a block of its own.      *)
StubAsBlock(chart, n, nproper) ==
  [succ |-> SelectSeq(cfg_succs(chart, n), LAMBDA j : j <= nproper),
   exits |-> LET outside == SelectSeq(cfg_succs(chart, n), LAMBDA j : j > nproper)
             IN [k \in DOMAIN outside |-> ExternalExit(cfg_block(chart, outside[k]))]]
successors(chart, n, nproper) ==
  [succ |-> SelectSeq(cfg_succs(chart, n), LAMBDA j : j < nproper),
   exits |-> LET outside == SelectSeq(cfg_succs(chart, n), LAMBDA j : j >= nproper)
             IN [k \in DOMAIN outside |-> ExternalExit(cfg_block(chart, outside[k]))]]
predecessors(chart, n, nproper) == SelectSeq(cfg_preds(chart, n), LAMBDA j : j < nproper)

(* The first unknown kind ends the extraction with its error.              *)
extract(chart) ==
  LET unknown == {n \in 0..(chart.nproper - 1) : cfg_block(chart, n).kind \notin BasicBlockKind}
      Block(n) == LET flow == successors(chart, n, chart.nproper)
                  IN BasicBlock(cfg_block(chart, n), flow.succ,
                                predecessors(chart, n, chart.nproper), flow.exits)
  IN IF unknown # {}
     THEN [error |-> "UnknownBlockKind",
           block |-> cfg_block(chart, CHOOSE n \in unknown : \A m \in unknown : n <= m).start]
     ELSE [blocks |-> [k \in 1..chart.nproper |-> Block(k - 1)]]

(* The entry is always block 0.                                            *)
FlowChart(blocks, function) == [blocks |-> blocks, entry |-> 0, function |-> function]
Charted(extracted, a) ==
  IF "error" \in DOMAIN extracted THEN extracted
  ELSE FlowChart(extracted.blocks,
                 IF extracted.blocks = <<>> THEN a ELSE extracted.blocks[1].range[1])
build_flowchart(a, flags) ==
  IF FunctionsAt(Image, a) = {} THEN [error |-> "NoFunction"]
  ELSE Charted(extract(qflow_chart(get_func(Image, a), flags)), a)

block_at(chart, a) ==
  LET holding == {k \in DOMAIN chart.blocks :
                    chart.blocks[k].range[1] <= a /\ a < chart.blocks[k].range[2]}
  IN IF holding = {} THEN None ELSE Some((CHOOSE k \in holding : \A m \in holding : k <= m) - 1)
-----------------------------------------------------------------------------
(* Search patterns.  A nibble's mask is 0xF or 0.                          *)

Digits == {"0", "1"}
Value(c) == IF c = "1" THEN 1 ELSE 0
nibble(c) == CASE c = "?" -> Some([v |-> 0, m |-> FALSE])
               [] c \in Digits -> Some([v |-> Value(c), m |-> TRUE])
               [] OTHER -> None

parse_hex_token(tok) ==
  CASE Len(tok) = 1 /\ nibble(tok[1]) # None ->
         LET d == nibble(tok[1])[1] IN Some([byte |-> <<0, d.v>>, mask |-> <<d.m, d.m>>])
    [] Len(tok) = 2 /\ nibble(tok[1]) # None /\ nibble(tok[2]) # None ->
         LET h == nibble(tok[1])[1] l == nibble(tok[2])[1]
         IN Some([byte |-> <<h.v, l.v>>, mask |-> <<h.m, l.m>>])
    [] OTHER -> None

FirstBad(parsed) == CHOOSE k \in DOMAIN parsed :
                      parsed[k] = None /\ \A m \in 1..(k - 1) : parsed[m] # None
Rejected(kind) == [rejected |-> kind]
IsRejected(result) == "rejected" \in DOMAIN result

parse_hex(text) ==
  LET parsed == [k \in DOMAIN text |-> parse_hex_token(text[k])]
  IN IF None \in ToSet(parsed) THEN Rejected(<<"BadToken", FirstBad(parsed) - 1>>)
     ELSE [bytes |-> [k \in DOMAIN text |-> parsed[k][1].byte],
           mask |-> [k \in DOMAIN text |-> parsed[k][1].mask]]

parse_mask(mask) ==
  LET parsed == [k \in DOMAIN mask |->
                   CASE mask[k] \in {"x", "X"} -> Some(<<TRUE, TRUE>>)
                     [] mask[k] \in {"?", "."} -> Some(<<FALSE, FALSE>>)
                     [] OTHER -> None]
  IN IF None \in ToSet(parsed) THEN Rejected(<<"BadMaskChar", FirstBad(parsed) - 1>>)
     ELSE [mask |-> [k \in DOMAIN mask |-> parsed[k][1]]]

Concrete(m) == m # <<FALSE, FALSE>>
count_anchors(length, mask) == IF mask = None THEN length ELSE Len(SelectSeq(mask[1], Concrete))

(* An empty mask tells the facade that every byte is concrete.             *)
binpat_from_bytes(bytes, mask) == [bytes |-> bytes, mask |-> mask]
from_parts(bytes, mask) ==
  IF count_anchors(Len(bytes), mask) = 0 THEN Rejected(<<"NoAnchor", Len(bytes)>>)
  ELSE [pat |-> binpat_from_bytes(bytes, IF mask = None THEN <<>> ELSE mask[1]),
        flags |-> {"BITMASK"}]

hex(text) == LET parsed == parse_hex(text)
             IN IF IsRejected(parsed) THEN parsed ELSE from_parts(parsed.bytes, Some(parsed.mask))
MatchingLength(data, mask) == Len(data) = Len(mask)
code_mask(code, mask) ==
  LET parsed == parse_mask(mask)
  IN CASE IsRejected(parsed) -> parsed
       [] ~IsRejected(parsed) /\ ~MatchingLength(code, parsed.mask) ->
            Rejected(<<"MaskMismatch", Len(code), Len(parsed.mask)>>)
       [] OTHER -> from_parts(code, Some(parsed.mask))
bytes(data, mask) ==
  IF mask # None /\ ~MatchingLength(data, mask[1])
  THEN Rejected(<<"MaskMismatch", Len(data), Len(mask[1])>>)
  ELSE from_parts(data, mask)

Unparseable == [bytes |-> <<>>, mask |-> <<>>, error |-> TRUE]
binpat_stats(pat) == [total |-> Len(pat.bytes),
                      anchors |-> IF pat.mask = <<>> THEN Len(pat.bytes)
                                  ELSE Len(SelectSeq(pat.mask, Concrete))]
ida(pat, case_sensitive) ==
  CASE pat = Unparseable -> Rejected(<<"Unparseable">>)
    [] pat # Unparseable /\ binpat_stats(pat).anchors = 0 ->
         Rejected(<<"NoAnchor", binpat_stats(pat).total>>)
    [] OTHER -> [pat |-> pat, flags |-> IF case_sensitive THEN {"CASE"} ELSE {}]

(* The kernel's search: the first match that lies in [start, end).  Under  *)
(* BITMASK bits are compared under the mask; without it a masked byte is   *)
(* skipped whole, and without CASE two letters of one case class agree.    *)
Fold(b) == <<0, b[2]>>
ByteAgrees(have, want, mask, flags) ==
  IF "BITMASK" \in flags THEN \A n \in 1..2 : mask[n] => have[n] = want[n]
  ELSE Concrete(mask) => IF "CASE" \in flags THEN have = want ELSE Fold(have) = Fold(want)
MatchAt(img, a, pat, flags) ==
  \A k \in DOMAIN pat.bytes :
    /\ a + k - 1 \in DOMAIN img.bytes
    /\ ByteAgrees(img.bytes[a + k - 1], pat.bytes[k],
                  IF pat.mask = <<>> THEN <<TRUE, TRUE>> ELSE pat.mask[k], flags)
bin_search(start, end, pat, flags) ==
  LET hits == {a \in start..(end - Len(pat.bytes)) : MatchAt(Image, a, pat, flags)}
  IN IF hits = {} THEN BADADDR ELSE CHOOSE a \in hits : \A b \in hits : a <= b
-----------------------------------------------------------------------------
(* The iterators.  Stepped(it, item) is what one call of next leaves and   *)
(* answers.                                                                *)

Stepped(it, item) == [it |-> it, item |-> item]

(* A counted list of the kernel's, read by index as it goes; an entry that *)
(* Item gives None for is skipped.                                         *)
Counted(count) == [next |-> 0, count |-> count]
NextListed(it, Item(_)) ==
  LET found == {n \in it.next..(it.count - 1) : Item(n) # None}
      n == CHOOSE m \in found : \A k \in found : m <= k
  IN IF found = {} THEN Stepped([it EXCEPT !.next = it.count], None)
     ELSE Stepped([it EXCEPT !.next = n + 1], Item(n))

func_ea(n) == Image.func_list[n + 1]
FunctionsNext(it) == LET Item(n) == try_new(func_ea(n)) IN NextListed(it, Item)
SegmentsNext(it) == LET Item(n) == Some(n) IN NextListed(it, Item)
ExportsNext(it) ==
  LET Item(n) == Some([index |-> n, address |-> try_new(Image.exports[n + 1])])
  IN NextListed(it, Item)

(* A name the kernel cannot give reads as the empty string.                *)
NamesNext(it) ==
  LET Row(n) == Image.names[n + 1]
      Item(n) == IF try_new(Row(n).ea) = None THEN None
                 ELSE Some([address |-> Row(n).ea,
                            name |-> IF Row(n).name = None THEN "" ELSE Row(n).name[1]])
  IN NextListed(it, Item)

(* The kernel's list of the strings it finds, with their type code: the    *)
(* width in the two low bits, the layout above them.                       *)
build_strlist(img) ==
  [k \in DOMAIN img.strings |->
     [ea |-> img.strings[k].ea, length |-> img.strings[k].length,
      type |-> img.strings[k].width + 4 * img.strings[k].layout]]
char_width_of(type) == 2 ^ (type % 4)
is_pascal_of(type) == (type % 256) \div 4 \in 1..3

(* Entry n of the global list as it is now, None past its end.             *)
StringItem(n) ==
  IF n >= Len(strlist) THEN None
  ELSE LET item == strlist[n + 1]
       IN IF try_new(item.ea) = None THEN None
          ELSE Some([address |-> item.ea, length |-> IF item.length < 0 THEN 0 ELSE item.length,
                     char_width |-> char_width_of(item.type),
                     is_pascal |-> is_pascal_of(item.type)])
StringsNext(it) == NextListed(it, StringItem)

(* An owned vector: the rest of it.                                        *)
VecNext(it) == IF it = <<>> THEN Stepped(<<>>, None) ELSE Stepped(Tail(it), Some(Head(it)))

(* The import table: no name is empty, no ordinal is 0.                    *)
imports_build ==
  LET AddModule(rows, m) ==
        rows \o [k \in DOMAIN m.rows |->
                   [ea |-> m.rows[k].ea, module |-> m.module,
                    ord |-> IF m.rows[k].ord = None THEN 0 ELSE m.rows[k].ord[1],
                    name |-> IF m.rows[k].name = None THEN "" ELSE m.rows[k].name[1]]]
  IN FoldLeft(AddModule, <<>>, Image.imports)
Import(rec) == [address |-> rec.ea, ordinal |-> Unless(rec.ord, 0),
                name |-> Unless(rec.name, ""), module |-> rec.module]
Imports ==
  LET kept == SelectSeq(imports_build, LAMBDA rec : try_new(rec.ea) # None)
  IN [k \in DOMAIN kept |-> Import(kept[k])]

(* Cross-references: the records are owned, the conversion is lazy.        *)
CodeXref == [t \in {0} \cup 16..21 |-> t]
DataXref == [t \in 0..6 |-> t]
OrdinaryFlow == <<"Code", 21>>
xrefs_build(a, is_to, flow) ==
  LET kept == SelectSeq(Image.xrefs, LAMBDA x : /\ a = IF is_to THEN x.to ELSE x.from
                                                /\ flow \/ x.kind # OrdinaryFlow)
  IN [k \in DOMAIN kept |->
        [from |-> kept[k].from, to |-> kept[k].to, type |-> kept[k].kind[2],
         iscode |-> kept[k].kind[1] = "Code", user |-> kept[k].origin = "User"]]
XrefKind(type, iscode) == IF iscode THEN <<"Code", CodeXref[type]>> ELSE <<"Data", DataXref[type]>>
XrefOrigin(user) == IF user THEN "User" ELSE "Analysis"
Xref(rec) ==
  IF \/ try_new(rec.from) = None \/ try_new(rec.to) = None
     \/ rec.type \notin DOMAIN (IF rec.iscode THEN CodeXref ELSE DataXref)
  THEN None
  ELSE Some([from |-> rec.from, to |-> rec.to,
             kind |-> XrefKind(rec.type, rec.iscode), origin |-> XrefOrigin(rec.user)])
XrefsNext(it) ==
  LET found == {k \in DOMAIN it : Xref(it[k]) # None}
      k == CHOOSE m \in found : \A j \in found : m <= j
  IN IF found = {} THEN Stepped(<<>>, None)
     ELSE Stepped(SubSeq(it, k + 1, Len(it)), Xref(it[k]))

(* Instructions, over items: the end of the item that holds an address,    *)
(* its class byte there, and what the processor module decodes there.  An  *)
(* iterator's instruction is known by its address.                         *)
byte_class(a) == Image.items[a].class
is_code(a) == byte_class(a) = "code"
item_end(a) == LET end == try_new(Image.items[a].end) IN IF end = None THEN a ELSE end[1]
decode(a) == Insn!classify(Insn!decode_insn(Image.processor, Image.is64, Image.items[a].insn), a)
decoded(a) == IF Insn!IsOk(decode(a)) THEN Some(decode(a).ok.address) ELSE None

(* The address after the item at a, or the end of the walk when the item   *)
(* has no width.                                                           *)
StepItem(a, end) == IF item_end(a) > a THEN item_end(a) ELSE end

RECURSIVE InstructionsInNext(_), InstructionsNext(_)
InstructionsInNext(it) ==
  IF it.cursor >= it.end THEN Stepped(it, None)
  ELSE LET moved == [it EXCEPT !.cursor = StepItem(it.cursor, it.end)]
       IN IF is_code(it.cursor) /\ decoded(it.cursor) # None
          THEN Stepped(moved, decoded(it.cursor))
          ELSE InstructionsInNext(moved)

InstructionsNext(it) ==
  IF it.cursor = None \/ it.cursor[1] >= it.cursor[2]
  THEN IF it.chunks = <<>> THEN Stepped(it, None)
       ELSE InstructionsNext([chunks |-> Tail(it.chunks), cursor |-> Head(it.chunks)])
  ELSE LET a == it.cursor[1]
           moved == [it EXCEPT !.cursor[1] = StepItem(a, it.cursor[2])]
       IN IF is_code(a) /\ decoded(a) # None THEN Stepped(moved, decoded(a))
          ELSE InstructionsNext(moved)

(* Matches: one byte past a hit, so that overlapping hits are all seen.    *)
MatchesNext(it) ==
  IF it.cur = None THEN Stepped(it, None)
  ELSE IF it.cur[1] >= it.end THEN Stepped([it EXCEPT !.cur = None], None)
  ELSE LET hit == try_new(bin_search(it.cur[1], it.end, it.pattern.pat, it.pattern.flags))
       IN IF hit = None THEN Stepped([it EXCEPT !.cur = None], None)
          ELSE Stepped([it EXCEPT !.cur = Some(Add(hit[1], 1))], hit)

MatchesEmpty(pattern) == [pattern |-> pattern, cur |-> None, end |-> 0]
search_in(range, pattern) == [pattern |-> pattern, cur |-> Some(range[1]), end |-> range[2]]
address_range == IF try_new(Image.min_ea) = None \/ try_new(Image.max_ea) = None THEN None
                 ELSE Some(<<Image.min_ea, Image.max_ea>>)
search(pattern) == IF address_range = None THEN MatchesEmpty(pattern)
                   ELSE search_in(address_range[1], pattern)
-----------------------------------------------------------------------------
(* What callers do.  A slot records what was asked, of which image, the    *)
(* iterator or the value, what it yielded and whether it ended.            *)

Free == [kind |-> "free"]
Hold(s, kind, ask, it) ==
  /\ slots[s] = Free /\ kind \in MayHold[s]
  /\ slots' = [slots EXCEPT ![s] = [kind |-> kind, ask |-> ask, made |-> db,
                                    it |-> it, out |-> <<>>, done |-> FALSE]]
  /\ UNCHANGED db

functions(s) == Hold(s, "functions", <<>>, Counted(Len(Image.func_list))) /\ UNCHANGED strlist
segments(s) == Hold(s, "segments", <<>>, Counted(Len(Image.segments))) /\ UNCHANGED strlist
names(s) == Hold(s, "names", <<>>, Counted(Len(Image.names))) /\ UNCHANGED strlist
exports(s) == Hold(s, "exports", <<>>, Counted(Len(Image.exports))) /\ UNCHANGED strlist
imports(s) == Hold(s, "imports", <<>>, Imports) /\ UNCHANGED strlist

(* The string list as the last builder left it.                            *)
StringsUnbuilt(s) == Hold(s, "strings", <<>>, Counted(Len(strlist))) /\ UNCHANGED strlist
strings(s) == /\ strlist' = build_strlist(Image)
              /\ Hold(s, "strings", <<>>, Counted(Len(strlist')))

xrefs(s) == \E a \in Address, is_to, flow \in BOOLEAN :
  Hold(s, "xrefs", <<a, is_to, flow>>, xrefs_build(a, is_to, flow)) /\ UNCHANGED strlist
chunks(s) == \E a \in Address : Hold(s, "chunks", a, FunctionChunks(a)) /\ UNCHANGED strlist
instructions(s) == \E a \in Address :
  /\ Hold(s, "instructions", a, [chunks |-> FunctionChunks(a), cursor |-> None])
  /\ UNCHANGED strlist
instructions_in(s) == \E range \in Ranges :
  /\ Hold(s, "instructions_in", range, [cursor |-> range[1], end |-> range[2]])
  /\ UNCHANGED strlist

(* A pattern, built in one of the four ways, and a search over a range or  *)
(* over the whole image; a rejected pattern is the answer itself.          *)
Compiled == {[text |-> <<"hex", text>>, result |-> hex(text)] : text \in HexTexts}
  \cup {[text |-> <<"code", c>>, result |-> code_mask(c[1], c[2])] : c \in CodeMasks}
  \cup {[text |-> <<"bytes", c>>, result |-> bytes(c[1], c[2])] : c \in ByteMasks}
  \cup {[text |-> <<"ida", <<pat, case>> >>, result |-> ida(pat, case)] :
          pat \in IdaPatterns, case \in BOOLEAN}
Search(s) == \E p \in Compiled :
  /\ UNCHANGED strlist
  /\ \/ IsRejected(p.result) /\ Hold(s, "rejected", p.text, p.result)
     \/ ~IsRejected(p.result) /\ Hold(s, "matches", <<p.text, None>>, search(p.result))
     \/ /\ ~IsRejected(p.result)
        /\ \E range \in Ranges :
             Hold(s, "matches", <<p.text, Some(range)>>, search_in(range, p.result))

(* The point queries at an address, and the charts.                        *)
function(a) == IF function_at(a) = None THEN None ELSE Some(FunctionView(function_at(a)[1]))
Reads(s) == \E a \in Address, name \in BOOLEAN :
  /\ Hold(s, "reads", <<a, name>>,
          [function |-> function(a), segment |-> segment_at(a), entry |-> entry_with(a, name),
           decode |-> decode(a), frame |-> frame(a)])
  /\ UNCHANGED strlist
flowchart_with(s) == \E a \in Address, call_ends, externals, preds \in BOOLEAN :
  /\ Hold(s, "chart", <<a, call_ends, externals, preds>>,
          build_flowchart(a, flowchart_flags(call_ends, externals, preds)))
  /\ UNCHANGED strlist

NextOf(slot) ==
  CASE slot.kind = "functions" -> FunctionsNext(slot.it)
    [] slot.kind = "segments" -> SegmentsNext(slot.it)
    [] slot.kind = "names" -> NamesNext(slot.it)
    [] slot.kind = "exports" -> ExportsNext(slot.it)
    [] slot.kind = "strings" -> StringsNext(slot.it)
    [] slot.kind \in {"imports", "chunks"} -> VecNext(slot.it)
    [] slot.kind = "xrefs" -> XrefsNext(slot.it)
    [] slot.kind = "instructions" -> InstructionsNext(slot.it)
    [] slot.kind = "instructions_in" -> InstructionsInNext(slot.it)
    [] slot.kind = "matches" -> MatchesNext(slot.it)

Values == {"free", "rejected", "reads", "chart"}
Take(s, step) == slots' = [slots EXCEPT ![s].it = step.it, ![s].out = @ \o step.item,
                                        ![s].done = step.item = None]
next(s) == /\ slots[s].kind \notin Values /\ ~slots[s].done
           /\ Take(s, NextOf(slots[s]))
           /\ UNCHANGED <<db, strlist>>
Drop(s) == /\ slots[s] # Free
           /\ slots' = [slots EXCEPT ![s] = Free]
           /\ UNCHANGED <<db, strlist>>

(* A write needs the database to itself: no borrowing iterator lives.  It  *)
(* leaves the string list as it was.                                       *)
Borrowing == {"functions", "segments", "names", "exports", "strings",
              "instructions", "instructions_in", "matches"}
Edit == /\ \A s \in Slots : slots[s].kind \notin Borrowing
        /\ db' \in DOMAIN Images \ {db}
        /\ UNCHANGED <<strlist, slots>>

Init == db \in DOMAIN Images /\ strlist = <<>> /\ slots = [s \in Slots |-> Free]

Next ==
  \/ \E s \in Slots :
       \/ functions(s) \/ segments(s) \/ names(s) \/ exports(s) \/ imports(s) \/ strings(s)
       \/ xrefs(s) \/ chunks(s) \/ instructions(s) \/ instructions_in(s)
       \/ Search(s) \/ Reads(s) \/ flowchart_with(s) \/ next(s) \/ Drop(s)
  \/ Edit

Spec == Init /\ [][Next]_vars
-----------------------------------------------------------------------------
(* The references, said of an image and not of how it is walked.           *)

SortedSeq(set) == SetToSortSeq(set, <)
CodeHeads(img, range) ==
  SortedSeq({a \in range[1]..(range[2] - 1) :
               /\ img.items[a].class = "code" /\ img.processor = "386"
               /\ \E insn \in ToSet(img.items[a].insn) : Insn!Decodable(insn)})

(* The bytes that a pattern allows at its k-th place, from its text.       *)
Byte == {0, 1} \X {0, 1}
Said(text, k) ==
  CASE text[1] = "hex" ->
         LET tok == text[2][k]
             Agree(c, n) == c = "?" \/ n = Value(c)
         IN {b \in Byte : IF Len(tok) = 2 THEN Agree(tok[1], b[1]) /\ Agree(tok[2], b[2])
                          ELSE tok[1] = "?" \/ b = <<0, Value(tok[1])>>}
    [] text[1] = "code" -> IF text[2][2][k] \in {"?", "."} THEN Byte ELSE {text[2][1][k]}
    [] text[1] = "bytes" ->
         {b \in Byte : \A n \in 1..2 : (text[2][2] = None \/ text[2][2][1][k][n])
                                         => b[n] = text[2][1][k][n]}
    [] text[1] = "ida" ->
         {b \in Byte : \/ text[2][1].mask # <<>> /\ ~Concrete(text[2][1].mask[k])
                       \/ b = text[2][1].bytes[k]
                       \/ ~text[2][2] /\ b[2] = text[2][1].bytes[k][2]}
Length(text) == CASE text[1] = "hex" -> Len(text[2])
                  [] text[1] \in {"code", "bytes"} -> Len(text[2][1])
                  [] text[1] = "ida" -> Len(text[2][1].bytes)
Hits(img, text, range) ==
  SortedSeq({a \in range[1]..(range[2] - Length(text)) :
               \A k \in 1..Length(text) :
                 a + k - 1 \in DOMAIN img.bytes /\ img.bytes[a + k - 1] \in Said(text, k)})

Kept(seq) == SelectSeq(seq, LAMBDA row : row.ea # BADADDR)
Known(x) == x.from # BADADDR /\ x.to # BADADDR
              /\ x.kind[2] \in IF x.kind[1] = "Code" THEN {0} \cup 16..21 ELSE 0..6
ChunksAt(img, a) == IF FunctionsAt(img, a) = {} THEN <<>> ELSE ChunksOf(get_func(img, a))
Whole(img) == IF img.min_ea = BADADDR THEN <<0, 0>> ELSE <<img.min_ea, img.max_ea>>

Listed(kind, img) ==
  CASE kind = "functions" -> SelectSeq(img.func_list, LAMBDA ea : ea # BADADDR)
    [] kind = "segments" -> [k \in DOMAIN img.segments |-> k - 1]
    [] kind = "exports" ->
         [k \in DOMAIN img.exports |->
            [index |-> k - 1, address |-> SelectSeq(<<img.exports[k]>>, LAMBDA ea : ea # BADADDR)]]
    [] kind = "names" ->
         LET rows == Kept(img.names)
         IN [k \in DOMAIN rows |->
               [address |-> rows[k].ea, name |-> IF rows[k].name = None THEN "" ELSE rows[k].name[1]]]
    [] kind = "strings" ->
         LET rows == Kept(img.strings)
         IN [k \in DOMAIN rows |->
               [address |-> rows[k].ea, length |-> IF rows[k].length > 0 THEN rows[k].length ELSE 0,
                char_width |-> <<1, 2, 4>>[rows[k].width + 1], is_pascal |-> rows[k].layout # 0]]
    [] kind = "imports" ->
         LET AddModule(rows, m) ==
               LET more == Kept(m.rows)
               IN rows \o [k \in DOMAIN more |->
                             [address |-> more[k].ea, ordinal |-> more[k].ord,
                              name |-> more[k].name, module |-> m.module]]
         IN FoldLeft(AddModule, <<>>, img.imports)

Expected(slot, img) ==
  CASE slot.kind = "chunks" -> ChunksAt(img, slot.ask)
    [] slot.kind = "instructions" ->
         LET AddHeads(heads, range) == heads \o CodeHeads(img, range)
         IN FoldLeft(AddHeads, <<>>, ChunksAt(img, slot.ask))
    [] slot.kind = "instructions_in" -> CodeHeads(img, slot.ask)
    [] slot.kind = "matches" ->
         Hits(img, slot.ask[1], IF slot.ask[2] = None THEN Whole(img) ELSE slot.ask[2][1])
    [] slot.kind = "xrefs" ->
         SelectSeq(img.xrefs, LAMBDA x : /\ slot.ask[1] = IF slot.ask[2] THEN x.to ELSE x.from
                                         /\ slot.ask[3] \/ x.kind # OrdinaryFlow
                                         /\ Known(x))
    [] OTHER -> Listed(slot.kind, img)

(* Every iterator yields exactly what it is named for, in order, each once, *)
(* and then ends: the matches that overlap, the instructions across tail    *)
(* chunks and past data and the item at the top of the address space, the   *)
(* strings of the program as it is and not as an earlier list had them; the *)
(* owned ones those of the moment they were made, whatever was written or   *)
(* opened since.  (The `next` of search.rs, instruction/iter.rs,            *)
(* function.rs, strings.rs, xref.rs and the others.)                        *)
YieldsAll(slot, all) == IsPrefix(slot.out, all) /\ (slot.done => slot.out = all)
YieldsExact ==
  \A s \in Slots : slots[s].kind \notin Values =>
    YieldsAll(slots[s], Expected(slots[s], Images[slots[s].made]))

(* A chart against the flow of the function: block by block the same       *)
(* extents and kinds, the inner edges as block ids and the outer ones as   *)
(* exits, each predecessor list the inverse of the successors.             *)
InnerEdge(edge) == ~IsOut(edge)
ChartOf(f, blocks, externals, preds, chart) ==
  /\ chart.function = f.start /\ block_at(chart, f.start) = Some(chart.entry)
  /\ Len(chart.blocks) = Len(blocks)
  /\ \A k \in DOMAIN blocks :
       LET b == chart.blocks[k]
           inner == SelectSeq(blocks[k].edges, InnerEdge)
           outer == IF externals THEN SelectSeq(blocks[k].edges, IsOut) ELSE <<>>
       IN /\ b.range = <<blocks[k].start, blocks[k].end>> /\ b.kind = blocks[k].kind
          /\ b.succ = [n \in DOMAIN inner |-> inner[n][2]]
          /\ b.exits = [n \in DOMAIN outer |-> [target |-> outer[n][2], noreturn |-> outer[n][3]]]
          /\ preds => \A j \in DOMAIN blocks :
               (j - 1 \in ToSet(b.pred)) <=> (k - 1 \in ToSet(chart.blocks[j].succ))
          /\ ~preds => b.pred = <<>>
          /\ \A a \in b.range[1]..(b.range[2] - 1) : block_at(chart, a) = Some(k - 1)

ChartFaithful(ask, img, chart) ==
  LET f == get_func(img, ask[1])
      blocks == f.blocks[IF ask[2] THEN "split" ELSE "whole"]
      odd == {k \in DOMAIN blocks : blocks[k].kind \notin BasicBlockKind}
  IN CASE FunctionsAt(img, ask[1]) = {} -> chart = [error |-> "NoFunction"]
       [] FunctionsAt(img, ask[1]) # {} /\ odd # {} ->
            /\ "error" \in DOMAIN chart
            /\ \E k \in odd : chart.block = blocks[k].start /\ \A m \in odd : k <= m
       [] OTHER -> ChartOf(f, blocks, ask[3], ask[4], chart)

ReadsFaithful(ask, img, r) ==
  LET in == FunctionsAt(img, ask[1])
      segs == SegmentsAt(img, ask[1])
      Text(text) == IF text = "" THEN None ELSE Some(text)
  IN /\ in = {} => r.function = None /\ r.entry = None /\ r.frame = [frame |-> None]
     /\ \A f \in in :
          /\ r.function =
               Some([address |-> f.start, name |-> <<f.named, f.name>>, end |-> Some(f.end),
                     size |-> f.end - f.start,
                     total_size |-> Cardinality({a \in Address : Covers(f, a)}),
                     comment |-> Text(f.cmt), repeatable_comment |-> Text(f.rptcmt),
                     does_return |-> f.returns,
                     bitness |-> IF f.bits \in {16, 32, 64} THEN Some(f.bits) ELSE None,
                     is_lib |-> "LIB" \in f.flags, is_thunk |-> "THUNK" \in f.flags,
                     is_noreturn |-> "NORET" \in f.flags])
          /\ Frame!FrameFaithful(f.udt, r.frame)
          /\ r.entry = Some([address |-> f.start, end |-> f.end, frame_id |-> f.frame,
                             color |-> f.color,
                             name |-> IF ask[2] THEN Text(f.name) ELSE None])
     /\ IF segs = {} THEN r.segment = None
        ELSE \E n \in segs, view \in ToSet(r.segment) :
               view.index = n - 1 /\ Seg!ViewFaithful(img.segments[n], ask[1], img.bytes, view)
     /\ Insn!DecodeFaithful(img.processor, img.items[ask[1]].insn, ask[1], r.decode)

(* A pattern is rejected for its first bad token or mask character, for a  *)
(* mask of another length, or for saying nothing of any byte.              *)
BadToken(tok) == Len(tok) \notin 1..2 \/ ~(ToSet(tok) \subseteq Digits \cup {"?"})
FirstIs(seq, Bad(_), n) == n + 1 \in DOMAIN seq /\ Bad(seq[n + 1]) /\ \A m \in 1..n : ~Bad(seq[m])
SaysNothing(text) == \A k \in 1..Length(text) : Said(text, k) = Byte
RejectedRightly(text, why) ==
  CASE why[1] = "BadToken" -> text[1] = "hex" /\ FirstIs(text[2], BadToken, why[2])
    [] why[1] = "BadMaskChar" ->
         text[1] = "code" /\ FirstIs(text[2][2], LAMBDA c : c \notin {"x", "X", "?", "."}, why[2])
    [] why[1] = "MaskMismatch" ->
         \/ text[1] = "code" /\ Len(text[2][1]) # Len(text[2][2])
         \/ text[1] = "bytes" /\ Len(text[2][1]) # Len(text[2][2][1])
    [] why[1] = "NoAnchor" -> SaysNothing(text) /\ why[2] = Length(text)
    [] why[1] = "Unparseable" -> text[1] = "ida" /\ text[2][1] = Unparseable

(* A value handed out owned says what the database said when it was made,   *)
(* after any edit: a flow chart has the function's own blocks and edges and *)
(* no block of another function, its two edge lists agree, an outside jump  *)
(* is an exit (flowchart.rs, extract and successors); an entry, a name, a   *)
(* size, a frame or a segment is the function's or the segment's at the     *)
(* address (function.rs, stack.rs, segment.rs), an instruction the kernel's *)
(* there or the error of the operand at fault (decode.rs); a pattern is refused for a fault it has       *)
(* (search.rs).                                                             *)
ValuesFaithful ==
  \A s \in Slots :
    /\ slots[s].kind = "chart" => ChartFaithful(slots[s].ask, Images[slots[s].made], slots[s].it)
    /\ slots[s].kind = "reads" => ReadsFaithful(slots[s].ask, Images[slots[s].made], slots[s].it)
    /\ slots[s].kind = "rejected" => RejectedRightly(slots[s].ask, slots[s].it.rejected)
=============================================================================

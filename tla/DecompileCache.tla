--------------------------- MODULE DecompileCache ---------------------------
(***************************************************************************)
(* Opening and closing a database, and keeping Hex-Rays' cache of          *)
(* decompiled functions in step with the edits made through the cursors    *)
(* `LocationMut` and `FunctionEdit`: what each write queues, what the      *)
(* cursor's drop evicts, and the `hexrays_ready` flag that gates both.     *)
(*                                                                         *)
(* The program is a set of addresses, the functions they belong to and the *)
(* cross-references between them.  A cached text is not kept, only whether *)
(* something it was printed from has changed since.  The cursor borrows    *)
(* the `Database`, so nothing else happens while one is alive.             *)
(***************************************************************************)
EXTENDS Naturals, FiniteSets

CONSTANTS Addr,       \* the mapped addresses
          NoAddr,     \* BADADDR, and no cursor
          FuncStart,  \* FuncStart[a]: the entry of the function holding a
          Xref,       \* the cross-references, [from, to, code]
          MaxPatch,   \* the longest patch, in addresses
          Reopens     \* whether `open` is called on an open database

Func == {f \in Addr : FuncStart[f] = f}

ASSUME ProgramAssumption ==
  /\ Addr \subseteq Nat
  /\ NoAddr \notin Addr
  /\ FuncStart \in [Addr -> Addr \cup {NoAddr}]
  /\ \A a \in Addr : FuncStart[a] \in Func \cup {NoAddr}
  /\ Xref \subseteq [from : Addr, to : Addr, code : BOOLEAN]
  /\ MaxPatch \in Nat
  /\ Reopens \in BOOLEAN

VARIABLES
  isOpen,     \* Database::is_open
  hexReady,   \* Database::hexrays_ready
  hexLoaded,  \* Hex-Rays: initialized for the database now open
  cached,     \* Hex-Rays: the functions with a cached decompilation
  behind,     \* those whose text no longer matches the database
  at,         \* the address of the live cursor
  auto,       \* its `auto_invalidate`
  pending,    \* its `pending`
  owed        \* an opted-out cursor left evictions to the caller

vars == <<isOpen, hexReady, hexLoaded, cached, behind, at, auto, pending, owed>>

database == <<isOpen, hexReady, hexLoaded>>
cursor   == <<at, auto, pending>>

Init ==
  /\ isOpen = FALSE /\ hexReady = FALSE /\ hexLoaded = FALSE
  /\ cached = {} /\ behind = {}
  /\ at = NoAddr /\ auto = TRUE /\ pending = "none"
  /\ owed = FALSE

Free == at = NoAddr

(***************************************************************************)
(* Database::open and close.                                               *)
(***************************************************************************)
\* Another program is loaded.  Hex-Rays keys its cache by address, so what
\* it still holds belongs to the last one.
Open ==
  /\ Free
  /\ ~isOpen \/ Reopens
  /\ isOpen' = TRUE
  /\ hexLoaded' = FALSE
  /\ behind' = cached
  /\ UNCHANGED <<hexReady, cached, cursor, owed>>

Evict(fs) ==
  /\ cached' = cached \ fs
  /\ behind' = behind \ fs

\* Mutant: the flag is reset before the cache is cleared.
CloseResetsFirst ==
  /\ Free /\ isOpen
  /\ isOpen' = FALSE /\ hexReady' = FALSE /\ hexLoaded' = FALSE
  /\ owed' = FALSE
  /\ UNCHANGED <<cached, behind, cursor>>

\* Mutant: `hexrays_ready` is left for the next database.
CloseKeepsReady ==
  /\ Free /\ isOpen
  /\ Evict(IF hexReady THEN cached ELSE {})
  /\ isOpen' = FALSE /\ hexLoaded' = FALSE
  /\ owed' = FALSE
  /\ UNCHANGED <<hexReady, cursor>>

Close ==
  /\ Free /\ isOpen
  /\ Evict(IF hexReady THEN cached ELSE {})
  /\ isOpen' = FALSE /\ hexReady' = FALSE /\ hexLoaded' = FALSE
  /\ owed' = FALSE
  /\ UNCHANGED cursor

(***************************************************************************)
(* Database::decompile, and eviction by hand.                              *)
(***************************************************************************)
\* Mutant: the cache is keyed by the address asked for.
DecompileByAddress(a) ==
  /\ Free /\ isOpen /\ FuncStart[a] # NoAddr
  /\ hexReady' = TRUE
  /\ hexLoaded' = (hexLoaded \/ ~hexReady)
  /\ cached' = cached \cup {a}
  /\ UNCHANGED <<isOpen, behind, cursor, owed>>

\* Hex-Rays is initialized on first use; a function that is cached is not
\* decompiled again.
Decompile(a) ==
  /\ Free /\ isOpen /\ FuncStart[a] # NoAddr
  /\ hexReady' = TRUE
  /\ hexLoaded' = (hexLoaded \/ ~hexReady)
  /\ cached' = cached \cup {FuncStart[a]}
  /\ UNCHANGED <<isOpen, behind, cursor, owed>>

\* Hex-Rays comes up and then refuses the function, or traps.
DecompileFails(a) ==
  /\ Free /\ isOpen
  /\ hexReady' = TRUE
  /\ hexLoaded' = (hexLoaded \/ ~hexReady)
  /\ UNCHANGED <<isOpen, cached, behind, cursor, owed>>

InvalidateDecompilation(a) ==
  /\ Free /\ isOpen /\ hexReady
  /\ Evict({a})
  /\ UNCHANGED <<database, cursor, owed>>

ClearDecompilationCache ==
  /\ Free /\ isOpen /\ hexReady
  /\ Evict(cached)
  /\ owed' = FALSE
  /\ UNCHANGED <<database, cursor>>

(***************************************************************************)
(* What a function's text is printed from: the bytes of its own body, the  *)
(* name and type of its entry and of what it refers to, the bytes of what  *)
(* it refers to (a constant, a jump table), and its parameters' names.     *)
(***************************************************************************)
Referred(f) == {x.to : x \in {y \in Xref : FuncStart[y.from] = f}}

Prints(f, what, a) ==
  CASE what = "name"  -> a = f \/ a \in Referred(f)
    [] what = "bytes" -> FuncStart[a] = f \/ a \in Referred(f)
    [] what = "local" -> a = f

Changed(what, as) ==
  {f \in cached : \E a \in as : Prints(f, what, a)}

(***************************************************************************)
(* The cursors.                                                            *)
(***************************************************************************)
Breadth == [none |-> 0, self |-> 1, dependents |-> 2]

\* Mutant: the last write decides.
QueueLast(level) == pending' = level

\* `queued`: a write that succeeded may only widen what the drop evicts.
Queue(level) ==
  pending' = IF Breadth[level] > Breadth[pending] THEN level ELSE pending

AtMut(a) ==
  /\ Free /\ isOpen
  /\ at' = a /\ auto' = TRUE /\ pending' = "none"
  /\ UNCHANGED <<database, cached, behind, owed>>

AutoInvalidate(on) ==
  /\ ~Free
  /\ auto' = on
  /\ UNCHANGED <<database, cached, behind, at, pending, owed>>

\* rename, set_type, apply_type, clear_type and the prototype surgery.
Retype ==
  /\ ~Free
  /\ behind' = behind \cup Changed("name", {at})
  /\ Queue("dependents")
  /\ UNCHANGED <<database, cached, at, auto, owed>>

\* FunctionEdit::rename_arg, on a cursor at a function's entry.
RenameArg ==
  /\ ~Free /\ at \in Func
  /\ behind' = behind \cup Changed("local", {at})
  /\ Queue("self")
  /\ UNCHANGED <<database, cached, at, auto, owed>>

\* The whole range must be mapped.  The kernel's own hook evicts the
\* functions whose code is patched.
Patch(n) ==
  /\ ~Free /\ n > 0
  /\ at..(at + n - 1) \subseteq Addr
  /\ LET range == at..(at + n - 1)
         hook  == {FuncStart[a] : a \in range}
     IN  /\ cached' = cached \ hook
         /\ behind' = (behind \cup Changed("bytes", range)) \ hook
  /\ Queue("dependents")
  /\ UNCHANGED <<database, at, auto, owed>>

\* Mutant: only calls and jumps are followed back.
CallersOnly(entry) ==
  {entry} \cup
  {FuncStart[x.from] : x \in {y \in Xref : y.to = entry /\ y.code}}

\* invalidate_decompilation_dependents: every reference, code or data.
Dependents(entry) ==
  {entry} \cup {FuncStart[x.from] : x \in {y \in Xref : y.to = entry}}

Evicted ==
  CASE pending = "none"       -> {}
    [] pending = "self"       -> {at}
    [] pending = "dependents" -> Dependents(at)

DropCursor ==
  /\ ~Free
  /\ IF auto /\ hexReady THEN Evict(Evicted) ELSE UNCHANGED <<cached, behind>>
  /\ owed' = (owed \/ (~auto /\ pending # "none"))
  /\ at' = NoAddr
  /\ UNCHANGED <<database, auto, pending>>

Next ==
  \/ Open \/ Close \/ ClearDecompilationCache
  \/ \E a \in Addr : \/ Decompile(a) \/ DecompileFails(a)
                     \/ InvalidateDecompilation(a) \/ AtMut(a)
  \/ Retype \/ RenameArg \/ DropCursor
  \/ \E n \in 1..MaxPatch : Patch(n)
  \/ \E on \in BOOLEAN : AutoInvalidate(on)

Spec == Init /\ [][Next]_vars

-----------------------------------------------------------------------------
\* Types; and only function entries are cached.
TypeOK ==
  /\ isOpen \in BOOLEAN /\ hexReady \in BOOLEAN /\ hexLoaded \in BOOLEAN
  /\ cached \subseteq Func /\ behind \subseteq cached
  /\ at \in Addr \cup {NoAddr} /\ auto \in BOOLEAN
  /\ pending \in {"none", "self", "dependents"}
  /\ owed \in BOOLEAN

\* Between edits, nothing Hex-Rays would answer from its cache is out of
\* date: not after any mix of writes on one cursor, not through a data
\* reference, not from the database that was open before.  "patching data a
\* function inlined (a constant, a jump table) restales every referrer"
\* (LocationMut::patch), so their text goes too.  A caller that opted out owes
\* the eviction until it clears the cache.
NoStaleText == (Free /\ isOpen /\ ~owed) => behind = {}

\* Evictions are skipped while `hexrays_ready` is down; that is safe only
\* because nothing is cached then, whatever closes, reopens and failures
\* came before.
NotReadyMeansEmpty == ~hexReady => cached = {}

\* `hexrays_ready` belongs to the database now open ("a stale hexrays_ready
\* skips hexrays_init for a database that never had it", lib.rs:415).
ReadyForThisDatabase == hexReady => hexLoaded

=============================================================================

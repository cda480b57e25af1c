------------------------ MODULE DecompileCacheProofs ------------------------
(***************************************************************************)
(* No stale text, for every program: any addresses, functions and          *)
(* cross-references.  The two ways the code does leave stale state behind, *)
(* a patch of several addresses and an `open` over an open database, are   *)
(* the hypotheses of the theorems.                                         *)
(***************************************************************************)
EXTENDS DecompileCache, TLAPS

\* What the drop of the live cursor will evict, if there is one.
Covered == IF Free THEN {} ELSE Evicted

\* Text falls behind only under a cursor that will evict it, or has been
\* left to the caller; and outside an open database nothing is cached.
BehindIsCovered == owed \/ behind \subseteq Covered
ClosedIsClean   == (~isOpen => ~hexReady) /\ (~Free => isOpen)

IndInv ==
  /\ TypeOK
  /\ NotReadyMeansEmpty
  /\ ReadyForThisDatabase
  /\ ClosedIsClean
  /\ BehindIsCovered

-----------------------------------------------------------------------------
\* Queueing a level keeps what was queued and adds what the level evicts.
LEMMA QueueWidens ==
  ASSUME TypeOK, NEW level \in {"self", "dependents"}, Queue(level), at' = at
  PROVE  /\ pending' \in {"none", "self", "dependents"}
         /\ Evicted \subseteq Evicted'
         /\ level = "dependents" => Dependents(at) \subseteq Evicted'
         /\ at \in Evicted'
<1>1. /\ Breadth["none"] = 0 /\ Breadth["self"] = 1 /\ Breadth["dependents"] = 2
  BY DEF Breadth
<1>2. /\ pending = "none" => pending' = level
      /\ pending = "self" => pending' = level
      /\ pending = "dependents" => pending' = "dependents"
  BY <1>1 DEF Queue, TypeOK
<1>3. Dependents(at)' = Dependents(at) /\ at \in Dependents(at)
  BY DEF Dependents
<1> QED
  BY <1>2, <1>3 DEF Evicted, TypeOK

\* A rename or retype, and a one-address patch, only disturb functions that
\* the eviction of dependents reaches, or that the kernel's hook evicts.
LEMMA ChangedIsReached ==
  ASSUME TypeOK, ~Free
  PROVE  /\ Changed("name", {at}) \subseteq cached \cap Dependents(at)
         /\ Changed("bytes", {at}) \subseteq
              cached \cap (Dependents(at) \cup {FuncStart[at]})
         /\ Changed("local", {at}) \subseteq cached \cap {at}
<1>1. \A f \in cached : at \in Referred(f) => f \in Dependents(at)
  BY DEF Referred, Dependents
<1>2. at \in Dependents(at)
  BY DEF Dependents
<1>3. \A f \in cached : Prints(f, "name", at) => f \in Dependents(at)
  BY <1>1, <1>2 DEF Prints
<1>4. \A f \in cached : Prints(f, "bytes", at)
                          => f \in Dependents(at) \cup {FuncStart[at]}
  BY <1>1 DEF Prints
<1>5. \A f \in cached : Prints(f, "local", at) => f = at
  BY DEF Prints
<1> QED
  BY <1>3, <1>4, <1>5 DEF Changed

\* The invariant holds before anything is opened.
LEMMA InitIndInv == Init => IndInv
  BY ProgramAssumption
  DEF Init, IndInv, TypeOK, NotReadyMeansEmpty, ReadyForThisDatabase,
      ClosedIsClean, BehindIsCovered, Covered, Free

\* Between cursors: opening, closing, decompiling and evicting by hand.
LEMMA DatabaseStep ==
  ASSUME IndInv, ~Reopens,
         \/ Open \/ Close \/ ClearDecompilationCache
         \/ \E a \in Addr : \/ Decompile(a) \/ DecompileFails(a)
                            \/ InvalidateDecompilation(a)
  PROVE  IndInv'
<1> USE DEF Free, cursor, database, Evict
<1>1. Free /\ Free' /\ Covered = {} /\ Covered' = {}
  BY DEF Open, Close, ClearDecompilationCache, Decompile, DecompileFails,
         InvalidateDecompilation, Covered
<1>2. TypeOK'
  <2>1. \A a \in Addr : FuncStart[a] # NoAddr => FuncStart[a] \in Func
    BY ProgramAssumption
  <2> QED
    BY <2>1 DEF IndInv, TypeOK, Open, Close, ClearDecompilationCache,
       Decompile, DecompileFails, InvalidateDecompilation
<1>3. NotReadyMeansEmpty' /\ ReadyForThisDatabase' /\ ClosedIsClean'
  BY <1>1 DEF IndInv, TypeOK, NotReadyMeansEmpty, ReadyForThisDatabase,
     ClosedIsClean, Open, Close, ClearDecompilationCache, Decompile,
     DecompileFails, InvalidateDecompilation
<1>4. BehindIsCovered'
  BY <1>1 DEF IndInv, TypeOK, NotReadyMeansEmpty, ClosedIsClean,
     BehindIsCovered, Open, Close, ClearDecompilationCache, Decompile,
     DecompileFails, InvalidateDecompilation
<1> QED
  BY <1>2, <1>3, <1>4 DEF IndInv

\* A cursor is opened, or told whether to evict.
LEMMA CursorStep ==
  ASSUME IndInv, NEW a \in Addr, NEW on \in BOOLEAN,
         AtMut(a) \/ AutoInvalidate(on)
  PROVE  IndInv'
<1> USE ProgramAssumption DEF Free, database
<1>0. TypeOK'
  BY DEF IndInv, TypeOK, AtMut, AutoInvalidate
<1>1. TypeOK' /\ NotReadyMeansEmpty' /\ ReadyForThisDatabase' /\ ClosedIsClean'
  BY <1>0 DEF IndInv, NotReadyMeansEmpty, ReadyForThisDatabase,
     ClosedIsClean, AtMut, AutoInvalidate
<1>2. CASE AtMut(a)
  BY <1>1, <1>2 DEF IndInv, BehindIsCovered, Covered, AtMut
<1>3. CASE AutoInvalidate(on)
  <2>1. Covered' = Covered
    BY <1>3 DEF Covered, Evicted, Dependents, AutoInvalidate
  <2> QED
    BY <1>1, <1>3, <2>1 DEF IndInv, BehindIsCovered, AutoInvalidate
<1> QED
  BY <1>2, <1>3

\* A write puts text behind and queues the eviction that covers it.
LEMMA WriteStep ==
  ASSUME IndInv, MaxPatch <= 1,
         Retype \/ RenameArg \/ \E n \in 1..MaxPatch : Patch(n)
  PROVE  IndInv'
<1> USE DEF Free, database
<1>1. ~Free /\ ~Free' /\ at' = at /\ auto' = auto /\ owed' = owed
      /\ UNCHANGED <<isOpen, hexReady, hexLoaded>>
  BY DEF Retype, RenameArg, Patch
<1>2. /\ pending' \in {"none", "self", "dependents"}
      /\ cached' \subseteq cached /\ behind' \subseteq cached'
      /\ behind \subseteq Evicted => behind' \subseteq Evicted'
  <2> USE <1>1
  <2>1. CASE Retype
    BY <2>1, QueueWidens, ChangedIsReached DEF IndInv, TypeOK, Retype
  <2>2. CASE RenameArg
    BY <2>2, QueueWidens, ChangedIsReached DEF IndInv, TypeOK, RenameArg
  <2>3. ASSUME NEW n \in 1..MaxPatch, Patch(n)
        PROVE  /\ pending' \in {"none", "self", "dependents"}
               /\ cached' \subseteq cached /\ behind' \subseteq cached'
               /\ behind \subseteq Evicted => behind' \subseteq Evicted'
    <3>1. n = 1 /\ at \in Nat
      BY ProgramAssumption DEF IndInv, TypeOK
    <3>2. at..(at + n - 1) = {at}
      BY <3>1
    <3>3. {FuncStart[a] : a \in {at}} = {FuncStart[at]}
      OBVIOUS
    <3>4. /\ cached' = cached \ {FuncStart[at]}
          /\ behind' = (behind \cup Changed("bytes", {at})) \ {FuncStart[at]}
          /\ Queue("dependents")
      BY <2>3, <3>2, <3>3 DEF Patch
    <3> QED
      BY <3>4, QueueWidens, ChangedIsReached DEF IndInv, TypeOK
  <2> QED
    BY <2>1, <2>2, <2>3
<1>3. TypeOK' /\ NotReadyMeansEmpty' /\ ReadyForThisDatabase' /\ ClosedIsClean'
  BY <1>1, <1>2 DEF IndInv, TypeOK, NotReadyMeansEmpty, ReadyForThisDatabase,
     ClosedIsClean
<1>4. BehindIsCovered'
  BY <1>1, <1>2 DEF IndInv, BehindIsCovered, Covered
<1> QED
  BY <1>3, <1>4 DEF IndInv

\* The drop evicts what was queued, has nothing to evict, or leaves it owed.
LEMMA DropStep ==
  ASSUME IndInv, DropCursor
  PROVE  IndInv'
<1> USE DEF Free, database, Evict
<1>1. TypeOK' /\ NotReadyMeansEmpty' /\ ReadyForThisDatabase' /\ ClosedIsClean'
  BY DEF IndInv, TypeOK, NotReadyMeansEmpty, ReadyForThisDatabase,
     ClosedIsClean, DropCursor
<1>2. pending = "none" => Evicted = {}
  BY DEF Evicted
<1>3. owed' \/ behind' = {}
  BY <1>2 DEF IndInv, TypeOK, NotReadyMeansEmpty, BehindIsCovered, Covered,
     DropCursor
<1> QED
  BY <1>1, <1>3 DEF IndInv, BehindIsCovered, Covered, DropCursor

-----------------------------------------------------------------------------
\* The inductive invariant, for programs that patch one address at a time and
\* close a database before they open the next.
THEOREM CacheInvariance ==
  ASSUME MaxPatch <= 1, ~Reopens
  PROVE  Spec => []IndInv
<1>1. Init => IndInv
  BY InitIndInv
<1>2. IndInv /\ [Next]_vars => IndInv'
  <2> SUFFICES ASSUME IndInv, [Next]_vars PROVE IndInv'
    OBVIOUS
  <2>1. ASSUME \/ Open \/ Close \/ ClearDecompilationCache
               \/ \E a \in Addr : \/ Decompile(a) \/ DecompileFails(a)
                                  \/ InvalidateDecompilation(a)
        PROVE  IndInv'
    BY <2>1, DatabaseStep
  <2>2. ASSUME NEW a \in Addr, AtMut(a)
        PROVE  IndInv'
    BY <2>2, CursorStep
  <2>3. ASSUME NEW on \in BOOLEAN, AutoInvalidate(on)
        PROVE  IndInv'
    <3>1. at \in Addr
      BY <2>3 DEF IndInv, TypeOK, AutoInvalidate, Free
    <3> QED
      BY <2>3, <3>1, CursorStep
  <2>4. ASSUME Retype \/ RenameArg \/ \E n \in 1..MaxPatch : Patch(n)
        PROVE  IndInv'
    BY <2>4, WriteStep
  <2>5. ASSUME UNCHANGED vars
        PROVE  IndInv'
    <3>1. Covered' = Covered
      BY <2>5 DEF vars, Covered, Free, Evicted, Dependents
    <3> QED
      BY <2>5, <3>1 DEF vars, IndInv, TypeOK, NotReadyMeansEmpty,
         ReadyForThisDatabase, ClosedIsClean, BehindIsCovered, Free
  <2> QED
    BY <2>1, <2>2, <2>3, <2>4, <2>5, DropStep DEF Next
<1> QED
  BY <1>1, <1>2, PTL DEF Spec

\* Between edits the cache holds no text that is out of date.
THEOREM CacheNeverStale ==
  ASSUME MaxPatch <= 1, ~Reopens
  PROVE  Spec => []NoStaleText
<1>1. IndInv => NoStaleText
  BY DEF IndInv, BehindIsCovered, Covered, NoStaleText
<1> QED
  BY <1>1, CacheInvariance, PTL

-----------------------------------------------------------------------------
\* The evictions that a cursor's drop and `close` skip while `hexrays_ready`
\* is down skip nothing: for every patch, and also when a database is opened
\* over an open one.
THEOREM NotReadyCachesNothing == Spec => []NotReadyMeansEmpty
<1>1. Init => NotReadyMeansEmpty
  BY DEF Init, NotReadyMeansEmpty
<1>2. NotReadyMeansEmpty /\ [Next]_vars => NotReadyMeansEmpty'
  <2> SUFFICES ASSUME NotReadyMeansEmpty, [Next]_vars PROVE NotReadyMeansEmpty'
    OBVIOUS
  <2> USE DEF NotReadyMeansEmpty, database
  <2>1. CASE Open \/ Close \/ ClearDecompilationCache
    BY <2>1 DEF Open, Close, ClearDecompilationCache, Evict
  <2>2. ASSUME NEW a \in Addr,
               Decompile(a) \/ DecompileFails(a) \/ InvalidateDecompilation(a) \/ AtMut(a)
        PROVE  NotReadyMeansEmpty'
    BY <2>2 DEF Decompile, DecompileFails, InvalidateDecompilation, AtMut, Evict
  <2>3. CASE Retype \/ RenameArg \/ DropCursor
    BY <2>3 DEF Retype, RenameArg, DropCursor, Evict
  <2>4. ASSUME NEW n \in 1..MaxPatch, Patch(n) PROVE NotReadyMeansEmpty'
    BY <2>4 DEF Patch
  <2>5. CASE UNCHANGED vars \/ \E on \in BOOLEAN : AutoInvalidate(on)
    BY <2>5 DEF vars, AutoInvalidate
  <2> QED
    BY <2>1, <2>2, <2>3, <2>4, <2>5 DEF Next
<1> QED
  BY <1>1, <1>2, PTL DEF Spec

\* `hexrays_ready` is up only for the database that Hex-Rays was initialized
\* for, whatever is patched, as long as `open` finds the last one closed.
THEOREM ReadyIsPerDatabase ==
  ASSUME ~Reopens
  PROVE  Spec => []ReadyForThisDatabase
<1> DEFINE Ready == ReadyForThisDatabase /\ ClosedIsClean
<1>1. Init => Ready
  BY DEF Init, ReadyForThisDatabase, ClosedIsClean, Free
<1>2. Ready /\ [Next]_vars => Ready'
  <2> SUFFICES ASSUME Ready, [Next]_vars PROVE Ready'
    OBVIOUS
  <2> USE DEF ReadyForThisDatabase, ClosedIsClean, Free, database, cursor
  <2>1. CASE Open \/ Close \/ ClearDecompilationCache
    BY <2>1 DEF Open, Close, ClearDecompilationCache
  <2>2. ASSUME NEW a \in Addr,
               Decompile(a) \/ DecompileFails(a) \/ InvalidateDecompilation(a) \/ AtMut(a)
        PROVE  Ready'
    <3>1. CASE Decompile(a) \/ DecompileFails(a)
      <4>1. hexLoaded \/ ~hexReady
        OBVIOUS
      <4>2. hexLoaded' /\ isOpen' = isOpen /\ at' = at /\ isOpen
        BY <3>1, <4>1 DEF Decompile, DecompileFails
      <4> QED
        BY <4>2
    <3>2. CASE InvalidateDecompilation(a) \/ AtMut(a)
      BY <3>2 DEF InvalidateDecompilation, AtMut
    <3> QED
      BY <2>2, <3>1, <3>2
  <2>3. CASE Retype \/ RenameArg \/ DropCursor
    BY <2>3 DEF Retype, RenameArg, DropCursor
  <2>4. ASSUME NEW n \in 1..MaxPatch, Patch(n) PROVE Ready'
    BY <2>4 DEF Patch
  <2>5. CASE UNCHANGED vars \/ \E on \in BOOLEAN : AutoInvalidate(on)
    BY <2>5 DEF vars, AutoInvalidate
  <2> QED
    BY <2>1, <2>2, <2>3, <2>4, <2>5 DEF Next
<1>3. Ready => ReadyForThisDatabase
  OBVIOUS
<1> QED
  BY <1>1, <1>2, <1>3, PTL DEF Spec
=============================================================================

--------------------------- MODULE ExitTrapProofs ---------------------------
(***************************************************************************)
(* Proofs about module ExitTrap: whatever calls Rust makes and however     *)
(* they end, for any number of them.                                       *)
(***************************************************************************)
EXTENDS ExitTrap, TLAPS

Frame == [is : {"guard", "shim"}, prev : BOOLEAN, cap : BOOLEAN]

\* The frames the current call goes through.
Path == Crosses[kind]

Depth == Len(frames)

\* The stack is the part of the path that was entered and not yet left.
Stack ==
  /\ frames \in Seq(Frame)
  /\ todo \in Seq({"guard", "shim"})
  /\ Depth <= Len(Path)
  /\ \A i \in 1..Depth : frames[i].is = Path[i]
  /\ result = "running" =>
       /\ Depth + Len(todo) = Len(Path)
       /\ \A i \in 1..Len(todo) : todo[i] = Path[Depth + i]
  /\ result # "running" => todo = <<>>
  /\ result \in {"ok", "err", "trapped"} => Depth < Len(Path) \/ Path = <<>>
  /\ result = "done" => Depth = 0

\* interr throws while a frame is there to catch, and each frame puts back
\* what it found.
Modes ==
  /\ throws <=> Depth > 0
  /\ \A i \in 1..Depth : frames[i].prev <=> i > 1

\* Armed by a guard that no exception has taken away.
Live == armed /\ ~escaped

\* The jump target is the guard of the stack.
Target ==
  /\ Live <=> \E i \in 1..Depth : frames[i].is = "guard"
  /\ Live => target \in 1..Depth /\ frames[target].is = "guard"

\* Capture is the guard's, on a call that captures, and holds text of this call.
Capture ==
  /\ onPipe \/ hook => Live /\ Captures(kind)
  /\ ~onPipe => pipe = {}
  /\ ~hook => uiOutput = {}
  /\ \A t \in pipe \cup uiOutput : t.by = call

\* The guard of this call has been entered.
Entered ==
  /\ \E i \in 1..Len(Path) : Path[i] = "guard"
  /\ \A i \in 1..Len(todo) : todo[i] # "guard"

\* The flags and the text a guard leaves are its own call's.
Flags ==
  /\ Entered => (\A t \in output : t.by = call) /\ (trapped <=> hit = call)
  /\ ~Entered => hit < call \/ call = 0
  /\ result = "running" => hit < call
  /\ hit <= call /\ error.of <= call
  /\ result # "done" => call > 0 /\ error.of < call
  /\ \A t \in error.diagnostic : t.by = error.of

\* What the caller is told of a trap on its way out.
Told ==
  /\ result \in {"ok", "err", "trapped"} /\ kind \in {"open", "auto_wait"} =>
       (result = "trapped" <=> hit = call)
  /\ result \in {"ok", "err", "trapped"} /\ kind = "decompile" =>
       IF Depth > 0 THEN result = "trapped" <=> hit = call
                    ELSE hit = call => result = "err"
  /\ result = "done" /\ kind \in {"open", "auto_wait", "decompile"} =>
       (error.of = call <=> hit = call /\ call # 0)

Types ==
  /\ call \in 0..MaxCalls /\ kind \in CallKind
  /\ result \in {"running", "ok", "err", "trapped", "done"}
  /\ error \in [of : 0..MaxCalls, code : 0..MaxCalls, diagnostic : SUBSET Text]
  /\ alive \in BOOLEAN /\ installed \in BOOLEAN /\ armed \in BOOLEAN
  /\ target \in 0..2 /\ exitCode \in 0..MaxCalls /\ hit \in 0..MaxCalls
  /\ trapped \in BOOLEAN /\ throws \in BOOLEAN
  /\ onPipe \in BOOLEAN /\ hook \in BOOLEAN /\ escaped \in BOOLEAN
  /\ pipe \subseteq Text /\ output \subseteq Text /\ uiOutput \subseteq Text

IndInv == Types /\ Stack /\ Modes /\ Target /\ Capture /\ Flags /\ Told

(***************************************************************************)
(* The table of paths.                                                     *)
(***************************************************************************)
LEMMA Paths ==
  /\ \A k \in {"open", "auto_wait", "close", "edit"} : k \in CallKind /\ Crosses[k] = <<"guard">>
  /\ Crosses["decompile"] = <<"shim", "guard">> /\ "decompile" \in CallKind
  /\ Crosses["probe"] = <<"guard", "shim">> /\ "probe" \in CallKind
  /\ Crosses["shim"] = <<"shim">> /\ "shim" \in CallKind
  /\ Crosses["raw"] = <<>> /\ "raw" \in CallKind
  /\ CallKind = {"open", "auto_wait", "close", "edit", "decompile", "probe", "shim", "raw"}
BY DEF Crosses, CallKind

\* A path has two frames at most, and one guard.
LEMMA PathFacts ==
  ASSUME NEW k \in CallKind
  PROVE  /\ Crosses[k] \in Seq({"guard", "shim"})
         /\ Len(Crosses[k]) \in 0..2
         /\ \A i, j \in 1..Len(Crosses[k]) :
              Crosses[k][i] = "guard" /\ Crosses[k][j] = "guard" => i = j
<1>1. CASE k \in {"open", "auto_wait", "close", "edit"}
  <2>1. Crosses[k] = <<"guard">>
    BY <1>1, Paths
  <2> QED
    BY <2>1
<1>2. CASE k = "decompile"
  BY <1>2, Paths
<1>3. CASE k = "probe"
  BY <1>3, Paths
<1>4. CASE k = "shim"
  BY <1>4, Paths
<1>5. CASE k = "raw"
  BY <1>5, Paths
<1> QED
  BY <1>1, <1>2, <1>3, <1>4, <1>5, Paths

\* Dropping the frames from the n-th on.
LEMMA CutFacts ==
  ASSUME NEW s \in Seq(Frame), NEW n \in 1..Len(s)
  PROVE  /\ SubSeq(s, 1, n - 1) \in Seq(Frame)
         /\ Len(SubSeq(s, 1, n - 1)) = n - 1
         /\ \A i \in 1..(n - 1) : SubSeq(s, 1, n - 1)[i] = s[i]
OBVIOUS

LEMMA PushFacts ==
  ASSUME NEW s \in Seq(Frame), NEW f \in Frame
  PROVE  /\ Append(s, f) \in Seq(Frame)
         /\ Len(Append(s, f)) = Len(s) + 1
         /\ \A i \in 1..Len(s) : Append(s, f)[i] = s[i]
         /\ Append(s, f)[Len(s) + 1] = f
OBVIOUS

LEMMA NextFacts ==
  ASSUME NEW s \in Seq({"guard", "shim"}), s # <<>>
  PROVE  /\ Tail(s) \in Seq({"guard", "shim"})
         /\ Len(s) \in Nat \ {0} /\ Len(Tail(s)) = Len(s) - 1
         /\ Head(s) = s[1] /\ Head(s) \in {"guard", "shim"}
         /\ \A i \in 1..(Len(s) - 1) : Tail(s)[i] = s[i + 1]
OBVIOUS

(***************************************************************************)
(* What the invariant says of a state, for the steps below.                *)
(***************************************************************************)
LEMMA Shape ==
  ASSUME IndInv
  PROVE  /\ Depth \in Nat /\ Len(Path) \in 0..2 /\ Depth <= Len(Path)
         /\ Path \in Seq({"guard", "shim"})
         /\ \A i, j \in 1..Len(Path) : Path[i] = "guard" /\ Path[j] = "guard" => i = j
         /\ \A i \in 1..Depth : frames[i] \in Frame /\ frames[i].is = Path[i]
         /\ frames = <<>> <=> Depth = 0
         /\ todo = <<>> <=> Len(todo) = 0
         /\ Len(todo) \in Nat
<1>1. kind \in CallKind /\ frames \in Seq(Frame) /\ todo \in Seq({"guard", "shim"})
  BY DEF IndInv, Types, Stack
<1>2. Path \in Seq({"guard", "shim"}) /\ Len(Path) \in 0..2
      /\ \A i, j \in 1..Len(Path) : Path[i] = "guard" /\ Path[j] = "guard" => i = j
  BY <1>1, PathFacts DEF Path
<1>3. Depth \in Nat /\ (frames = <<>> <=> Depth = 0)
  BY <1>1 DEF Depth
<1>4. Len(todo) \in Nat /\ (todo = <<>> <=> Len(todo) = 0)
  BY <1>1
<1>5. \A i \in 1..Depth : frames[i] \in Frame /\ frames[i].is = Path[i]
  BY <1>1 DEF IndInv, Stack, Depth
<1> QED
  BY <1>2, <1>3, <1>4, <1>5 DEF IndInv, Stack

\* A guard is on the path of these calls, and where.
LEMMA GuardOn ==
  ASSUME IndInv
  PROVE  /\ kind \in {"open", "auto_wait"} => Len(Path) = 1 /\ Path[1] = "guard"
         /\ kind = "decompile" => Len(Path) = 2 /\ Path[1] = "shim" /\ Path[2] = "guard"
         /\ kind = "raw" => Path = <<>>
         /\ Captures(kind) => Len(Path) = 1 /\ Path[1] = "guard"
<1>1. kind \in {"open", "auto_wait"} => Path = <<"guard">>
  BY Paths DEF Path
<1>2. kind = "decompile" => Path = <<"shim", "guard">>
  BY Paths DEF Path
<1>3. kind = "raw" => Path = <<>>
  BY Paths DEF Path
<1>4. Captures(kind) => Path = <<"guard">>
  BY Paths DEF Path, Captures
<1> QED
  BY <1>1, <1>2, <1>3, <1>4

\* With nothing left to enter, the guard was entered if there is one.
LEMMA EnteredFacts ==
  ASSUME IndInv, todo = <<>>
  PROVE  /\ Entered <=> \E i \in 1..Len(Path) : Path[i] = "guard"
         /\ Live => Entered
         /\ kind \in {"open", "auto_wait", "decompile"} => Entered
<1>1. Entered <=> \E i \in 1..Len(Path) : Path[i] = "guard"
  BY Shape DEF Entered
<1>2. Live => Entered
  BY <1>1, Shape DEF IndInv, Target, Live
<1>3. kind \in {"open", "auto_wait", "decompile"} => Entered
  BY <1>1, GuardOn
<1> QED
  BY <1>1, <1>2, <1>3

\* In the kernel the whole path is on the stack.
LEMMA KernelFacts ==
  ASSUME IndInv, InKernel
  PROVE  /\ todo = <<>> /\ result = "running" /\ Depth = Len(Path)
         /\ hit < call /\ call > 0 /\ error.of < call
BY Shape DEF IndInv, InKernel, Stack, Flags

(***************************************************************************)
(* The steps.                                                              *)
(***************************************************************************)
LEMMA InitStep == Init => IndInv
<1> SUFFICES ASSUME Init PROVE IndInv
  OBVIOUS
<1>1. kind = "raw" /\ kind \in CallKind /\ Path = <<>> /\ frames = <<>> /\ Depth = 0
  BY Paths DEF Init, Path, Depth
<1>2. Types
  <2>1. 0 \in 0..MaxCalls
    BY CallsAssumption
  <2>2. NoError \in [of : 0..MaxCalls, code : 0..MaxCalls, diagnostic : SUBSET Text]
    BY <2>1 DEF NoError
  <2>3. /\ alive \in BOOLEAN /\ installed \in BOOLEAN /\ armed \in BOOLEAN
        /\ trapped \in BOOLEAN /\ throws \in BOOLEAN /\ onPipe \in BOOLEAN /\ hook \in BOOLEAN
        /\ escaped \in BOOLEAN
    BY DEF Init
  <2>4. /\ call \in 0..MaxCalls /\ exitCode \in 0..MaxCalls /\ hit \in 0..MaxCalls
        /\ target \in 0..2 /\ result \in {"running", "ok", "err", "trapped", "done"}
        /\ pipe \subseteq Text /\ output \subseteq Text /\ uiOutput \subseteq Text
    BY <2>1 DEF Init
  <2>5. error = NoError
    BY DEF Init
  <2> QED
    BY <1>1, <2>2, <2>3, <2>4, <2>5 DEF Types
<1>3. Stack /\ Modes /\ Target
  BY <1>1 DEF Init, Stack, Modes, Target, Live
<1>4. Capture /\ Flags
  BY <1>1 DEF Init, Capture, Flags, Entered, NoError, Live
<1>5. Told
  BY <1>1 DEF Init, Told
<1> QED
  BY <1>2, <1>3, <1>4, <1>5 DEF IndInv

LEMMA CallStep ==
  ASSUME IndInv, NEW k \in CallKind, Call(k)
  PROVE  IndInv'
<1>1. /\ Depth = 0 /\ frames' = frames /\ Depth' = 0 /\ Path' = Crosses[k] /\ todo' = Path'
      /\ result' = "running" /\ kind' = k /\ call' = call + 1 /\ call \in Nat /\ call' \in 0..MaxCalls
  BY Shape, CallsAssumption DEF IndInv, Types, Stack, Call, Idle, Depth, Path
<1>2. Crosses[k] \in Seq({"guard", "shim"}) /\ Len(Crosses[k]) \in 0..2
  BY PathFacts
<1>3. ~Live /\ ~onPipe /\ ~hook /\ pipe = {} /\ uiOutput = {} /\ ~throws
  BY <1>1 DEF IndInv, Target, Capture, Modes, Live
<1>4. Types'
  BY <1>1 DEF Call, IndInv, Types, trap, stream
<1>5. Stack'
  BY <1>1, <1>2 DEF Stack, IndInv
<1>6. Modes' /\ Target' /\ Capture'
  BY <1>1, <1>3 DEF Call, Modes, Target, Capture, trap, stream, Live
<1>7. ~Entered'
  BY <1>1, <1>2 DEF Entered
<1>8. Flags'
  BY <1>1, <1>7 DEF Call, IndInv, Types, Flags, trap
<1>9. Told'
  BY <1>1 DEF Told
<1> QED
  BY <1>4, <1>5, <1>6, <1>8, <1>9 DEF IndInv

\* Entering a frame: the next one of the path goes on the stack.
LEMMA PushStep ==
  ASSUME IndInv, todo # <<>>, NEW f \in Frame, f.is = Head(todo), f.prev = throws,
         frames' = Append(frames, f), todo' = Tail(todo), throws' = TRUE,
         UNCHANGED <<kind, result>>
  PROVE  /\ Stack' /\ Modes' /\ Path' = Path /\ Depth' = Depth + 1 /\ result = "running"
         /\ f.is = Path[Depth + 1] /\ Depth + 1 \in 1..Len(Path)
         /\ \A i \in 1..Depth : frames'[i] = frames[i]
         /\ frames'[Depth + 1] = f
         /\ Len(todo') = Len(todo) - 1
         /\ \A i \in 1..Len(todo') : todo'[i] = todo[i + 1] /\ todo'[i] = Path[Depth + 1 + i]
<1>1. frames \in Seq(Frame) /\ todo \in Seq({"guard", "shim"}) /\ result = "running"
  BY DEF IndInv, Stack
<1>2. /\ frames' \in Seq(Frame) /\ Depth' = Depth + 1
      /\ \A i \in 1..Depth : frames'[i] = frames[i]
      /\ frames'[Depth + 1] = f
  BY <1>1, PushFacts DEF Depth
<1>3. /\ todo' \in Seq({"guard", "shim"}) /\ Len(todo) \in Nat \ {0} /\ Len(todo') = Len(todo) - 1
      /\ Head(todo) = todo[1]
      /\ \A i \in 1..Len(todo') : todo'[i] = todo[i + 1]
  BY <1>1, NextFacts
<1>4. Path' = Path
  BY DEF Path
<1>5. Depth + Len(todo) = Len(Path) /\ \A i \in 1..Len(todo) : todo[i] = Path[Depth + i]
  BY <1>1 DEF IndInv, Stack
<1>6. f.is = Path[Depth + 1] /\ Depth + 1 \in 1..Len(Path)
  BY <1>3, <1>5, Shape
<1>7. \A i \in 1..Len(todo') : todo'[i] = Path[Depth + 1 + i]
  BY <1>3, <1>5, Shape
<1>8. \A i \in 1..Depth' : frames'[i].is = Path[i]
  BY <1>2, <1>6, Shape
<1>9. Stack'
  <2>1. Depth' + Len(todo') = Len(Path)
    BY <1>2, <1>3, <1>5, Shape
  <2>2. Depth' <= Len(Path)
    BY <1>2, <1>6, Shape
  <2>3. result' = "running"
    BY <1>1
  <2> QED
    BY <2>1, <2>2, <2>3, <1>2, <1>3, <1>4, <1>7, <1>8 DEF Stack
<1>10. Modes'
  <2>1. throws \in BOOLEAN /\ (throws <=> Depth > 0)
        /\ \A i \in 1..Depth : frames[i].prev <=> i > 1
    BY DEF IndInv, Types, Modes
  <2>2. \A i \in 1..Depth' : frames'[i].prev <=> i > 1
    <3> TAKE i \in 1..Depth'
    <3>1. CASE i \in 1..Depth
      BY <3>1, <1>2, <2>1
    <3>2. CASE i = Depth + 1
      <4>1. frames'[i].prev = throws
        BY <3>2, <1>2
      <4>2. i > 1 <=> Depth > 0
        BY <3>2, Shape
      <4> QED
        BY <4>1, <4>2, <2>1
    <3>3. i \in 1..Depth \/ i = Depth + 1
      BY <1>2, Shape
    <3> QED
      BY <3>1, <3>2, <3>3
  <2>3. Depth' > 0
    BY <1>2, Shape
  <2> QED
    BY <2>2, <2>3 DEF Modes
<1> QED
  BY <1>1, <1>2, <1>3, <1>4, <1>6, <1>7, <1>9, <1>10

LEMMA EnterGuardStep ==
  ASSUME IndInv, EnterGuard
  PROVE  IndInv'
<1>1. PICK c \in BOOLEAN :
        /\ onPipe' = c /\ (c => Captures(kind))
        /\ frames' = Append(frames, [is |-> "guard", prev |-> throws, cap |-> c])
  BY DEF EnterGuard, begin_capture
<1> DEFINE f == [is |-> "guard", prev |-> throws, cap |-> c]
<1>2. f \in Frame /\ f.is = "guard" /\ f.prev = throws
  BY DEF Frame, IndInv, Types
<1> HIDE DEF f
<1>3. /\ todo # <<>> /\ Head(todo) = "guard" /\ todo' = Tail(todo) /\ throws' = TRUE
      /\ frames' = Append(frames, f)
      /\ UNCHANGED <<call, kind, error, result, alive, exitCode, pipe, hit>> /\ escaped' = FALSE
      /\ installed' = TRUE /\ trapped' = FALSE /\ output' = {} /\ armed' = TRUE
      /\ target' = Depth + 1
      /\ hook' = Captures(kind) /\ uiOutput' = IF Captures(kind) THEN {} ELSE uiOutput
  BY <1>1 DEF EnterGuard, install_fatal_traps, begin_ui_capture, rust, Depth, f
<1>4. /\ Stack' /\ Modes' /\ Path' = Path /\ Depth' = Depth + 1 /\ result = "running"
      /\ Path[Depth + 1] = "guard" /\ Depth + 1 \in 1..Len(Path)
      /\ \A i \in 1..Depth : frames'[i] = frames[i]
      /\ frames'[Depth + 1] = f
      /\ Len(todo') = Len(todo) - 1
      /\ \A i \in 1..Len(todo') : todo'[i] = todo[i + 1] /\ todo'[i] = Path[Depth + 1 + i]
  BY <1>2, <1>3, PushStep
<1>5. ~Live
  BY <1>4, Shape DEF IndInv, Target, Live
<1>6. pipe = {} /\ uiOutput = {}
  BY <1>5 DEF IndInv, Capture, Live
<1>7. Types'
  <2>1. target' \in 0..2
    BY <1>3, <1>4, Shape
  <2>2. hook' \in BOOLEAN
    BY <1>3 DEF Captures
  <2>3. uiOutput' \subseteq Text /\ output' \subseteq Text
    BY <1>3, <1>6
  <2> QED
    BY <1>1, <1>3, <2>1, <2>2, <2>3 DEF IndInv, Types
<1>8. Target'
  BY <1>2, <1>3, <1>4, Shape DEF Target, Live
<1>9. Capture'
  BY <1>1, <1>3, <1>6 DEF Capture, Live, Captures
<1>10. Entered'
  <2>1. \A i \in 1..Len(todo') : Depth + 1 + i \in 1..Len(Path) /\ Depth + 1 + i # Depth + 1
    <3>1. Depth' + Len(todo') = Len(Path') /\ Len(todo') \in Nat
      BY <1>3, <1>4 DEF Stack
    <3>2. Depth + 1 + Len(todo') = Len(Path) /\ Depth \in Nat /\ Len(Path) \in Nat
      BY <3>1, <1>4, Shape
    <3> QED
      BY <3>1, <3>2
  <2>2. \A i \in 1..Len(todo') : todo'[i] # "guard"
    <3> SUFFICES ASSUME NEW i \in 1..Len(todo'), todo'[i] = "guard" PROVE FALSE
      OBVIOUS
    <3>1. Path[Depth + 1 + i] = "guard" /\ Path[Depth + 1] = "guard"
      BY <1>4
    <3>2. \A j, k \in 1..Len(Path) : Path[j] = "guard" /\ Path[k] = "guard" => j = k
      BY Shape
    <3>3. /\ Depth + 1 + i \in 1..Len(Path) /\ Depth + 1 + i # Depth + 1
          /\ Depth + 1 \in 1..Len(Path)
      BY <1>4, <2>1
    <3> QED
      BY <3>1, <3>2, <3>3
  <2> QED
    BY <2>2, <1>4 DEF Entered
<1>11. Flags'
  <2>1. hit < call
    BY <1>4 DEF IndInv, Flags
  <2>2. hit # call
    BY <2>1 DEF IndInv, Types
  <2> QED
    BY <1>3, <1>4, <1>10, <2>1, <2>2 DEF IndInv, Flags
<1>12. Told'
  BY <1>3, <1>4 DEF Told
<1> QED
  BY <1>4, <1>7, <1>8, <1>9, <1>11, <1>12 DEF IndInv

LEMMA EnterShimStep ==
  ASSUME IndInv, EnterShim
  PROVE  IndInv'
<1> DEFINE f == [is |-> "shim", prev |-> throws, cap |-> FALSE]
<1>1. f \in Frame /\ f.is = "shim" /\ f.prev = throws
  BY DEF Frame, IndInv, Types
<1>2. frames' = Append(frames, f)
  BY DEF EnterShim
<1> HIDE DEF f
<1>3. /\ todo # <<>> /\ Head(todo) = "shim" /\ todo' = Tail(todo) /\ throws' = TRUE
      /\ UNCHANGED <<call, kind, error, result, alive, installed, armed, target, exitCode, trapped, escaped>>
      /\ UNCHANGED <<onPipe, pipe, output, hook, uiOutput, hit>>
  BY DEF EnterShim, rust, trap, stream
<1>4. /\ Stack' /\ Modes' /\ Path' = Path /\ Depth' = Depth + 1 /\ result = "running"
      /\ Path[Depth + 1] = "shim" /\ Depth + 1 \in 1..Len(Path)
      /\ \A i \in 1..Depth : frames'[i] = frames[i]
      /\ frames'[Depth + 1] = f
      /\ Len(todo') = Len(todo) - 1
      /\ \A i \in 1..Len(todo') : todo'[i] = todo[i + 1] /\ todo'[i] = Path[Depth + 1 + i]
  BY <1>1, <1>2, <1>3, PushStep
<1>5. Types'
  BY <1>3 DEF IndInv, Types
<1>6. Target'
  <2>1. (\E i \in 1..Depth' : frames'[i].is = "guard") <=> \E i \in 1..Depth : frames[i].is = "guard"
    BY <1>1, <1>4, Shape
  <2>2. Live => target \in 1..Depth' /\ frames'[target].is = "guard"
    BY <1>4, Shape DEF IndInv, Target, Live
  <2> QED
    BY <1>3, <2>1, <2>2 DEF IndInv, Target, Live
<1>7. Capture'
  BY <1>3 DEF IndInv, Capture, Live
<1>8. Entered' <=> Entered
  <2>1. todo[1] = "shim" /\ Len(todo) \in Nat \ {0}
    BY <1>3, NextFacts DEF IndInv, Stack
  <2>2. (\A i \in 1..Len(todo') : todo'[i] # "guard") <=> \A i \in 1..Len(todo) : todo[i] # "guard"
    <3>1. ASSUME \A i \in 1..Len(todo') : todo'[i] # "guard", NEW j \in 1..Len(todo), j # 1
          PROVE  todo[j] # "guard"
      <4>1. j - 1 \in 1..Len(todo') /\ (j - 1) + 1 = j
        BY <3>1, <2>1, <1>4
      <4>2. todo'[j - 1] = todo[(j - 1) + 1]
        BY <4>1, <1>4
      <4> QED
        BY <4>1, <4>2, <3>1
    <3>2. ASSUME \A i \in 1..Len(todo) : todo[i] # "guard", NEW j \in 1..Len(todo')
          PROVE  todo'[j] # "guard"
      <4>1. j + 1 \in 1..Len(todo)
        BY <2>1, <1>4
      <4> QED
        BY <4>1, <3>2, <1>4
    <3> QED
      BY <3>1, <3>2, <2>1
  <2> QED
    BY <2>2, <1>4 DEF Entered
<1>9. Flags'
  BY <1>3, <1>8 DEF IndInv, Flags
<1>10. Told'
  BY <1>3, <1>4 DEF Told
<1> QED
  BY <1>4, <1>5, <1>6, <1>7, <1>9, <1>10 DEF IndInv

\* A step that leaves the stack, the flags and the trap alone.
LEMMA WriteSteps ==
  ASSUME IndInv, WriteText \/ Msg
  PROVE  IndInv'
<1>1. /\ InKernel /\ UNCHANGED <<call, kind, error, todo, frames, result, alive, installed, armed>>
      /\ UNCHANGED <<target, exitCode, trapped, escaped, throws, onPipe, output, hook, hit>>
  BY DEF WriteText, Msg, rust, trap
<1>2. Path' = Path /\ Depth' = Depth /\ (Entered' <=> Entered)
  BY <1>1 DEF Path, Depth, Entered
<1>3. call \in 1..MaxCalls
  BY <1>1, KernelFacts DEF IndInv, Types
<1>4. /\ pipe' \subseteq Text /\ uiOutput' \subseteq Text
      /\ \A t \in pipe' \cup uiOutput' : t.by = call
      /\ ~onPipe => pipe' = {}
      /\ ~hook => uiOutput' = {}
  <2>1. CASE WriteText
    <3>1. PICK b \in BOOLEAN : pipe' = pipe \cup {[by |-> call, blank |-> b]}
      BY <2>1 DEF WriteText
    <3>2. onPipe /\ uiOutput' = uiOutput
      BY <2>1 DEF WriteText
    <3>3. [by |-> call, blank |-> b] \in Text /\ [by |-> call, blank |-> b].by = call
      BY <1>3 DEF Text
    <3>4. /\ pipe \subseteq Text /\ uiOutput \subseteq Text /\ (~hook => uiOutput = {})
          /\ \A t \in pipe \cup uiOutput : t.by = call
      BY DEF IndInv, Types, Capture, Live
    <3> QED
      BY <3>1, <3>2, <3>3, <3>4
  <2>2. CASE Msg
    <3>1. uiOutput' = uiOutput \cup {[by |-> call, blank |-> FALSE]} /\ hook /\ pipe' = pipe
      BY <2>2 DEF Msg
    <3>2. [by |-> call, blank |-> FALSE] \in Text /\ [by |-> call, blank |-> FALSE].by = call
      BY <1>3 DEF Text
    <3>3. /\ pipe \subseteq Text /\ uiOutput \subseteq Text /\ (~onPipe => pipe = {})
          /\ \A t \in pipe \cup uiOutput : t.by = call
      BY DEF IndInv, Types, Capture, Live
    <3> QED
      BY <3>1, <3>2, <3>3
  <2> QED
    BY <2>1, <2>2
<1>5. Types'
  BY <1>1, <1>4 DEF IndInv, Types
<1>6. Stack'
  BY <1>1, <1>2 DEF IndInv, Stack
<1>7. Modes' /\ Target'
  BY <1>1, <1>2 DEF IndInv, Modes, Target, Live
<1>8. Capture'
  BY <1>1, <1>4 DEF IndInv, Capture, Live
<1>9. Flags'
  BY <1>1, <1>2 DEF IndInv, Flags
<1>10. Told'
  BY <1>1, <1>2 DEF IndInv, Told
<1> QED
  BY <1>5, <1>6, <1>7, <1>8, <1>9, <1>10 DEF IndInv

(***************************************************************************)
(* Leaving: the frames from the n-th on are gone, in the ordinary way (one *)
(* frame) or in a jump.                                                    *)
(***************************************************************************)
LEMMA CutStep ==
  ASSUME IndInv, todo = <<>>, NEW n \in 1..Depth, frames' = Below(n),
         throws' = frames[n].prev, UNCHANGED <<kind, todo>>,
         result' \in {"ok", "err", "trapped"}
  PROVE  /\ Stack' /\ Modes' /\ Path' = Path /\ Depth' = n - 1
         /\ \A i \in 1..Depth' : frames'[i] = frames[i]
<1>1. frames \in Seq(Frame)
  BY DEF IndInv, Stack
<1>2. /\ frames' \in Seq(Frame) /\ Depth' = n - 1 /\ n \in Nat
      /\ \A i \in 1..(n - 1) : frames'[i] = frames[i]
  BY <1>1, CutFacts DEF Below, Depth
<1>3. Path' = Path
  BY DEF Path
<1>4. Stack'
  <2>1. todo' \in Seq({"guard", "shim"}) /\ todo' = <<>>
    BY DEF IndInv, Stack
  <2>2. \A i \in 1..Depth' : frames'[i].is = Path[i]
    BY <1>2, Shape
  <2>3. Depth' < Len(Path)
    BY <1>2, Shape
  <2> QED
    BY <2>1, <2>2, <2>3, <1>2, <1>3, Shape DEF Stack
<1>5. Modes'
  <2>1. \A i \in 1..Depth : frames[i].prev <=> i > 1
    BY DEF IndInv, Modes
  <2>2. \A i \in 1..Depth' : frames'[i].prev <=> i > 1
    BY <2>1, <1>2, Shape
  <2>3. throws' <=> n > 1
    BY <2>1
  <2>4. Depth' > 0 <=> n > 1
    BY <1>2
  <2> QED
    BY <2>2, <2>3, <2>4 DEF Modes
<1> QED
  BY <1>2, <1>3, <1>4, <1>5

\* The guard's own exit, whichever way it is reached.
LEMMA GuardLeaves ==
  ASSUME IndInv, todo = <<>>, NEW n \in 1..Depth, frames[n].is = "guard",
         Finish(frames[n]), armed' = FALSE, frames' = Below(n),
         UNCHANGED <<call, kind, todo>>, result' \in {"ok", "err", "trapped"}
  PROVE  /\ Stack' /\ Modes' /\ Target' /\ Capture' /\ Path' = Path /\ Depth' = n - 1
         /\ Entered /\ Entered'
         /\ \A t \in output' : t.by = call'
         /\ throws' \in BOOLEAN /\ onPipe' \in BOOLEAN /\ hook' \in BOOLEAN
         /\ pipe' \subseteq Text /\ output' \subseteq Text /\ uiOutput' \subseteq Text
<1>1. /\ throws' = frames[n].prev /\ onPipe' = FALSE /\ pipe' = {} /\ hook' = FALSE
      /\ uiOutput' = IF hook THEN {} ELSE uiOutput
      /\ output' \in {uiOutput, pipe, output}
  BY DEF Finish, end_ui_capture, end_capture
<1>2. /\ Stack' /\ Modes' /\ Path' = Path /\ Depth' = n - 1
      /\ \A i \in 1..Depth' : frames'[i] = frames[i]
  BY <1>1, CutStep
<1>3. Path[n] = "guard" /\ n \in 1..Len(Path)
  BY Shape
<1>4. Entered
  BY <1>3, EnteredFacts
<1>5. Entered'
  BY <1>2, <1>4 DEF Entered
<1>6. Target'
  <2>1. \A i \in 1..Depth' : i \in 1..Depth /\ i # n
    BY <1>2, Shape
  <2>2. \A i \in 1..Depth' : frames'[i].is # "guard"
    BY <2>1, <1>2, <1>3, Shape
  <2> QED
    BY <2>2 DEF Target, Live
<1>7. uiOutput' = {}
  BY <1>1 DEF IndInv, Capture, Live
<1>8. Capture'
  BY <1>1, <1>7 DEF Capture, Live
<1>9. \A t \in output' : t.by = call'
  BY <1>1, <1>4 DEF IndInv, Capture, Flags, Live
<1>10. /\ pipe' \subseteq Text /\ output' \subseteq Text /\ uiOutput' \subseteq Text
  BY <1>1, <1>7 DEF IndInv, Types
<1>11. throws' \in BOOLEAN
  BY <1>1, Shape DEF Frame
<1> QED
  BY <1>1, <1>2, <1>4, <1>5, <1>6, <1>8, <1>9, <1>10, <1>11

\* What every ordinary exit of the innermost frame keeps.
LEMMA LeaveFacts ==
  ASSUME IndInv, todo = <<>>, frames # <<>>, LeaveTop, result' \in {"ok", "err", "trapped"},
         hit' \in 0..MaxCalls, trapped' \in BOOLEAN
  PROVE  /\ Stack' /\ Modes' /\ Target' /\ Capture' /\ Types'
         /\ Path' = Path /\ Depth' = Depth - 1 /\ Depth \in 1..Len(Path)
         /\ Top.is = Path[Depth] /\ (Entered' <=> Entered)
         /\ Top.is = "guard" => Entered
         /\ Entered' => \A t \in output' : t.by = call'
         /\ UNCHANGED <<call, kind, error, todo>>
<1>1. /\ UNCHANGED <<call, kind, error, todo, alive, installed, target, exitCode, escaped>>
      /\ Depth \in 1..Len(Path) /\ Top = frames[Depth] /\ frames' = Below(Depth)
      /\ Top.is = Path[Depth]
  BY Shape DEF LeaveTop, rust, Top, Depth
<1>2. CASE Top.is = "shim" /\ throws' = Top.prev /\ UNCHANGED <<armed, stream>>
  <2>1. /\ Stack' /\ Modes' /\ Path' = Path /\ Depth' = Depth - 1
        /\ \A i \in 1..Depth' : frames'[i] = frames[i]
    BY <1>1, <1>2, CutStep
  <2>2. UNCHANGED <<armed, onPipe, pipe, output, hook, uiOutput>>
    BY <1>2 DEF stream
  <2>3. throws' \in BOOLEAN
    BY <1>1, <1>2, Shape DEF Frame
  <2>4. Types'
    BY <1>1, <2>2, <2>3 DEF IndInv, Types
  <2>5. Target'
    <3>1. \A i \in 1..Depth : frames[i].is = "guard" => i \in 1..Depth'
      BY <2>1, <1>1, <1>2, Shape
    <3>2. \A i \in 1..Depth' : i \in 1..Depth
      BY <2>1, Shape
    <3> QED
      BY <3>1, <3>2, <2>1, <2>2, <1>1 DEF IndInv, Target, Live
  <2>6. Capture'
    BY <2>2, <1>1 DEF IndInv, Capture, Live
  <2>7. Entered' <=> Entered
    BY <1>1, <2>1 DEF Entered
  <2>8. Entered => \A t \in output : t.by = call
    BY DEF IndInv, Flags
  <2> QED
    BY <1>1, <1>2, <2>1, <2>2, <2>4, <2>5, <2>6, <2>7, <2>8
<1>3. CASE Top.is = "guard" /\ armed' = FALSE /\ Finish(Top)
  <2>a. Finish(frames[Depth]) /\ Depth \in 1..Depth
    BY <1>1, <1>3
  <2>1. /\ Stack' /\ Modes' /\ Target' /\ Capture' /\ Path' = Path /\ Depth' = Depth - 1
        /\ Entered /\ Entered'
        /\ \A t \in output' : t.by = call'
        /\ throws' \in BOOLEAN /\ onPipe' \in BOOLEAN /\ hook' \in BOOLEAN
        /\ pipe' \subseteq Text /\ output' \subseteq Text /\ uiOutput' \subseteq Text
    BY <1>1, <1>3, <2>a, GuardLeaves
  <2>2. Types'
    BY <1>1, <1>3, <2>1 DEF IndInv, Types
  <2> QED
    BY <1>1, <2>1, <2>2
<1> QED
  BY <1>2, <1>3 DEF LeaveTop

LEMMA ReturnStep ==
  ASSUME IndInv, NEW how \in {"ok", "err"}, Return(how)
  PROVE  IndInv'
<1>1. /\ todo = <<>> /\ result = "running" /\ Depth = Len(Path)
      /\ hit < call /\ call > 0 /\ error.of < call
  BY KernelFacts DEF Return
<1>2. /\ frames # <<>> /\ LeaveTop /\ result' = how /\ UNCHANGED <<trapped, hit>>
      /\ hit' \in 0..MaxCalls /\ trapped' \in BOOLEAN
  BY DEF Return, IndInv, Types
<1>3. /\ Stack' /\ Modes' /\ Target' /\ Capture' /\ Types'
      /\ (Entered' <=> Entered) /\ UNCHANGED <<call, kind, error, todo>>
      /\ Entered' => \A t \in output' : t.by = call'
  BY <1>1, <1>2, LeaveFacts
<1>4. hit # call
  BY <1>1 DEF IndInv, Types
<1>5. Flags'
  BY <1>1, <1>2, <1>3 DEF IndInv, Flags
<1>6. Told'
  BY <1>2, <1>3, <1>4 DEF Told
<1> QED
  BY <1>3, <1>5, <1>6 DEF IndInv

LEMMA ReturnOuterStep ==
  ASSUME IndInv, ReturnOuter
  PROVE  IndInv'
<1>1. /\ todo = <<>> /\ result # "running" /\ frames # <<>> /\ LeaveTop /\ UNCHANGED <<trapped, hit>>
      /\ result' = IF Top.is = "shim" /\ result # "ok" THEN "err" ELSE "ok"
      /\ hit' \in 0..MaxCalls /\ trapped' \in BOOLEAN
  BY DEF ReturnOuter, IndInv, Types, Stack
<1>2. /\ Stack' /\ Modes' /\ Target' /\ Capture' /\ Types'
      /\ Path' = Path /\ Depth' = Depth - 1 /\ Depth \in 1..Len(Path) /\ Top.is = Path[Depth]
      /\ (Entered' <=> Entered) /\ UNCHANGED <<call, kind, error, todo>>
      /\ Entered' => \A t \in output' : t.by = call'
  BY <1>1, LeaveFacts
<1>3. result \in {"ok", "err", "trapped"} /\ Depth < Len(Path)
  <2>1. result # "done"
    BY <1>2 DEF IndInv, Stack
  <2> QED
    BY <2>1, <1>1, <1>2, Shape DEF IndInv, Stack, Types
<1>4. Flags'
  BY <1>1, <1>2, <1>3 DEF IndInv, Flags
<1>5. Told'
  <2>1. kind \notin {"open", "auto_wait"}
    BY <1>2, <1>3, GuardOn, Shape
  <2>2. kind = "decompile" => /\ Depth = 1 /\ Depth' = 0 /\ Top.is = "shim"
                              /\ (result = "trapped" <=> hit = call)
    BY <1>2, <1>3, GuardOn, Shape DEF IndInv, Told
  <2> QED
    BY <2>1, <2>2, <1>1, <1>2 DEF Told
<1> QED
  BY <1>2, <1>4, <1>5 DEF IndInv

LEMMA ReturnRawStep ==
  ASSUME IndInv, ReturnRaw
  PROVE  IndInv'
<1>1. /\ todo = <<>> /\ result = "running" /\ Depth = Len(Path)
      /\ hit < call /\ call > 0 /\ error.of < call
  BY KernelFacts DEF ReturnRaw
<1>2. /\ kind = "raw" /\ result' = "ok"
      /\ UNCHANGED <<call, kind, error, todo, frames, alive, installed, armed, target, exitCode, trapped, escaped>>
      /\ UNCHANGED <<throws, onPipe, pipe, output, hook, uiOutput, hit>>
  BY DEF ReturnRaw, rust, trap, stream
<1>3. Path' = Path /\ Depth' = Depth /\ (Entered' <=> Entered) /\ Path = <<>>
  BY <1>2, GuardOn DEF Path, Depth, Entered
<1>4. Types'
  BY <1>2 DEF IndInv, Types
<1>5. Stack'
  BY <1>1, <1>2, <1>3 DEF IndInv, Stack
<1>6. Modes' /\ Target' /\ Capture'
  BY <1>2, <1>3 DEF IndInv, Modes, Target, Capture, Live
<1>7. Flags' /\ Told'
  BY <1>1, <1>2, <1>3 DEF IndInv, Flags, Told
<1> QED
  BY <1>4, <1>5, <1>6, <1>7 DEF IndInv

\* A process that is gone keeps what it had.
LEMMA DieStep ==
  ASSUME IndInv, Die
  PROVE  IndInv'
<1>1. /\ alive' = FALSE
      /\ UNCHANGED <<call, kind, error, result, todo, frames, installed, armed, target, exitCode, trapped, escaped>>
      /\ UNCHANGED <<throws, onPipe, pipe, output, hook, uiOutput, hit>>
  BY DEF Die, rust, trap, stream
<1>2. Path' = Path /\ Depth' = Depth /\ (Entered' <=> Entered)
  BY <1>1 DEF Path, Depth, Entered
<1>3. Types'
  BY <1>1 DEF IndInv, Types
<1>4. Stack'
  BY <1>1, <1>2 DEF IndInv, Stack
<1>5. Modes' /\ Target' /\ Capture'
  BY <1>1, <1>2 DEF IndInv, Modes, Target, Capture, Live
<1>6. Flags' /\ Told'
  BY <1>1, <1>2 DEF IndInv, Flags, Told
<1> QED
  BY <1>3, <1>4, <1>5, <1>6 DEF IndInv

LEMMA FatalStep ==
  ASSUME IndInv, Fatal
  PROVE  IndInv'
<1>1. /\ todo = <<>> /\ result = "running" /\ Depth = Len(Path)
      /\ hit < call /\ call > 0 /\ error.of < call
  BY KernelFacts DEF Fatal
<1>2. CASE Die
  BY <1>2, DieStep
<1>3. CASE installed /\ armed /\ GuardAt(target) /\ Trap
  <2>1. target \in 1..Depth /\ frames[target].is = "guard"
    BY <1>3 DEF IndInv, Stack, Depth, GuardAt
  <2>2. /\ armed' = FALSE /\ exitCode' = call /\ trapped' = TRUE /\ hit' = call
        /\ result' = "trapped" /\ Finish(frames[target]) /\ frames' = Below(target)
        /\ UNCHANGED <<call, kind, error, todo, alive, installed, target, escaped>>
    BY <1>3 DEF Trap, rust
  <2>3. /\ Stack' /\ Modes' /\ Target' /\ Capture' /\ Path' = Path /\ Depth' = target - 1
        /\ Entered'
        /\ \A t \in output' : t.by = call'
        /\ throws' \in BOOLEAN /\ onPipe' \in BOOLEAN /\ hook' \in BOOLEAN
        /\ pipe' \subseteq Text /\ output' \subseteq Text /\ uiOutput' \subseteq Text
    BY <1>1, <2>1, <2>2, GuardLeaves
  <2>4. Types'
    BY <2>2, <2>3 DEF IndInv, Types
  <2>5. Flags'
    BY <1>1, <2>2, <2>3 DEF IndInv, Flags, Types
  <2>6. Told'
    <3>1. kind = "decompile" => Depth' > 0
      <4>1. kind = "decompile" => Path[1] = "shim" /\ Path[target] = "guard"
        BY <2>1, GuardOn, Shape
      <4>2. kind = "decompile" => target # 1
        BY <4>1
      <4> QED
        BY <4>2, <2>1, <2>3, Shape
    <3> QED
      BY <3>1, <2>2 DEF Told
  <2> QED
    BY <2>3, <2>4, <2>5, <2>6 DEF IndInv
<1> QED
  BY <1>2, <1>3 DEF Fatal

LEMMA InterrStep ==
  ASSUME IndInv, Interr
  PROVE  IndInv'
<1>1. /\ todo = <<>> /\ result = "running" /\ Depth = Len(Path)
      /\ hit < call /\ call > 0 /\ error.of < call
  BY KernelFacts DEF Interr
<1>2. CASE Die
  BY <1>2, DieStep
<1>3. CASE /\ frames # <<>> /\ LeaveTop
           /\ result' = IF Top.is = "guard" THEN "trapped" ELSE "err"
           /\ trapped' = (trapped \/ Top.is = "guard")
           /\ hit' = IF Top.is = "guard" THEN call ELSE hit
  <2>1. hit' \in 0..MaxCalls /\ trapped' \in BOOLEAN /\ result' \in {"ok", "err", "trapped"}
    BY <1>3 DEF IndInv, Types
  <2>2. /\ Stack' /\ Modes' /\ Target' /\ Capture' /\ Types'
        /\ Path' = Path /\ Depth' = Depth - 1 /\ Depth \in 1..Len(Path) /\ Top.is = Path[Depth]
        /\ (Entered' <=> Entered) /\ (Top.is = "guard" => Entered)
        /\ UNCHANGED <<call, kind, error, todo>>
        /\ Entered' => \A t \in output' : t.by = call'
    BY <1>1, <1>3, <2>1, LeaveFacts
  <2>3. hit # call
    BY <1>1 DEF IndInv, Types
  <2>4. Entered' => (trapped' <=> hit' = call')
    <3>1. Entered => (trapped <=> hit = call)
      BY DEF IndInv, Flags
    <3> QED
      BY <3>1, <1>3, <2>2
  <2>5. Flags'
    BY <1>1, <1>3, <2>2, <2>4 DEF IndInv, Flags, Types
  <2>6. Told'
    <3>1. kind \in {"open", "auto_wait", "decompile"} => Top.is = "guard"
      BY <1>1, <2>2, GuardOn
    <3>2. kind = "decompile" => Depth' > 0
      BY <1>1, <2>2, GuardOn
    <3> QED
      BY <3>1, <3>2, <1>3, <2>2 DEF Told
  <2> QED
    BY <2>2, <2>5, <2>6 DEF IndInv
<1> QED
  BY <1>2, <1>3 DEF Interr

LEMMA ThrowStep ==
  ASSUME IndInv, Throw
  PROVE  IndInv'
<1>1. /\ todo = <<>> /\ result = "running" /\ Depth = Len(Path)
      /\ hit < call /\ call > 0 /\ error.of < call
  BY KernelFacts DEF Throw
<1>2. CASE Die
  BY <1>2, DieStep
<1>3. CASE \E n \in DOMAIN frames :
             /\ frames[n].is = "shim" /\ frames' = Below(n)
             /\ throws' = frames[n].prev /\ result' = "err"
             /\ escaped' = (escaped \/ n < Len(frames))
             /\ UNCHANGED <<rust, todo, alive, stream, hit>>
             /\ UNCHANGED <<installed, armed, target, exitCode, trapped>>
  <2>1. PICK n \in 1..Depth :
          /\ frames[n].is = "shim" /\ frames' = Below(n)
          /\ throws' = frames[n].prev /\ result' = "err"
          /\ escaped' = (escaped \/ n < Depth)
          /\ UNCHANGED <<rust, todo, alive, stream, hit>>
          /\ UNCHANGED <<installed, armed, target, exitCode, trapped>>
    BY <1>3 DEF IndInv, Stack, Depth
  <2>2. /\ UNCHANGED <<call, kind, error, todo, alive, installed, armed, target>>
        /\ UNCHANGED <<exitCode, trapped, onPipe, pipe, output, hook, uiOutput, hit>>
    BY <2>1 DEF rust, stream
  <2>3. /\ Stack' /\ Modes' /\ Path' = Path /\ Depth' = n - 1
        /\ \A i \in 1..Depth' : frames'[i] = frames[i]
    BY <1>1, <2>1, <2>2, CutStep
  <2>4. Entered' <=> Entered
    BY <2>2, <2>3 DEF Entered
  <2>5. throws' \in BOOLEAN /\ escaped' \in BOOLEAN
    BY <2>1, Shape DEF Frame
  <2>6. Types'
    BY <2>1, <2>2, <2>5 DEF IndInv, Types
  <2>7. Path[n] = "shim" /\ n \in 1..Len(Path) /\ Path \in Seq({"guard", "shim"})
        /\ Depth \in Nat /\ Len(Path) \in 0..2
    BY <2>1, Shape
  <2>8. Target'
    \* The shim is innermost, and the guard around it stays.
    <3>1. CASE n = Depth
      <4>1. \A i \in 1..Depth : frames[i].is = "guard" <=> i \in 1..Depth' /\ frames'[i].is = "guard"
        BY <3>1, <2>1, <2>3, <2>7
      <4>2. \A i \in 1..Depth' : i \in 1..Depth
        BY <2>3, <2>7
      <4>3. escaped' = escaped
        BY <3>1, <2>1, <2>7 DEF IndInv, Types
      <4> QED
        BY <4>1, <4>2, <4>3, <2>2 DEF IndInv, Target, Live
    \* The guard is inside the shim, and gone.
    <3>2. CASE n # Depth
      <4>1. n < Depth /\ n = 1
        <5>1. \A d \in 0..2 : \A m \in 1..d : m # d => m < d /\ m = 1
          OBVIOUS
        <5>2. Depth \in 0..2 /\ n \in 1..Depth
          BY <1>1, <2>7
        <5> QED
          BY <5>1, <5>2, <3>2
      <4>2. Depth' = 0
        BY <4>1, <2>3
      <4>3. escaped'
        BY <4>1, <2>1, Zenon
      <4> QED
        BY <4>2, <4>3 DEF Target, Live
    <3> QED
      BY <3>1, <3>2
  <2>9. Capture'
    <3>1. ~Captures(kind)
      BY <2>7, GuardOn
    <3> QED
      BY <3>1, <2>2 DEF IndInv, Capture, Live
  <2>10. Flags'
    BY <1>1, <2>1, <2>2, <2>4 DEF IndInv, Flags
  <2>11. Told'
    <3>1. hit # call
      BY <1>1 DEF IndInv, Types
    <3> QED
      BY <3>1, <2>1, <2>2 DEF Told
  <2> QED
    BY <2>3, <2>6, <2>8, <2>9, <2>10, <2>11 DEF IndInv
<1> QED
  BY <1>2, <1>3 DEF Throw

LEMMA ReadsStep ==
  ASSUME IndInv, Reads
  PROVE  IndInv'
<1>1. /\ frames = <<>> /\ result \in {"ok", "err", "trapped"} /\ result' = "done"
      /\ UNCHANGED <<call, kind, todo, frames, alive, installed, armed, target, exitCode, trapped, escaped>>
      /\ UNCHANGED <<throws, onPipe, pipe, output, hook, uiOutput, hit>>
  BY DEF Reads, IndInv, Types, trap, stream
<1> DEFINE P == \/ kind \in {"open", "auto_wait"} /\ result = "trapped"
                \/ kind = "decompile" /\ result = "err" /\ trapped
<1>2. error' = IF P THEN kernel_exit_error ELSE error
  BY DEF Reads
<1>3. todo = <<>> /\ Depth = 0
  BY <1>1, Shape DEF IndInv, Stack
<1>4. Path' = Path /\ Depth' = Depth /\ (Entered' <=> Entered)
  BY <1>1 DEF Path, Depth, Entered
<1>5. /\ kernel_exit_error \in [of : 0..MaxCalls, code : 0..MaxCalls, diagnostic : SUBSET Text]
      /\ kernel_exit_error.of = call /\ kernel_exit_error.diagnostic \subseteq output
  BY DEF kernel_exit_error, IndInv, Types
<1>6. P => Entered
  BY <1>3, EnteredFacts
<1>7. call > 0 /\ error.of < call
  BY <1>1 DEF IndInv, Flags
<1>8. kind \in {"open", "auto_wait", "decompile"} => (P <=> hit = call)
  <2>1. kind \in {"open", "auto_wait", "decompile"} => (trapped <=> hit = call)
    BY <1>3, EnteredFacts DEF IndInv, Flags
  <2> QED
    BY <2>1, <1>1, <1>3 DEF IndInv, Told
<1> HIDE DEF P
<1>9. Types'
  BY <1>1, <1>2, <1>5 DEF IndInv, Types
<1>10. Stack'
  BY <1>1, <1>3, <1>4 DEF IndInv, Stack
<1>11. Modes' /\ Target' /\ Capture'
  BY <1>1, <1>4 DEF IndInv, Modes, Target, Capture, Live
<1>12. error'.of <= call /\ \A t \in error'.diagnostic : t.by = error'.of
  <2>1. CASE P
    BY <2>1, <1>2, <1>5, <1>6 DEF IndInv, Flags, Types
  <2>2. CASE ~P
    BY <2>2, <1>2 DEF IndInv, Flags
  <2> QED
    BY <2>1, <2>2
<1>13. Flags'
  BY <1>1, <1>4, <1>12 DEF IndInv, Flags
<1>14. Told'
  <2>1. error.of # call /\ call # 0
    BY <1>7 DEF IndInv, Types
  <2>2. kind \in {"open", "auto_wait", "decompile"} => (error'.of = call <=> hit = call)
    BY <2>1, <1>2, <1>5, <1>8
  <2> QED
    BY <2>1, <2>2, <1>1 DEF Told
<1> QED
  BY <1>9, <1>10, <1>11, <1>13, <1>14 DEF IndInv

LEMMA StutterStep ==
  ASSUME IndInv, UNCHANGED vars
  PROVE  IndInv'
<1>1. /\ UNCHANGED <<call, kind, error, result, todo, frames, alive, installed, armed, target, exitCode>>
      /\ UNCHANGED <<trapped, escaped, throws, onPipe, pipe, output, hook, uiOutput, hit>>
  BY DEF vars, rust, trap, stream
<1>2. Path' = Path /\ Depth' = Depth /\ (Entered' <=> Entered)
  BY <1>1 DEF Path, Depth, Entered
<1>3. Types'
  BY <1>1 DEF IndInv, Types
<1>4. Stack'
  BY <1>1, <1>2 DEF IndInv, Stack
<1>5. Modes' /\ Target' /\ Capture'
  BY <1>1, <1>2 DEF IndInv, Modes, Target, Capture, Live
<1>6. Flags' /\ Told'
  BY <1>1, <1>2 DEF IndInv, Flags, Told
<1> QED
  BY <1>3, <1>4, <1>5, <1>6 DEF IndInv

\* The stack, the mode of interr, the jump target, the capture and the flags
\* fit together in every reachable state, for any number of calls of any
\* kind (internal.h guarded<>, trycatch.h, runtime.cpp).
THEOREM StackInvariance == Spec => []IndInv
<1>1. IndInv /\ [Next]_vars => IndInv'
  <2> SUFFICES ASSUME IndInv, [Next]_vars PROVE IndInv'
    OBVIOUS
  <2>1. CASE \E k \in CallKind : Call(k)
    BY <2>1, CallStep
  <2>2. CASE EnterGuard
    BY <2>2, EnterGuardStep
  <2>3. CASE EnterShim
    BY <2>3, EnterShimStep
  <2>4. CASE WriteText \/ Msg
    BY <2>4, WriteSteps
  <2>5. CASE \E how \in {"ok", "err"} : Return(how)
    BY <2>5, ReturnStep
  <2>6. CASE ReturnOuter
    BY <2>6, ReturnOuterStep
  <2>7. CASE ReturnRaw
    BY <2>7, ReturnRawStep
  <2>8. CASE Fatal
    BY <2>8, FatalStep
  <2>9. CASE Interr
    BY <2>9, InterrStep
  <2>10. CASE Reads
    BY <2>10, ReadsStep
  <2>11. CASE Throw
    BY <2>11, ThrowStep
  <2>12. CASE UNCHANGED vars \/ Done \/ Dead
    BY <2>12, StutterStep DEF Done, Dead
  <2> QED
    BY <2>1, <2>2, <2>3, <2>4, <2>5, <2>6, <2>7, <2>8, <2>9, <2>10, <2>11, <2>12 DEF Next
<1> QED
  BY <1>1, InitStep, PTL DEF Spec

\* However a call left, an exception that no guard catches included, Rust finds
\* fd 1 and 2, the hook and the interr mode as they were before it (guarded<>'s
\* finish, interr_scope), and the trap disarmed unless such an exception took its
\* guard away.
THEOREM CallsRestore == Spec => []Restored
<1>1. IndInv => Restored
  <2> SUFFICES ASSUME IndInv, frames = <<>> PROVE ~throws /\ ~Live /\ ~onPipe /\ ~hook
    BY DEF Restored, Live
  <2>1. Depth = 0
    BY Shape
  <2> QED
    BY <2>1 DEF IndInv, Modes, Target, Capture, Live
<1> QED
  BY <1>1, StackInvariance, PTL

\* exit and abort jump to a guard that is on the stack (trap_exit, trap_abort:
\* g_exit_guarded and g_exit_jmp), unless an exception that no guard catches took
\* the one that armed the trap and no guard has been entered since.
THEOREM JumpsLand == Spec => []JumpTargetLive
<1>1. IndInv => JumpTargetLive
  <2>1. IndInv => DOMAIN frames = 1..Depth
    BY DEF IndInv, Stack, Depth
  <2> QED
    BY <2>1 DEF IndInv, Target, Live, JumpTargetLive, GuardAt
<1> QED
  BY <1>1, StackInvariance, PTL

\* Error::KernelExit is the trapping call's own, and so is its text
\* (runtime.rs kernel_exit_error and its callers).
THEOREM ErrorsAreOwn == Spec => []ErrorIsOwn
<1>1. IndInv => ErrorIsOwn
  BY DEF IndInv, Flags, Told, ErrorIsOwn, Idle
<1> QED
  BY <1>1, StackInvariance, PTL

\* No path has the same frame twice.
LEMMA PathDistinct ==
  ASSUME NEW k \in CallKind
  PROVE  /\ \A i, j \in 1..Len(Crosses[k]) : i # j => Crosses[k][i] # Crosses[k][j]
         /\ Len(Crosses[k]) = 2 => Crosses[k] \in {<<"shim", "guard">>, <<"guard", "shim">>}
<1>1. \/ Crosses[k] = <<"guard">> \/ Crosses[k] = <<"shim">> \/ Crosses[k] = <<>>
      \/ Crosses[k] = <<"shim", "guard">> \/ Crosses[k] = <<"guard", "shim">>
  BY Paths
<1> QED
  BY <1>1

LEMMA OneElement ==
  ASSUME NEW S, NEW s \in Seq(S), Len(s) = 1
  PROVE  s = <<s[1]>> /\ s[1] \in S
<1>1. s = <<s[1]>>
  OBVIOUS
<1>2. 1 \in 1..Len(s)
  OBVIOUS
<1>3. s[1] \in S
  BY <1>2
<1> QED
  BY <1>1, <1>3

LEMMA SmallCases == \A n \in Nat : n = 0 \/ n = 1 \/ n >= 2
OBVIOUS

LEMMA TwoLeft == \A d, t \in Nat, p \in 0..2 : d + t = p /\ t >= 2 => t = 2 /\ p = 2 /\ d = 0
OBVIOUS

\* Every variable keeps its type, and a stack never holds two guards.
THEOREM ExitTrapTypeCorrect == Spec => []TypeOK
<1>1. IndInv => TypeOK
  <2> SUFFICES ASSUME IndInv PROVE TypeOK
    OBVIOUS
  <2>1. kind \in CallKind /\ frames \in Seq(Frame) /\ todo \in Seq({"guard", "shim"})
    BY DEF IndInv, Types, Stack
  <2>2. Len(frames) <= 2 /\ DOMAIN frames = 1..Depth
    BY <2>1, Shape DEF Depth
  <2>3. \A i, j \in DOMAIN frames : i # j => frames[i].is # frames[j].is
    <3>1. \A i, j \in 1..Len(Path) : i # j => Path[i] # Path[j]
      BY <2>1, PathDistinct DEF Path
    <3> QED
      BY <3>1, <2>2, Shape
  <2>4. todo \in {<<>>, <<"guard">>, <<"shim">>, <<"shim", "guard">>, <<"guard", "shim">>}
    <3>1. CASE Len(todo) = 0
      BY <3>1, Shape
    <3>2. CASE Len(todo) = 1
      <4>1. todo[1] \in {"guard", "shim"}
        BY <3>2, <2>1, OneElement
      <4>2. todo = <<todo[1]>>
        BY <3>2, <2>1, OneElement
      <4> QED
        BY <4>1, <4>2
    <3>3. CASE Len(todo) >= 2
      <4>1. /\ Depth + Len(todo) = Len(Path)
            /\ \A i \in 1..Len(todo) : todo[i] = Path[Depth + i]
        BY <3>3, Shape DEF IndInv, Stack
      <4>2. Len(todo) = 2 /\ Len(Path) = 2 /\ Depth = 0
        <5>1. Len(todo) \in Nat /\ Depth \in Nat /\ Len(Path) \in 0..2
          BY Shape
        <5> QED
          BY <5>1, <4>1, <3>3, TwoLeft
      <4>3. todo[1] = Path[1] /\ todo[2] = Path[2]
        BY <4>1, <4>2
      <4>4. todo = <<todo[1], todo[2]>>
        BY <4>2, <2>1
      <4>5. Path \in {<<"shim", "guard">>, <<"guard", "shim">>}
        BY <4>2, <2>1, PathDistinct DEF Path
      <4> QED
        BY <4>3, <4>4, <4>5
    <3>4. Len(todo) \in Nat
      BY Shape
    <3>5. Len(todo) = 0 \/ Len(todo) = 1 \/ Len(todo) >= 2
      BY <3>4, SmallCases
    <3> QED
      BY <3>1, <3>2, <3>3, <3>5
  <2> QED
    BY <2>1, <2>2, <2>3, <2>4 DEF IndInv, Types, TypeOK, Frame
<1> QED
  BY <1>1, StackInvariance, PTL
=============================================================================

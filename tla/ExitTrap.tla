------------------------------ MODULE ExitTrap ------------------------------
(***************************************************************************)
(* The facade's guard around calls into libida (facade/internal.h,         *)
(* runtime.cpp, trycatch.h) and what the Rust side reads from it after a   *)
(* call: the exit and abort stand-ins that longjmp back to an armed guard, *)
(* the throwing mode of interr, the capture of fd 1 and 2 and of msg(),    *)
(* and the thread-local flags a later call finds.                          *)
(*                                                                         *)
(* One kernel thread makes one call at a time.  A call crosses frames: a   *)
(* guard (`guarded<>`) or a shim (`trycatch`, around every Result bridge). *)
(* A C++ exception other than an interr is caught by shims alone: it goes  *)
(* through a guard without its `finish`.                                   *)
(* libida never calls back into a guarded entry point, so a stack has at   *)
(* most one guard.  Text is kept as the call that wrote it and whether it  *)
(* is blank.                                                               *)
(***************************************************************************)
EXTENDS Naturals, Sequences

CONSTANT MaxCalls     \* how many calls the Rust side makes

ASSUME CallsAssumption == MaxCalls \in Nat

\* The frames a call goes through, outermost first.  `edit` is a write of a
\* type, `probe` the fault injection of the tests, `raw` a forwarder with no
\* Result.
Crosses ==
  [open      |-> <<"guard">>, auto_wait |-> <<"guard">>, close |-> <<"guard">>,
   edit      |-> <<"guard">>,
   decompile |-> <<"shim", "guard">>, shim |-> <<"shim">>,
   probe     |-> <<"guard", "shim">>, raw |-> <<>>]

CallKind == DOMAIN Crosses

\* Opening and the writes of types capture what the kernel prints.
Captures(k) == k \in {"open", "edit"}

Text == [by : 1..MaxCalls, blank : BOOLEAN]

VARIABLES
  call,       \* the number of the current or last call, and its kind
  kind,
  todo,       \* frames still to be entered
  frames,     \* the frames on the stack, innermost last
  result,     \* "running", how the last frame left, or "done" once Rust read it
  error,      \* the last Error::KernelExit built, and the call it is about
  alive,      \* the process
  installed,  \* g_trap_installed
  armed,      \* g_exit_guarded
  target,     \* g_exit_jmp: the depth of the frame it restores
  exitCode,   \* g_exit_code, as the call that set it
  trapped,    \* g_trapped
  throws,     \* interr throws (set_interr_throws)
  onPipe,     \* fd 1 and 2 lead into the capture pipe
  pipe,       \* what was written to it
  output,     \* g_output
  hook,       \* the HT_UI hook is installed
  uiOutput,   \* g_ui_output
  hit,        \* history: the last call that trapped a fatal
  escaped     \* history: an exception left the guard that armed the trap

rust   == <<call, kind, error>>
trap   == <<installed, armed, target, exitCode, trapped, escaped>>
stream == <<onPipe, pipe, output, hook, uiOutput>>
vars   == <<rust, todo, frames, result, alive, trap, throws, stream, hit>>

NoError == [of |-> 0, code |-> 0, diagnostic |-> {}]

Init ==
  /\ call = 0 /\ kind = "raw" /\ todo = <<>> /\ frames = <<>>
  /\ result = "done" /\ error = NoError /\ alive = TRUE
  /\ installed = FALSE /\ armed = FALSE /\ target = 0
  /\ exitCode = 0 /\ trapped = FALSE /\ throws = FALSE
  /\ onPipe = FALSE /\ pipe = {} /\ output = {}
  /\ hook = FALSE /\ uiOutput = {} /\ hit = 0 /\ escaped = FALSE

\* Control is in Rust, between two calls.
Idle == alive /\ result = "done"

\* Control is in libida.
InKernel == alive /\ todo = <<>> /\ result = "running"

Top == frames[Len(frames)]
Below(n) == SubSeq(frames, 1, n - 1)

(***************************************************************************)
(* Entering a call.                                                        *)
(***************************************************************************)
\* Mutant: libida calls back into an entry point of the facade.
CallNested(k) ==
  /\ Idle \/ InKernel
  /\ call < MaxCalls
  /\ call' = call + 1 /\ kind' = k
  /\ todo' = Crosses[k] /\ result' = "running"
  /\ UNCHANGED <<frames, error, alive, trap, throws, stream, hit>>

Call(k) ==
  /\ Idle /\ call < MaxCalls
  /\ call' = call + 1 /\ kind' = k
  /\ todo' = Crosses[k] /\ result' = "running"
  /\ UNCHANGED <<frames, error, alive, trap, throws, stream, hit>>

\* install_fatal_traps: libida's exit and abort slots, redirected once.
install_fatal_traps == installed' = TRUE

\* begin_capture, off when pipe() fails: fd 1 and 2 lead into a pipe.
begin_capture(on) == onPipe' = on

\* begin_ui_capture.
begin_ui_capture ==
  /\ hook' = Captures(kind)
  /\ uiOutput' = IF Captures(kind) THEN {} ELSE uiOutput

\* Mutant: the flag of the last trap is left standing.
EnterGuardKeepsFlag ==
  /\ alive /\ todo # <<>> /\ Head(todo) = "guard"
  /\ install_fatal_traps /\ output' = {}
  /\ \E p \in IF Captures(kind) THEN BOOLEAN ELSE {FALSE} :
       /\ begin_capture(p)
       /\ frames' = Append(frames, [is |-> "guard", prev |-> throws, cap |-> p])
  /\ begin_ui_capture
  /\ throws' = TRUE /\ armed' = TRUE /\ target' = Len(frames) + 1 /\ escaped' = FALSE
  /\ todo' = Tail(todo)
  /\ UNCHANGED <<rust, result, alive, exitCode, trapped, pipe, hit>>

\* guarded<> up to fn(): the GOT is redirected once, the flags of the last
\* call are cleared, capture begins (it is off when pipe() fails) and the
\* jump target is set.
EnterGuard ==
  /\ alive /\ todo # <<>> /\ Head(todo) = "guard"
  /\ install_fatal_traps /\ trapped' = FALSE /\ output' = {}
  /\ \E p \in IF Captures(kind) THEN BOOLEAN ELSE {FALSE} :
       /\ begin_capture(p)
       /\ frames' = Append(frames, [is |-> "guard", prev |-> throws, cap |-> p])
  /\ begin_ui_capture
  /\ throws' = TRUE /\ armed' = TRUE /\ target' = Len(frames) + 1 /\ escaped' = FALSE
  /\ todo' = Tail(todo)
  /\ UNCHANGED <<rust, result, alive, exitCode, pipe, hit>>

\* trycatch: an interr_scope on the stack.
EnterShim ==
  /\ alive /\ todo # <<>> /\ Head(todo) = "shim"
  /\ frames' = Append(frames, [is |-> "shim", prev |-> throws, cap |-> FALSE])
  /\ throws' = TRUE /\ todo' = Tail(todo)
  /\ UNCHANGED <<rust, result, alive, trap, stream, hit>>

(***************************************************************************)
(* What the kernel does meanwhile.                                         *)
(***************************************************************************)
\* Text on fd 1 or 2 that the pipe takes; without a capture it is the
\* console's.
WriteText ==
  /\ InKernel /\ onPipe
  /\ \E b \in BOOLEAN : pipe' = pipe \cup {[by |-> call, blank |-> b]}
  /\ UNCHANGED <<rust, todo, frames, result, alive, trap, throws,
                 onPipe, output, hook, uiOutput, hit>>

\* ui_msg_capture_cb.
Msg ==
  /\ InKernel /\ hook
  /\ uiOutput' = uiOutput \cup {[by |-> call, blank |-> FALSE]}
  /\ UNCHANGED <<rust, todo, frames, result, alive, trap, throws,
                 onPipe, pipe, output, hook, hit>>

(***************************************************************************)
(* Leaving a call.                                                         *)
(***************************************************************************)
\* end_capture: fd 1 and 2 are restored and the pipe drained over g_output.
end_capture(f) == IF f.cap THEN pipe ELSE output

\* end_ui_capture: the text of msg() takes the place of nothing but blanks.
end_ui_capture(drained) ==
  /\ output' = IF hook /\ uiOutput # {} /\ (\A t \in drained : t.blank)
               THEN uiOutput ELSE drained
  /\ hook' = FALSE
  /\ uiOutput' = IF hook THEN {} ELSE uiOutput

\* The `finish` of guarded<>.
Finish(f) ==
  /\ throws' = f.prev
  /\ onPipe' = FALSE /\ pipe' = {}
  /\ end_ui_capture(end_capture(f))

\* Mutant: a guard that returns in the ordinary way stays armed.
LeaveTopArmed ==
  /\ \/ Top.is = "shim" /\ throws' = Top.prev /\ UNCHANGED stream
     \/ Top.is = "guard" /\ Finish(Top)
  /\ frames' = Below(Len(frames))
  /\ UNCHANGED <<rust, todo, alive, installed, armed, target, exitCode, escaped>>

\* The innermost frame ends in its ordinary way, as a return or a catch of its
\* own: a shim's scope restores the interr mode, a guard disarms and finishes.
LeaveTop ==
  /\ \/ Top.is = "shim" /\ throws' = Top.prev /\ UNCHANGED <<armed, stream>>
     \/ Top.is = "guard" /\ armed' = FALSE /\ Finish(Top)
  /\ frames' = Below(Len(frames))
  /\ UNCHANGED <<rust, todo, alive, installed, target, exitCode, escaped>>

\* The kernel returns, with what it was asked for or with a failure.
Return(how) ==
  /\ InKernel /\ frames # <<>>
  /\ result' = how
  /\ LeaveTop /\ UNCHANGED <<trapped, hit>>

\* The outer frame follows.  decompile throws when the guard gave it
\* nothing, which its shim turns into an Err; the probe's guard returns what
\* its shim caught.
ReturnOuter ==
  /\ alive /\ frames # <<>> /\ result # "running"
  /\ result' = IF Top.is = "shim" /\ result # "ok" THEN "err" ELSE "ok"
  /\ LeaveTop /\ UNCHANGED <<trapped, hit>>

\* A forwarder with no frame returns.
ReturnRaw ==
  /\ InKernel /\ kind = "raw"
  /\ result' = "ok"
  /\ UNCHANGED <<rust, todo, frames, alive, trap, throws, stream, hit>>

Die ==
  /\ alive' = FALSE
  /\ UNCHANGED <<rust, todo, frames, result, trap, throws, stream, hit>>

\* Mutant: the jump leaves capture and interr mode to the next call.
TrapSkipsFinish ==
  /\ armed' = FALSE /\ exitCode' = call
  /\ trapped' = TRUE /\ hit' = call
  /\ result' = "trapped"
  /\ frames' = Below(target)
  /\ UNCHANGED <<rust, todo, alive, installed, target, throws, stream, escaped>>

\* trap_exit and trap_abort with a guard armed: the frames above the guard
\* are gone, their destructors never run, and the guard takes its setjmp
\* branch.
Trap ==
  /\ armed' = FALSE /\ exitCode' = call
  /\ trapped' = TRUE /\ hit' = call
  /\ result' = "trapped" /\ Finish(frames[target])
  /\ frames' = Below(target)
  /\ UNCHANGED <<rust, todo, alive, installed, target, escaped>>

GuardAt(depth) == depth \in DOMAIN frames /\ frames[depth].is = "guard"

\* libida calls exit or abort.  A jump into a frame that has returned is
\* undefined: the process is taken to be lost.
Fatal ==
  /\ InKernel
  /\ IF installed /\ armed /\ GuardAt(target) THEN Trap ELSE Die

\* libida calls interr: thrown to the innermost frame, or the end.
Interr ==
  /\ InKernel
  /\ IF frames = <<>> \/ ~throws THEN Die
     ELSE /\ result' = IF Top.is = "guard" THEN "trapped" ELSE "err"
          /\ trapped' = (trapped \/ Top.is = "guard")
          /\ hit' = IF Top.is = "guard" THEN call ELSE hit
          /\ LeaveTop

\* Any other C++ exception (bad_alloc, one of Hex-Rays): the innermost shim
\* catches it, and the guards inside that shim are gone, the trap still armed.
\* With no shim it is std::abort (`catch (...)` of a type write) or reaches a
\* caller in Rust, and either ends the process.
Throw ==
  /\ InKernel
  /\ IF \A i \in DOMAIN frames : frames[i].is = "guard" THEN Die
     ELSE \E n \in DOMAIN frames :
            /\ frames[n].is = "shim" /\ frames' = Below(n)
            /\ throws' = frames[n].prev /\ result' = "err"
            /\ escaped' = (escaped \/ n < Len(frames))
            /\ UNCHANGED <<rust, todo, alive, stream, hit>>
            /\ UNCHANGED <<installed, armed, target, exitCode, trapped>>

\* kernel_exit_error: the code and the trimmed text the facade kept.
kernel_exit_error ==
  [of |-> call, code |-> exitCode, diagnostic |-> {t \in output : ~t.blank}]

\* Back in Rust: open and auto_wait compare the code they got with
\* EXIT_TRAPPED, decompile asks was_trapped when it got an Err, close and
\* the others look at nothing.
Reads ==
  /\ alive /\ frames = <<>> /\ result \notin {"running", "done"}
  /\ result' = "done"
  /\ error' = IF \/ kind \in {"open", "auto_wait"} /\ result = "trapped"
                 \/ kind = "decompile" /\ result = "err" /\ trapped
              THEN kernel_exit_error
              ELSE error
  /\ UNCHANGED <<call, kind, todo, frames, alive, trap, throws, stream, hit>>

Done == Idle /\ call = MaxCalls /\ UNCHANGED vars
Dead == ~alive /\ UNCHANGED vars

Next ==
  \/ \E k \in CallKind : Call(k)
  \/ EnterGuard \/ EnterShim
  \/ WriteText \/ Msg
  \/ \E how \in {"ok", "err"} : Return(how)
  \/ ReturnOuter \/ ReturnRaw \/ Fatal \/ Interr \/ Throw \/ Reads
  \/ Done \/ Dead

Spec == Init /\ [][Next]_vars

(***************************************************************************)
(* Properties.                                                             *)
(***************************************************************************)
\* The variables have their types, and one guard at most is on the stack.
TypeOK ==
  /\ call \in 0..MaxCalls /\ kind \in CallKind
  /\ todo \in {<<>>, <<"guard">>, <<"shim">>, <<"shim", "guard">>, <<"guard", "shim">>}
  /\ frames \in Seq([is : {"guard", "shim"}, prev : BOOLEAN, cap : BOOLEAN])
  /\ Len(frames) <= 2
  /\ \A i, j \in DOMAIN frames : i # j => frames[i].is # frames[j].is
  /\ result \in {"running", "ok", "err", "trapped", "done"}
  /\ error \in [of : 0..MaxCalls, code : 0..MaxCalls, diagnostic : SUBSET Text]
  /\ alive \in BOOLEAN /\ installed \in BOOLEAN /\ armed \in BOOLEAN
  /\ target \in 0..2 /\ exitCode \in 0..MaxCalls /\ hit \in 0..MaxCalls
  /\ trapped \in BOOLEAN /\ throws \in BOOLEAN
  /\ onPipe \in BOOLEAN /\ hook \in BOOLEAN /\ escaped \in BOOLEAN
  /\ pipe \subseteq Text /\ output \subseteq Text /\ uiOutput \subseteq Text

\* Whichever way a call left (its return, a jump over the frames above the
\* guard, an interr, or an exception no guard catches), Rust finds fd 1 and 2 its
\* own, no hook left and interr in the mode it had: an exception that lives
\* through a guard crosses one that captures nothing, under a shim that puts the
\* mode back.  The trap is disarmed but after such an exception.
Restored ==
  alive /\ frames = <<>> /\ todo = <<>> =>
    ~throws /\ ~onPipe /\ ~hook /\ (armed => escaped)

\* An armed trap restores a guard that is on the stack, so the stand-ins do not
\* longjmp into a frame that has returned, unless an exception took that guard
\* away and no guard has been entered since.
JumpTargetLive == alive /\ armed /\ ~escaped => GuardAt(target)

\* "jump back to the armed guard if a guarded kernel call is on the stack, else
\* fall through to the real libc exit" (runtime.cpp): the trap is armed only
\* while its guard is on the stack.
ArmedOnStack == alive /\ armed => GuardAt(target)

\* Error::KernelExit is raised by the call that trapped a fatal and by no
\* later one, however the flags were left, and its diagnostic is text of
\* that same call.
ErrorIsOwn ==
  /\ \A t \in error.diagnostic : t.by = error.of
  /\ Idle /\ kind \in {"open", "auto_wait", "decompile"} =>
       ((error.of = call) <=> (hit = call /\ call # 0))

\* What the documentation says of the error: its code is the one the kernel
\* passed to exit() in this operation.
CodeIsOwn == error.of # 0 => error.code = error.of

=============================================================================

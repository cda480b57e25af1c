------------------------------- MODULE Kernel -------------------------------
(***************************************************************************)
(* How idakit hosts IDA's kernel: the process-wide claim, bring-up on the  *)
(* caller's thread (`Ida::here`) or on a thread of its own (`Ida::run`),   *)
(* the job pump that serves `Ida::call`, and the guard that re-points      *)
(* libida's `g_main` before a `Database` touches the kernel.               *)
(*                                                                         *)
(* Every user thread t is the host U(t); the kernel thread that a `run` of *)
(* t spawns is the host K(t).  A refused `here` or `run` swaps TRUE into a *)
(* claim that is TRUE and changes nothing, so it is a stuttering step.     *)
(* What a job does between two kernel calls, and the values it returns,    *)
(* are left out.                                                           *)
(***************************************************************************)
EXTENDS Naturals, Sequences, FiniteSets

CONSTANTS Thread,     \* the threads of the program
          NoHost,     \* a null `g_main`, or no open database
          Reentrant   \* whether a job may itself use `Ida::call`

ASSUME KernelAssumption ==
  /\ NoHost \notin Thread \X {"user", "kernel"}
  /\ Reentrant \in BOOLEAN

Host == Thread \X {"user", "kernel"}
U(t) == <<t, "user">>
K(t) == <<t, "kernel">>

VARIABLES
  live,      \* KERNEL_LIVE
  inited,    \* KERNEL_INITED
  libReady,  \* libida itself: `init_library` has succeeded
  gMain,     \* libida's `g_main`: the host it takes for the main thread
  pc,        \* where each host is
  owned,     \* the threads holding an owned `Database`
  isOpen,    \* the hosts holding a `Database` whose `is_open` is set
  kdb,       \* the host whose `Database` opened what libida has open; a close
             \* that traps counts as one, since idakit asks no further
  op,        \* the kernel call a host is making
  inside,    \* the hosts past `ensure_kernel_thread`
  handles,   \* handles[r]: the threads holding an `Ida` of r's run
  queue,     \* queue[r]: the callers of the jobs in r's channel
  job,       \* the caller whose job r's pump is running
  call       \* how far each host's `Ida::call` has got

vars == <<live, inited, libReady, gMain, pc, owned, isOpen, kdb, op, inside,
          handles, queue, job, call>>

claim    == <<live, owned>>
libida   == <<libReady, gMain, kdb>>
kernelOp == <<isOpen, op, inside>>
channel  == <<handles, queue, job, call>>

BringUp == {"steal", "reclaim", "init", "initing", "batch"}

Init ==
  /\ live = FALSE
  /\ inited = FALSE
  /\ libReady = FALSE
  /\ gMain \in {U(t) : t \in Thread}
  /\ pc = [h \in Host |-> IF h[2] = "user" THEN "idle" ELSE "none"]
  /\ owned = {}
  /\ isOpen = {}
  /\ kdb = NoHost
  /\ op = [h \in Host |-> "none"]
  /\ inside = {}
  /\ handles = [r \in Thread |-> {}]
  /\ queue = [r \in Thread |-> <<>>]
  /\ job = [r \in Thread |-> NoHost]
  /\ call = [h \in Host |-> "none"]

Goto(h, from, to) ==
  /\ pc[h] = from
  /\ pc' = [pc EXCEPT ![h] = to]

\* A thread whose own code is running: it is in no call into idakit.
Free(t) == pc[U(t)] \in {"idle", "app"} /\ call[U(t)] = "none"
                                         /\ op[U(t)] = "none"

(***************************************************************************)
(* KernelClaim::acquire, by `here` and by `run`.                           *)
(***************************************************************************)
Here(t) ==
  /\ Free(t)
  /\ ~live
  /\ live' = TRUE
  /\ Goto(U(t), "idle", "steal")
  /\ UNCHANGED <<inited, owned, libida, kernelOp, channel>>

Run(t) ==
  /\ Free(t)
  /\ ~live
  /\ live' = TRUE
  /\ Goto(U(t), "idle", "spawn")
  /\ UNCHANGED <<inited, owned, libida, kernelOp, channel>>

\* The frame of `run` keeps the sender until it gives it to `app`.
SpawnKernel(t) ==
  /\ pc[U(t)] = "spawn"
  /\ pc' = [pc EXCEPT ![U(t)] = "setup", ![K(t)] = "steal"]
  /\ handles' = [handles EXCEPT ![t] = {t}]
  /\ UNCHANGED <<inited, claim, libida, kernelOp, queue, job, call>>

\* The OS refuses the thread: `expect` unwinds through the claim.
SpawnPanics(t) ==
  /\ Goto(U(t), "spawn", "idle")
  /\ live' = FALSE
  /\ UNCHANGED <<inited, owned, libida, kernelOp, channel>>

(***************************************************************************)
(* bring_up_kernel, on the thread of `here` or on the kernel thread.       *)
(***************************************************************************)
StealMain(h) ==
  /\ Goto(h, "steal", "reclaim")
  /\ gMain' = NoHost
  /\ UNCHANGED <<inited, claim, libReady, kdb, kernelOp, channel>>

\* What `is_main_thread` leaves in `g_main` when h asks.
Claimed(h) == IF gMain = NoHost THEN h ELSE gMain

\* A bring-up that fails on h: `here` drops its claim on the way out, the
\* kernel thread returns and leaves `run` to join it.
Fails(h) ==
  IF h[2] = "user"
  THEN pc' = [pc EXCEPT ![h] = "idle"] /\ live' = FALSE
  ELSE pc' = [pc EXCEPT ![h] = "exited"] /\ live' = live

Reclaim(h) ==
  /\ pc[h] = "reclaim"
  /\ gMain' = Claimed(h)
  /\ IF gMain' = h
     THEN pc' = [pc EXCEPT ![h] = "init"] /\ live' = live
     ELSE Fails(h)
  /\ UNCHANGED <<inited, owned, libReady, kdb, kernelOp, channel>>

\* The prologue of `is_main_thread` does not decode.
NotLocated(h) ==
  /\ pc[h] = "steal"
  /\ Fails(h)
  /\ UNCHANGED <<inited, owned, libida, kernelOp, channel>>

InitOrSkip(h) ==
  /\ Goto(h, "init", IF inited THEN "batch" ELSE "initing")
  /\ inited' = TRUE
  /\ UNCHANGED <<claim, libida, kernelOp, channel>>

InitLibrary(h) ==
  /\ Goto(h, "initing", "batch")
  /\ libReady' = TRUE
  /\ UNCHANGED <<inited, claim, gMain, kdb, kernelOp, channel>>

\* Mutant: a failed initialization is not forgotten.
InitFailsForGood(h) ==
  /\ pc[h] = "initing"
  /\ Fails(h)
  /\ UNCHANGED <<inited, owned, libida, kernelOp, channel>>

InitFails(h) ==
  /\ pc[h] = "initing"
  /\ inited' = FALSE
  /\ Fails(h)
  /\ UNCHANGED <<owned, libida, kernelOp, channel>>

\* After `set_batch`: `here` has its `Database`, the kernel thread reports
\* that it is up and starts its pump.  Both are fresh, with nothing open.
IsUp(h) ==
  /\ Goto(h, "batch", IF h[2] = "user" THEN "idle" ELSE "pump")
  /\ owned' = IF h[2] = "user" THEN owned \cup {h[1]} ELSE owned
  /\ isOpen' = isOpen \ {h}
  /\ UNCHANGED <<live, inited, libida, op, inside, channel>>

(***************************************************************************)
(* An owned `Database`: it moves between threads, and dropping it releases *)
(* the claim and nothing else.                                             *)
(***************************************************************************)
Idle(t) == pc[U(t)] = "idle" /\ Free(t)

Move(t, u) ==
  /\ t \in owned /\ u # t
  /\ Idle(t) /\ Idle(u)
  /\ owned' = (owned \ {t}) \cup {u}
  /\ isOpen' = IF U(t) \in isOpen THEN (isOpen \ {U(t)}) \cup {U(u)}
                ELSE isOpen \ {U(u)}
  /\ kdb' = IF kdb = U(t) /\ U(t) \in isOpen THEN U(u) ELSE kdb
  /\ UNCHANGED <<live, inited, libReady, gMain, pc, op, inside, channel>>

DropOwned(t) ==
  /\ t \in owned /\ Idle(t)
  /\ owned' = owned \ {t}
  /\ live' = FALSE
  /\ isOpen' = isOpen \ {U(t)}
  /\ UNCHANGED <<inited, libida, pc, op, inside, channel>>

(***************************************************************************)
(* A kernel call: the guard, then the call itself.  `close` returns before *)
(* it when nothing is open.                                                *)
(***************************************************************************)
HasDatabase(h) ==
  /\ op[h] = "none" /\ call[h] = "none"
  /\ \/ h[2] = "user" /\ h[1] \in owned /\ pc[h] = "idle"
     \/ h[2] = "kernel" /\ pc[h] = "job"

\* Mutant: the call is made without looking at `g_main`.
Unguarded(h) ==
  /\ inside' = inside \cup {h}
  /\ UNCHANGED gMain

\* `is_main_thread` first; `g_main` is nulled when it names somebody else.
EnsureKernelThread(h) ==
  /\ inside' = IF Claimed(h) = h THEN inside \cup {h} ELSE inside
  /\ gMain' = IF Claimed(h) = h THEN h ELSE NoHost

Begin(h, what) ==
  /\ what = "close" => h \in isOpen
  /\ op' = [op EXCEPT ![h] = what]
  /\ EnsureKernelThread(h)
  /\ UNCHANGED <<inited, claim, libReady, kdb, isOpen, channel>>

BeginOp(h, what) ==
  /\ HasDatabase(h)
  /\ Begin(h, what)
  /\ UNCHANGED pc

\* The re-steal of a guard that found `g_main` elsewhere; `expect` panics
\* when it does not take.
ReSteal(h) ==
  /\ op[h] # "none" /\ h \notin inside
  /\ gMain' = Claimed(h)
  /\ IF gMain' = h
     THEN inside' = inside \cup {h} /\ UNCHANGED op
     ELSE op' = [op EXCEPT ![h] = "none"] /\ UNCHANGED inside
  /\ UNCHANGED <<inited, claim, libReady, kdb, pc, isOpen, channel>>

Returns(h) ==
  /\ op' = [op EXCEPT ![h] = "none"]
  /\ inside' = inside \ {h}
  /\ UNCHANGED <<inited, claim, libReady, gMain, pc, channel>>

\* `is_open` is set before `auto_wait`, so a trap in the analysis ends here.
OpenReturns(h) ==
  /\ op[h] = "open" /\ h \in inside
  /\ kdb' = h
  /\ isOpen' = isOpen \cup {h}
  /\ Returns(h)

CloseReturns(h) ==
  /\ op[h] = "close" /\ h \in inside
  /\ kdb' = NoHost
  /\ isOpen' = isOpen \ {h}
  /\ Returns(h)

\* An `open` that fails or traps, and every other call.
PlainReturns(h) ==
  /\ op[h] \in {"open", "read"} /\ h \in inside
  /\ Returns(h)
  /\ UNCHANGED <<kdb, isOpen>>

(***************************************************************************)
(* Ida::call and the pump.                                                 *)
(***************************************************************************)
\* Mutant: the caller does not wait for its answer.
CallsAndForgets(u, r) ==
  /\ u \in handles[r] /\ Free(u)
  /\ queue' = [queue EXCEPT ![r] = Append(@, U(u))]
  /\ UNCHANGED <<inited, claim, libida, kernelOp, pc, handles, job, call>>

\* The receiver goes with the kernel thread, and a send then fails.
Call(u, r) ==
  /\ u \in handles[r] /\ Free(u)
  /\ IF pc[K(r)] \in {"none", "exited"}
     THEN call' = [call EXCEPT ![U(u)] = "disconnected"] /\ UNCHANGED queue
     ELSE /\ call' = [call EXCEPT ![U(u)] = "sent"]
          /\ queue' = [queue EXCEPT ![r] = Append(@, U(u))]
  /\ UNCHANGED <<inited, claim, libida, kernelOp, pc, handles, job>>

\* A job that captured a handle and calls through it.
CallFromJob(r) ==
  /\ Reentrant
  /\ pc[K(r)] = "job" /\ op[K(r)] = "none" /\ call[K(r)] = "none"
  /\ call' = [call EXCEPT ![K(r)] = "sent"]
  /\ queue' = [queue EXCEPT ![r] = Append(@, K(r))]
  /\ UNCHANGED <<inited, claim, libida, kernelOp, pc, handles, job>>

CallReturns(h) ==
  /\ call[h] \in {"ok", "panicked", "disconnected"}
  /\ call' = [call EXCEPT ![h] = "none"]
  /\ UNCHANGED <<inited, claim, libida, kernelOp, pc, handles, queue, job>>

TakeJob(r) ==
  /\ Goto(K(r), "pump", "job")
  /\ queue[r] # <<>>
  /\ job' = [job EXCEPT ![r] = Head(queue[r])]
  /\ queue' = [queue EXCEPT ![r] = Tail(@)]
  /\ UNCHANGED <<inited, claim, libida, kernelOp, handles, call>>

\* Mutant: a panicking job takes the pump with it, unanswered.
PanicKillsPump(r, answer) ==
  /\ pc[K(r)] = "job" /\ op[K(r)] = "none" /\ call[K(r)] = "none"
  /\ pc' = [pc EXCEPT ![K(r)] = IF answer = "ok" THEN "pump" ELSE "exited"]
  /\ call' = [call EXCEPT ![job[r]] = IF answer = "ok" THEN answer ELSE @]
  /\ job' = [job EXCEPT ![r] = NoHost]
  /\ UNCHANGED <<inited, claim, libida, kernelOp, handles, queue>>

\* The closure returns or panics; either way its caller hears of it.
JobEnds(r, answer) ==
  /\ Goto(K(r), "job", "pump")
  /\ op[K(r)] = "none" /\ call[K(r)] = "none"
  /\ call' = [call EXCEPT ![job[r]] = answer]
  /\ job' = [job EXCEPT ![r] = NoHost]
  /\ UNCHANGED <<inited, claim, libida, kernelOp, handles, queue>>

\* Mutant: the pump polls its channel and leaves when it is empty.
PumpPolls(r) ==
  /\ Goto(K(r), "pump", "close")
  /\ queue[r] = <<>>
  /\ UNCHANGED <<inited, claim, libida, kernelOp, channel>>

\* Mutant: the pump takes a closed channel for one that is empty.
PumpSpins(r) ==
  /\ Goto(K(r), "pump", "pump")
  /\ queue[r] = <<>> /\ handles[r] = {}
  /\ UNCHANGED <<inited, claim, libida, kernelOp, channel>>

\* Every sender is gone and the channel is empty.
PumpEnds(r) ==
  /\ Goto(K(r), "pump", "close")
  /\ queue[r] = <<>> /\ handles[r] = {}
  /\ UNCHANGED <<inited, claim, libida, kernelOp, channel>>

CloseAtExit(r) ==
  /\ pc[K(r)] = "close" /\ op[K(r)] = "none"
  /\ Begin(K(r), "close")
  /\ UNCHANGED pc

\* Mutant: the kernel thread ends without closing.
ExitsOpen(r) ==
  /\ Goto(K(r), "close", "exited")
  /\ op[K(r)] = "none"
  /\ UNCHANGED <<inited, claim, libida, kernelOp, channel>>

\* The receiver is dropped with whatever it still holds.
KernelExits(r) ==
  /\ Goto(K(r), "close", "exited")
  /\ op[K(r)] = "none" /\ K(r) \notin isOpen
  /\ call' = [h \in Host |-> IF \E i \in DOMAIN queue[r] : queue[r][i] = h
                             THEN "disconnected" ELSE call[h]]
  /\ queue' = [queue EXCEPT ![r] = <<>>]
  /\ UNCHANGED <<inited, claim, libida, kernelOp, handles, job>>

(***************************************************************************)
(* The caller's side of `run`, and what `app` does with its handle.        *)
(***************************************************************************)
SetupOk(r) ==
  /\ Goto(U(r), "setup", "app")
  /\ pc[K(r)] = "pump"
  /\ UNCHANGED <<inited, claim, libida, kernelOp, channel>>

\* Leaving `run`: the kernel thread has been joined, the claim goes last.
Leave(r) ==
  /\ pc[K(r)] = "exited"
  /\ pc' = [pc EXCEPT ![U(r)] = "idle", ![K(r)] = "none"]
  /\ live' = FALSE

SetupFails(r) ==
  /\ pc[U(r)] = "setup"
  /\ Leave(r)
  /\ handles' = [handles EXCEPT ![r] = @ \ {r}]
  /\ UNCHANGED <<inited, owned, libida, kernelOp, queue, job, call>>

CloneTo(u, v, r) ==
  /\ u \in handles[r] /\ Free(u) /\ v \notin handles[r]
  /\ handles' = [handles EXCEPT ![r] = @ \cup {v}]
  /\ UNCHANGED <<inited, claim, libida, kernelOp, pc, queue, job, call>>

DropHandle(u, r) ==
  /\ u \in handles[r] /\ u # r /\ Free(u)
  /\ handles' = [handles EXCEPT ![r] = @ \ {u}]
  /\ UNCHANGED <<inited, claim, libida, kernelOp, pc, queue, job, call>>

\* Mutant: a panic in `app` unwinds past the join.
AppUnwinds(r, stowed) ==
  /\ Free(r)
  /\ Goto(U(r), "app", "idle")
  /\ live' = FALSE
  /\ handles' = [handles EXCEPT ![r] = @ \ {r}]
  /\ UNCHANGED <<inited, owned, libida, kernelOp, queue, job, call>>

\* `app` returns or panics, dropping its handle unless it stowed a clone.
AppReturns(r, stowed) ==
  /\ Free(r)
  /\ Goto(U(r), "app", "join")
  /\ handles' = [handles EXCEPT ![r] = IF stowed THEN @ ELSE @ \ {r}]
  /\ UNCHANGED <<inited, claim, libida, kernelOp, queue, job, call>>

Join(r) ==
  /\ pc[U(r)] = "join"
  /\ Leave(r)
  /\ UNCHANGED <<inited, owned, libida, kernelOp, channel>>

(***************************************************************************)
(* The specification.                                                      *)
(***************************************************************************)
BringUpStep(h) ==
  StealMain(h) \/ Reclaim(h) \/ InitOrSkip(h) \/ InitLibrary(h) \/ IsUp(h)

BringUpFault(h) == NotLocated(h) \/ InitFails(h)

OpStep(h) ==
  ReSteal(h) \/ OpenReturns(h) \/ CloseReturns(h) \/ PlainReturns(h)

PumpStep(r) ==
  TakeJob(r) \/ PumpEnds(r) \/ CloseAtExit(r) \/ KernelExits(r)

RunStep(r) == SpawnKernel(r) \/ SetupOk(r) \/ SetupFails(r) \/ Join(r)

\* What the program does with the interface.
ClientStep(t) ==
  \/ Here(t) \/ Run(t) \/ DropOwned(t)
  \/ \E u \in Thread : Move(t, u)
  \/ \E stowed \in BOOLEAN : AppReturns(t, stowed)
  \/ \E r \in Thread : Call(t, r) \/ DropHandle(t, r)
  \/ \E r, v \in Thread : CloneTo(t, v, r)

HostStep(h) ==
  \/ BringUpStep(h) \/ BringUpFault(h)
  \/ OpStep(h) \/ CallReturns(h)
  \/ \E what \in {"open", "close", "read"} : BeginOp(h, what)

KernelStep(r) ==
  \/ PumpStep(r) \/ RunStep(r) \/ SpawnPanics(r) \/ CallFromJob(r)
  \/ \E answer \in {"ok", "panicked"} : JobEnds(r, answer)

Next ==
  \/ \E t \in Thread : ClientStep(t) \/ KernelStep(t)
  \/ \E h \in Host : HostStep(h)

Spec == Init /\ [][Next]_vars

\* The scheduler runs every thread that can run, libida's calls return, and
\* a job, whatever calls it makes, ends.  Nothing is asked of the program:
\* it need not call, drop a handle or return from `app`.
Fairness ==
  /\ \A h \in Host : /\ WF_vars(BringUpStep(h))
                     /\ WF_vars(OpStep(h))
                     /\ WF_vars(CallReturns(h))
  /\ \A r \in Thread :
       /\ WF_vars(PumpStep(r))
       /\ WF_vars(RunStep(r))
       /\ SF_vars(\E answer \in {"ok", "panicked"} : JobEnds(r, answer))

FairSpec == Spec /\ Fairness

-----------------------------------------------------------------------------
PcValues ==
  {"idle", "spawn", "setup", "app", "join", "none", "pump", "job", "close",
   "exited"} \cup BringUp

Types ==
  /\ live \in BOOLEAN /\ inited \in BOOLEAN /\ libReady \in BOOLEAN
  /\ gMain \in Host \cup {NoHost}
  /\ pc \in [Host -> PcValues]
  /\ owned \subseteq Thread
  /\ isOpen \subseteq Host
  /\ kdb \in Host \cup {NoHost}
  /\ op \in [Host -> {"none", "open", "close", "read"}]
  /\ inside \subseteq Host
  /\ handles \in [Thread -> SUBSET Thread]
  /\ queue \in [Thread -> Seq(Host)]
  /\ job \in [Thread -> Host \cup {NoHost}]
  /\ call \in [Host -> {"none", "sent", "ok", "panicked", "disconnected"}]

\* Types, and the bound on a channel: a caller waits for its answer, so a
\* job queue never holds two jobs of one caller.
TypeOK ==
  /\ Types
  /\ \A r \in Thread :
       \A i, j \in DOMAIN queue[r] : queue[r][i] = queue[r][j] => i = j

\* The hosts that stand for a `KernelClaim`: an owned `Database`, a `here`
\* that is still bringing the kernel up, and a `run` that has not returned.
Claimants ==
  {U(t) : t \in owned} \cup {h \in Host : h[2] = "user" /\ pc[h] # "idle"}

\* "At most one Database may be live": KERNEL_LIVE is up exactly while one
\* claim exists, whichever way a `here` or a `run` ended before it, and a
\* kernel thread exists only under the `run` that spawned it.
OneClaim ==
  /\ \A g, h \in Claimants : g = h
  /\ live <=> Claimants # {}
  /\ \A t \in owned : pc[U(t)] = "idle"
  /\ \A r \in Thread :
       pc[K(r)] # "none" => pc[U(r)] \in {"setup", "app", "join"}

\* The hosts at work inside libida.
Touching ==
  {h \in Host : pc[h] \in {"initing", "batch"} \/ h \in inside}

\* Thread affinity: whoever is inside libida is the thread `g_main` names, so
\* one host at most is there, wherever the `Database` was moved before.
KernelAffinity == \A h \in Touching : gMain = h

\* Nothing but `init_library` itself runs before it has succeeded, and it
\* never runs again after: KERNEL_INITED is set before the outcome is known.
InitializedOnce ==
  \A h \in Host :
    /\ pc[h] = "initing" => ~libReady
    /\ (pc[h] = "batch" \/ h \in inside) => libReady

\* A database that a job of `run` opened is closed before the kernel thread
\* is joined and the claim released, however `app` and its jobs ended.
RunLeavesClosed ==
  \A r \in Thread : kdb = K(r) => pc[K(r)] \in {"job", "pump", "close"}

\* A waiting caller has its job in the channel of a kernel thread that is up,
\* or in that thread's hands, and in one place only; and a call never finds
\* the kernel gone, since the handle it is made through keeps the pump alive.
CallHasJob ==
  /\ \A h \in Host : call[h] # "disconnected"
  /\ \A h \in Host : call[h] = "sent" <=>
       \E r \in Thread :
         /\ pc[K(r)] \in {"pump", "job"}
         /\ job[r] = h \/ \E i \in DOMAIN queue[r] : queue[r][i] = h
  /\ \A r \in Thread :
       \A i \in DOMAIN queue[r] : job[r] # queue[r][i]

\* "Runs a closure against the open database on the kernel thread, from any
\* thread" (Ida::call): every call is answered, a panicking closure included.
CallAnswered == \A h \in Host : call[h] = "sent" ~> call[h] = "none"

\* Once `app` has returned and the last clone of its handle is gone, `run`
\* returns: nothing left in the channel or open in libida keeps it.
RunReturns ==
  \A r \in Thread :
    (pc[U(r)] = "join" /\ handles[r] = {}) ~> pc[U(r)] = "idle"

\* The documentation of `Ida::run`: it "returns once `app` does".
RunReturnsWithApp ==
  \A r \in Thread : pc[U(r)] = "join" ~> pc[U(r)] = "idle"

\* The documentation of `Database::is_open`: "Whether a database is currently
\* open", for whoever holds a `Database` and is making no call.
FlagTellsTruth ==
  \A h \in Host :
    (op[h] = "none" /\ (pc[h] \in {"pump", "job", "close"} \/
                       (h[2] = "user" /\ h[1] \in owned)))
      => (h \in isOpen <=> kdb # NoHost)

=============================================================================

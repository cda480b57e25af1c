---------------------------- MODULE KernelProofs ----------------------------
(***************************************************************************)
(* Proofs about module Kernel: one claim, thread affinity, initialization  *)
(* and closing, for any number of threads.                                 *)
(***************************************************************************)
EXTENDS Kernel, TLAPS

UserPc   == {"idle", "spawn", "setup", "app", "join"} \cup BringUp
KernelPc == {"none", "pump", "job", "close", "exited"} \cup BringUp

\* A user thread and the kernel thread of its `run` move in step.
Phases ==
  \A t \in Thread :
    /\ pc[U(t)] \in UserPc
    /\ pc[K(t)] \in KernelPc
    /\ pc[U(t)] \in {"app", "join"} =>
         pc[K(t)] \in {"pump", "job", "close", "exited"}
    /\ pc[U(t)] = "setup" => pc[K(t)] # "none"

\* Only the holder of a `Database` makes kernel calls through it.
OpsByHolder ==
  \A h \in Host :
    /\ h \in inside => op[h] # "none"
    /\ op[h] # "none" =>
         \/ h[2] = "user" /\ h[1] \in owned
         \/ h[2] = "kernel" /\ pc[h] \in {"job", "close"}

\* What `g_main` is while a host is between nulling it and its call's end.
MainFollows ==
  \A h \in Host :
    /\ pc[h] \in {"init", "initing", "batch"} => gMain = h
    /\ pc[h] = "reclaim" => gMain = NoHost
    /\ h \in inside => gMain = h
    /\ (op[h] # "none" /\ h \notin inside) => gMain = NoHost

\* KERNEL_INITED runs ahead of libida by one `init_library` at most.
InitTracked ==
  /\ libReady => inited
  /\ inited /\ ~libReady => \E h \in Host : pc[h] = "initing"
  /\ \A h \in Host :
       /\ pc[h] = "initing" => inited /\ ~libReady
       /\ pc[h] \in {"batch", "pump", "job", "close"} => libReady
  /\ owned # {} => libReady

\* Libida has the actor's database open only while the actor knows it.
ActorKnows ==
  \A r \in Thread :
    kdb = K(r) => pc[K(r)] \in {"job", "pump", "close"} /\ K(r) \in isOpen

\* OneClaim, told thread by thread.
Claims(t) == t \in owned \/ pc[U(t)] # "idle"

ClaimByThread ==
  /\ \A t, u \in Thread : Claims(t) /\ Claims(u) => t = u
  /\ live <=> \E t \in Thread : Claims(t)
  /\ \A t \in owned : pc[U(t)] = "idle"
  /\ \A r \in Thread :
       pc[K(r)] # "none" => pc[U(r)] \in {"setup", "app", "join"}

IndInv == /\ Types
          /\ ClaimByThread
          /\ Phases
          /\ OpsByHolder
          /\ MainFollows
          /\ InitTracked
          /\ ActorKnows

(***************************************************************************)
(* The two kinds of host.                                                  *)
(***************************************************************************)
LEMMA HostFacts ==
  /\ \A t \in Thread :
       /\ U(t) \in Host /\ U(t)[1] = t /\ U(t)[2] = "user"
       /\ K(t) \in Host /\ K(t)[1] = t /\ K(t)[2] = "kernel"
  /\ \A h \in Host :
       /\ h[1] \in Thread
       /\ \/ h[2] = "user" /\ h = U(h[1])
          \/ h[2] = "kernel" /\ h = K(h[1])
  /\ NoHost \notin Host
BY KernelAssumption DEF Host, U, K

\* A host that is bringing the kernel up, or may make kernel calls.
Working(h) == \/ pc[h] \in BringUp \/ op[h] # "none"
              \/ h[2] = "user" /\ h[1] \in owned
              \/ h[2] = "kernel" /\ pc[h] \in {"job", "close"}

\* There is one at most: it is, or works for, the one holder of the claim.
LEMMA OneWorker ==
  ASSUME IndInv, NEW g \in Host, NEW h \in Host, Working(g), Working(h)
  PROVE  g = h
<1>1. ASSUME NEW k \in Host, Working(k)
      PROVE  /\ Claims(k[1])
             /\ k[2] = "kernel" => pc[U(k[1])] \in {"setup", "app", "join"}
             /\ k[2] = "user" => pc[U(k[1])] \in BringUp \cup {"idle"}
  BY <1>1, HostFacts
     DEF IndInv, Working, Claims, ClaimByThread, OpsByHolder, BringUp
<1>2. g[1] = h[1]
  BY <1>1, HostFacts DEF IndInv, ClaimByThread
<1>3. g[2] = h[2]
  BY <1>1, <1>2, HostFacts DEF BringUp
<1> QED
  BY <1>2, <1>3, HostFacts


\* `here` and `run` take a claim that nobody holds.
LEMMA AcquireStep ==
  ASSUME IndInv, Types', NEW t \in Thread, NEW to \in {"steal", "spawn"},
         Free(t), ~live, live' = TRUE, Goto(U(t), "idle", to),
         UNCHANGED <<inited, owned, libida, kernelOp>>
  PROVE  IndInv'
<1> USE HostFacts
<1>1. /\ \A h \in Host : pc'[h] = IF h = U(t) THEN to ELSE pc[h]
      /\ pc[U(t)] = "idle" /\ ~live /\ live' /\ owned \subseteq Thread
      /\ UNCHANGED <<inited, libReady, gMain, kdb, owned, isOpen, op, inside>>
  BY DEF IndInv, Types, Free, Goto, libida, kernelOp
<1>2. ClaimByThread'
  BY <1>1 DEF IndInv, ClaimByThread, Claims
<1>3. Phases'
  BY <1>1 DEF IndInv, Phases, UserPc, KernelPc, BringUp, ClaimByThread
<1>4. OpsByHolder'
  BY <1>1 DEF IndInv, OpsByHolder, ClaimByThread, BringUp
<1>5. MainFollows'
  BY <1>1 DEF IndInv, MainFollows, OpsByHolder, ClaimByThread, BringUp
<1>6. InitTracked'
  BY <1>1 DEF IndInv, InitTracked, ClaimByThread, Claims, Phases, BringUp
<1>7. ActorKnows'
  BY <1>1 DEF IndInv, ActorKnows, OpsByHolder, ClaimByThread
<1> QED
  BY <1>2, <1>3, <1>4, <1>5, <1>6, <1>7 DEF IndInv

\* The kernel thread starts under the `run` that holds the claim.
LEMMA SpawnStep ==
  ASSUME IndInv, Types', NEW t \in Thread, SpawnKernel(t)
  PROVE  IndInv'
<1> USE HostFacts
<1>1. /\ \A h \in Host : pc'[h] = IF h = U(t) THEN "setup"
                               ELSE IF h = K(t) THEN "steal" ELSE pc[h]
      /\ pc[U(t)] = "spawn" /\ live' = live /\ owned \subseteq Thread
      /\ UNCHANGED <<inited, libReady, gMain, kdb, owned, isOpen, op, inside>>
  BY DEF IndInv, Types, SpawnKernel, claim, libida, kernelOp
<1>2. ClaimByThread'
  BY <1>1 DEF IndInv, ClaimByThread, Claims
<1>3. Phases'
  BY <1>1 DEF IndInv, Phases, UserPc, KernelPc, BringUp, ClaimByThread
<1>4. OpsByHolder'
  BY <1>1 DEF IndInv, OpsByHolder, ClaimByThread, BringUp
<1>5. MainFollows'
  BY <1>1 DEF IndInv, MainFollows, OpsByHolder, ClaimByThread, BringUp
<1>6. InitTracked'
  BY <1>1 DEF IndInv, InitTracked, ClaimByThread, Claims, Phases, BringUp
<1>7. ActorKnows'
  BY <1>1 DEF IndInv, ActorKnows, OpsByHolder, ClaimByThread
<1> QED
  BY <1>2, <1>3, <1>4, <1>5, <1>6, <1>7 DEF IndInv

\* A thread that made nothing of its claim gives it up.
LEMMA ReleaseStep ==
  ASSUME IndInv, Types', NEW t \in Thread,
         pc[U(t)] \in {"spawn", "steal", "reclaim", "initing"},
         pc' = [pc EXCEPT ![U(t)] = "idle"], live' = FALSE,
         inited' = (IF pc[U(t)] = "initing" THEN FALSE ELSE inited),
         gMain' = gMain, UNCHANGED <<libReady, kdb, owned, kernelOp>>
  PROVE  IndInv'
<1> USE HostFacts
<1>1. /\ \A h \in Host : pc'[h] = IF h = U(t) THEN "idle" ELSE pc[h]
      /\ pc[U(t)] \in {"spawn", "steal", "reclaim", "initing"} /\ ~live'
      /\ inited' = (IF pc[U(t)] = "initing" THEN FALSE ELSE inited)
      /\ owned \subseteq Thread
      /\ UNCHANGED <<libReady, gMain, kdb, owned, isOpen, op, inside>>
  BY DEF IndInv, Types, kernelOp
<1>2. ClaimByThread'
  BY <1>1 DEF IndInv, ClaimByThread, Claims
<1>3. Phases'
  BY <1>1 DEF IndInv, Phases, UserPc, KernelPc, BringUp, ClaimByThread
<1>4. OpsByHolder'
  BY <1>1 DEF IndInv, OpsByHolder, ClaimByThread, BringUp
<1>5. MainFollows'
  BY <1>1 DEF IndInv, MainFollows, OpsByHolder, ClaimByThread, BringUp
<1>6. InitTracked'
  BY <1>1 DEF IndInv, InitTracked, ClaimByThread, Claims, Phases, BringUp
<1>7. ActorKnows'
  BY <1>1 DEF IndInv, ActorKnows, OpsByHolder, ClaimByThread
<1> QED
  BY <1>2, <1>3, <1>4, <1>5, <1>6, <1>7 DEF IndInv

\* A kernel thread that could not be brought up ends.
LEMMA AbandonStep ==
  ASSUME IndInv, Types', NEW r \in Thread,
         pc[K(r)] \in {"steal", "reclaim", "initing"},
         pc' = [pc EXCEPT ![K(r)] = "exited"], live' = live,
         inited' = (IF pc[K(r)] = "initing" THEN FALSE ELSE inited),
         gMain' = gMain, UNCHANGED <<libReady, kdb, owned, kernelOp>>
  PROVE  IndInv'
<1> USE HostFacts
<1>1. /\ \A h \in Host : pc'[h] = IF h = K(r) THEN "exited" ELSE pc[h]
      /\ pc[K(r)] \in {"steal", "reclaim", "initing"} /\ live' = live
      /\ inited' = (IF pc[K(r)] = "initing" THEN FALSE ELSE inited)
      /\ owned \subseteq Thread
      /\ UNCHANGED <<libReady, gMain, kdb, owned, isOpen, op, inside>>
  BY DEF IndInv, Types, kernelOp
<1>2. ClaimByThread'
  BY <1>1 DEF IndInv, ClaimByThread, Claims
<1>3. Phases'
  BY <1>1 DEF IndInv, Phases, UserPc, KernelPc, BringUp, ClaimByThread
<1>4. OpsByHolder'
  BY <1>1 DEF IndInv, OpsByHolder, ClaimByThread, BringUp
<1>5. MainFollows'
  BY <1>1 DEF IndInv, MainFollows, OpsByHolder, ClaimByThread, BringUp
<1>6. InitTracked'
  BY <1>1 DEF IndInv, InitTracked, ClaimByThread, Claims, Phases, BringUp
<1>7. ActorKnows'
  BY <1>1 DEF IndInv, ActorKnows, OpsByHolder, ClaimByThread
<1> QED
  BY <1>2, <1>3, <1>4, <1>5, <1>6, <1>7 DEF IndInv

\* `run` leaves with its kernel thread joined.
LEMMA LeaveStep ==
  ASSUME IndInv, Types', NEW r \in Thread, pc[U(r)] \in {"setup", "join"}, Leave(r),
         UNCHANGED <<inited, owned, libida, kernelOp>>
  PROVE  IndInv'
<1> USE HostFacts
<1>1. /\ \A h \in Host : pc'[h] = IF h = U(r) THEN "idle"
                               ELSE IF h = K(r) THEN "none" ELSE pc[h]
      /\ pc[U(r)] \in {"setup", "join"} /\ pc[K(r)] = "exited" /\ ~live'
      /\ owned \subseteq Thread
      /\ UNCHANGED <<inited, libReady, gMain, kdb, owned, isOpen, op, inside>>
  BY DEF IndInv, Types, Leave, libida, kernelOp
<1>2. ClaimByThread'
  BY <1>1 DEF IndInv, ClaimByThread, Claims
<1>3. Phases'
  BY <1>1 DEF IndInv, Phases, UserPc, KernelPc, BringUp, ClaimByThread
<1>4. OpsByHolder'
  BY <1>1 DEF IndInv, OpsByHolder, ClaimByThread, BringUp
<1>5. MainFollows'
  BY <1>1 DEF IndInv, MainFollows, OpsByHolder, ClaimByThread, BringUp
<1>6. InitTracked'
  BY <1>1 DEF IndInv, InitTracked, ClaimByThread, Claims, Phases, BringUp
<1>7. ActorKnows'
  BY <1>1 DEF IndInv, ActorKnows, OpsByHolder, ClaimByThread
<1> QED
  BY <1>2, <1>3, <1>4, <1>5, <1>6, <1>7 DEF IndInv

\* Nulling `g_main`.
LEMMA StealStep ==
  ASSUME IndInv, Types', NEW h \in Host, StealMain(h)
  PROVE  IndInv'
<1> USE HostFacts
<1>1. /\ \A g \in Host : pc'[g] = IF g = h THEN "reclaim" ELSE pc[g]
      /\ pc[h] = "steal" /\ gMain' = NoHost /\ owned \subseteq Thread
      /\ UNCHANGED <<live, inited, libReady, kdb, owned, isOpen, op, inside>>
  BY DEF IndInv, Types, StealMain, Goto, claim, kernelOp
<1>0. \A g \in Host \ {h} : pc[g] \notin BringUp /\ op[g] = "none"
  BY <1>1, OneWorker DEF Working, BringUp
<1>2. ClaimByThread'
  BY <1>1 DEF IndInv, ClaimByThread, Claims
<1>3. Phases'
  BY <1>1 DEF IndInv, Phases, UserPc, KernelPc, BringUp, ClaimByThread
<1>4. OpsByHolder'
  BY <1>1 DEF IndInv, OpsByHolder, ClaimByThread, BringUp
<1>5. MainFollows'
  BY <1>1, <1>0 DEF IndInv, MainFollows, OpsByHolder, ClaimByThread, BringUp
<1>6. InitTracked'
  BY <1>1 DEF IndInv, InitTracked, ClaimByThread, Claims, Phases, BringUp
<1>7. ActorKnows'
  BY <1>1 DEF IndInv, ActorKnows, OpsByHolder, ClaimByThread
<1> QED
  BY <1>2, <1>3, <1>4, <1>5, <1>6, <1>7 DEF IndInv

\* `is_main_thread` finds it null and takes the caller.
LEMMA ReclaimStep ==
  ASSUME IndInv, Types', NEW h \in Host, Reclaim(h)
  PROVE  IndInv'
<1> USE HostFacts
<1>1. /\ \A g \in Host : pc'[g] = IF g = h THEN "init" ELSE pc[g]
      /\ pc[h] = "reclaim" /\ gMain' = h /\ owned \subseteq Thread
      /\ UNCHANGED <<live, inited, libReady, kdb, owned, isOpen, op, inside>>
  BY DEF IndInv, Types, Reclaim, Claimed, MainFollows, kernelOp
<1>0. \A g \in Host \ {h} : pc[g] \notin BringUp /\ op[g] = "none"
  BY <1>1, OneWorker DEF Working, BringUp
<1>2. ClaimByThread'
  BY <1>1 DEF IndInv, ClaimByThread, Claims
<1>3. Phases'
  BY <1>1 DEF IndInv, Phases, UserPc, KernelPc, BringUp, ClaimByThread
<1>4. OpsByHolder'
  BY <1>1 DEF IndInv, OpsByHolder, ClaimByThread, BringUp
<1>5. MainFollows'
  BY <1>1, <1>0 DEF IndInv, MainFollows, OpsByHolder, ClaimByThread, BringUp
<1>6. InitTracked'
  BY <1>1 DEF IndInv, InitTracked, ClaimByThread, Claims, Phases, BringUp
<1>7. ActorKnows'
  BY <1>1 DEF IndInv, ActorKnows, OpsByHolder, ClaimByThread
<1> QED
  BY <1>2, <1>3, <1>4, <1>5, <1>6, <1>7 DEF IndInv

\* KERNEL_INITED is swapped before the library is initialized.
LEMMA InitStep ==
  ASSUME IndInv, Types', NEW h \in Host, InitOrSkip(h)
  PROVE  IndInv'
<1> USE HostFacts
<1>1. /\ \A g \in Host : pc'[g] = IF g = h
                               THEN (IF inited THEN "batch" ELSE "initing")
                               ELSE pc[g]
      /\ pc[h] = "init" /\ inited' /\ owned \subseteq Thread
      /\ UNCHANGED <<live, gMain, libReady, kdb, owned, isOpen, op, inside>>
  BY DEF IndInv, Types, InitOrSkip, Goto, claim, libida, kernelOp
<1>0. \A g \in Host \ {h} : pc[g] \notin BringUp /\ op[g] = "none"
  BY <1>1, OneWorker DEF Working, BringUp
<1>2. ClaimByThread'
  BY <1>1 DEF IndInv, ClaimByThread, Claims
<1>3. Phases'
  BY <1>1 DEF IndInv, Phases, UserPc, KernelPc, BringUp, ClaimByThread
<1>4. OpsByHolder'
  BY <1>1 DEF IndInv, OpsByHolder, ClaimByThread, BringUp
<1>5. MainFollows'
  BY <1>1, <1>0 DEF IndInv, MainFollows, OpsByHolder, ClaimByThread, BringUp
<1>6. InitTracked'
  BY <1>1 DEF IndInv, InitTracked, ClaimByThread, Claims, Phases, BringUp
<1>7. ActorKnows'
  BY <1>1 DEF IndInv, ActorKnows, OpsByHolder, ClaimByThread
<1> QED
  BY <1>2, <1>3, <1>4, <1>5, <1>6, <1>7 DEF IndInv

\* The library is up.
LEMMA InitLibraryStep ==
  ASSUME IndInv, Types', NEW h \in Host, InitLibrary(h)
  PROVE  IndInv'
<1> USE HostFacts
<1>1. /\ \A g \in Host : pc'[g] = IF g = h THEN "batch" ELSE pc[g]
      /\ pc[h] = "initing" /\ libReady' /\ owned \subseteq Thread
      /\ UNCHANGED <<live, gMain, inited, kdb, owned, isOpen, op, inside>>
  BY DEF IndInv, Types, InitLibrary, Goto, claim, kernelOp
<1>0. \A g \in Host \ {h} : pc[g] \notin BringUp /\ op[g] = "none"
  BY <1>1, OneWorker DEF Working, BringUp
<1>2. ClaimByThread'
  BY <1>1 DEF IndInv, ClaimByThread, Claims
<1>3. Phases'
  BY <1>1 DEF IndInv, Phases, UserPc, KernelPc, BringUp, ClaimByThread
<1>4. OpsByHolder'
  BY <1>1 DEF IndInv, OpsByHolder, ClaimByThread, BringUp
<1>5. MainFollows'
  BY <1>1, <1>0 DEF IndInv, MainFollows, OpsByHolder, ClaimByThread, BringUp
<1>6. InitTracked'
  BY <1>1 DEF IndInv, InitTracked, ClaimByThread, Claims, Phases, BringUp
<1>7. ActorKnows'
  BY <1>1 DEF IndInv, ActorKnows, OpsByHolder, ClaimByThread
<1> QED
  BY <1>2, <1>3, <1>4, <1>5, <1>6, <1>7 DEF IndInv

\* `here` has its `Database`, or the pump starts.
LEMMA IsUpStep ==
  ASSUME IndInv, Types', NEW h \in Host, IsUp(h)
  PROVE  IndInv'
<1> USE HostFacts
<1>1. /\ \A g \in Host :
           /\ pc'[g] = IF g = h THEN (IF h[2] = "user" THEN "idle" ELSE "pump")
                                ELSE pc[g]
           /\ g \in isOpen' <=> g # h /\ g \in isOpen
      /\ pc[h] = "batch" /\ owned \subseteq Thread
      /\ owned' = IF h[2] = "user" THEN owned \cup {h[1]} ELSE owned
      /\ UNCHANGED <<live, gMain, inited, libReady, kdb, op, inside>>
  BY DEF IndInv, Types, IsUp, Goto, libida
<1>0. \A g \in Host \ {h} : pc[g] \notin BringUp /\ op[g] = "none"
  BY <1>1, OneWorker DEF Working, BringUp
<1>2. ClaimByThread'
  BY <1>1 DEF IndInv, ClaimByThread, Claims
<1>3. Phases'
  BY <1>1 DEF IndInv, Phases, UserPc, KernelPc, BringUp, ClaimByThread
<1>4. OpsByHolder'
  BY <1>1 DEF IndInv, OpsByHolder, ClaimByThread, BringUp
<1>5. MainFollows'
  BY <1>1, <1>0 DEF IndInv, MainFollows, OpsByHolder, ClaimByThread, BringUp
<1>6. InitTracked'
  BY <1>1 DEF IndInv, InitTracked, ClaimByThread, Claims, Phases, BringUp
<1>7. ActorKnows'
  BY <1>1 DEF IndInv, ActorKnows, OpsByHolder, ClaimByThread
<1> QED
  BY <1>2, <1>3, <1>4, <1>5, <1>6, <1>7 DEF IndInv

\* An owned `Database` changes threads.
LEMMA MoveStep ==
  ASSUME IndInv, Types', NEW t \in Thread, NEW u \in Thread, Move(t, u)
  PROVE  IndInv'
<1> USE HostFacts
<1>1. /\ t \in owned /\ u # t /\ pc[U(t)] = "idle" /\ pc[U(u)] = "idle"
      /\ op[U(t)] = "none" /\ op[U(u)] = "none"
      /\ owned \subseteq Thread /\ owned' = (owned \ {t}) \cup {u}
      /\ \A r \in Thread : K(r) \in isOpen' <=> K(r) \in isOpen
      /\ kdb' = kdb \/ kdb' = U(u)
      /\ UNCHANGED <<live, gMain, inited, libReady, pc, op, inside>>
  <2>1. \A r \in Thread : K(r) \in isOpen' <=> K(r) \in isOpen
    <3> TAKE r \in Thread
    <3>1. K(r) # U(t) /\ K(r) # U(u)
      OBVIOUS
    <3> QED
      BY <3>1 DEF Move
  <2> QED
    BY <2>1 DEF IndInv, Types, Move, Idle, Free
<1>2. ClaimByThread'
  BY <1>1 DEF IndInv, ClaimByThread, Claims
<1>3. Phases'
  BY <1>1 DEF IndInv, Phases, UserPc, KernelPc, BringUp, ClaimByThread
<1>4. OpsByHolder'
  BY <1>1 DEF IndInv, OpsByHolder, ClaimByThread, BringUp
<1>5. MainFollows'
  BY <1>1 DEF IndInv, MainFollows, OpsByHolder, ClaimByThread, BringUp
<1>6. InitTracked'
  BY <1>1 DEF IndInv, InitTracked, ClaimByThread, Claims, Phases, BringUp
<1>7. ActorKnows'
  BY <1>1 DEF IndInv, ActorKnows, OpsByHolder, ClaimByThread
<1> QED
  BY <1>2, <1>3, <1>4, <1>5, <1>6, <1>7 DEF IndInv

\* Dropping an owned `Database` frees the claim.
LEMMA DropStep ==
  ASSUME IndInv, Types', NEW t \in Thread, DropOwned(t)
  PROVE  IndInv'
<1> USE HostFacts
<1>1. /\ t \in owned /\ pc[U(t)] = "idle" /\ op[U(t)] = "none" /\ ~live'
      /\ owned \subseteq Thread /\ owned' = owned \ {t}
      /\ \A r \in Thread : K(r) \in isOpen' <=> K(r) \in isOpen
      /\ UNCHANGED <<gMain, inited, libReady, kdb, pc, op, inside>>
  BY DEF IndInv, Types, DropOwned, Idle, Free, libida
<1>2. ClaimByThread'
  BY <1>1 DEF IndInv, ClaimByThread, Claims
<1>3. Phases'
  BY <1>1 DEF IndInv, Phases, UserPc, KernelPc, BringUp, ClaimByThread
<1>4. OpsByHolder'
  BY <1>1 DEF IndInv, OpsByHolder, ClaimByThread, BringUp
<1>5. MainFollows'
  BY <1>1 DEF IndInv, MainFollows, OpsByHolder, ClaimByThread, BringUp
<1>6. InitTracked'
  BY <1>1 DEF IndInv, InitTracked, ClaimByThread, Claims, Phases, BringUp
<1>7. ActorKnows'
  BY <1>1 DEF IndInv, ActorKnows, OpsByHolder, ClaimByThread
<1> QED
  BY <1>2, <1>3, <1>4, <1>5, <1>6, <1>7 DEF IndInv

\* A kernel call begins with its guard.
LEMMA BeginStep ==
  ASSUME IndInv, Types', NEW h \in Host, NEW what \in {"open", "close", "read"},
         op[h] = "none", Begin(h, what), pc' = pc,
         \/ h[2] = "user" /\ h[1] \in owned
         \/ h[2] = "kernel" /\ pc[h] \in {"job", "close"}
  PROVE  IndInv'
<1> USE HostFacts
<1>1. /\ \A g \in Host :
           /\ op'[g] = IF g = h THEN what ELSE op[g]
           /\ g \in inside' <=> g \in inside \/ (g = h /\ gMain \in {h, NoHost})
      /\ gMain' = (IF gMain \in {h, NoHost} THEN h ELSE NoHost)
      /\ owned \subseteq Thread /\ op[h] = "none" /\ what # "none"
      /\ \/ h[2] = "user" /\ h[1] \in owned
         \/ h[2] = "kernel" /\ pc[h] \in {"job", "close"}
      /\ UNCHANGED <<live, owned, inited, libReady, kdb, pc, isOpen>>
  BY DEF IndInv, Types, Begin, EnsureKernelThread, Claimed, claim
<1>0. \A g \in Host \ {h} : pc[g] \notin BringUp /\ op[g] = "none"
  BY <1>1, OneWorker DEF Working, BringUp
<1>2. ClaimByThread'
  BY <1>1 DEF IndInv, ClaimByThread, Claims
<1>3. Phases'
  BY <1>1 DEF IndInv, Phases, UserPc, KernelPc, BringUp, ClaimByThread
<1>4. OpsByHolder'
  BY <1>1 DEF IndInv, OpsByHolder, ClaimByThread, BringUp
<1>5. MainFollows'
  BY <1>1, <1>0 DEF IndInv, MainFollows, OpsByHolder, ClaimByThread, BringUp
<1>6. InitTracked'
  BY <1>1 DEF IndInv, InitTracked, ClaimByThread, Claims, Phases, BringUp
<1>7. ActorKnows'
  BY <1>1 DEF IndInv, ActorKnows, OpsByHolder, ClaimByThread
<1> QED
  BY <1>2, <1>3, <1>4, <1>5, <1>6, <1>7 DEF IndInv

\* The guard's re-steal takes.
LEMMA ReStealStep ==
  ASSUME IndInv, Types', NEW h \in Host, ReSteal(h)
  PROVE  IndInv'
<1> USE HostFacts
<1>1. /\ \A g \in Host : g \in inside' <=> g \in inside \/ g = h
      /\ gMain' = h /\ op[h] # "none" /\ h \notin inside /\ owned \subseteq Thread
      /\ UNCHANGED <<live, owned, inited, libReady, kdb, pc, isOpen, op>>
  BY DEF IndInv, Types, ReSteal, Claimed, MainFollows, claim
<1>0. \A g \in Host \ {h} : pc[g] \notin BringUp /\ op[g] = "none"
  BY <1>1, OneWorker DEF Working, BringUp
<1>2. ClaimByThread'
  BY <1>1 DEF IndInv, ClaimByThread, Claims
<1>3. Phases'
  BY <1>1 DEF IndInv, Phases, UserPc, KernelPc, BringUp, ClaimByThread
<1>4. OpsByHolder'
  BY <1>1 DEF IndInv, OpsByHolder, ClaimByThread, BringUp
<1>5. MainFollows'
  BY <1>1, <1>0 DEF IndInv, MainFollows, OpsByHolder, ClaimByThread, BringUp
<1>6. InitTracked'
  BY <1>1 DEF IndInv, InitTracked, ClaimByThread, Claims, Phases, BringUp
<1>7. ActorKnows'
  BY <1>1 DEF IndInv, ActorKnows, OpsByHolder, ClaimByThread
<1> QED
  BY <1>2, <1>3, <1>4, <1>5, <1>6, <1>7 DEF IndInv

\* A kernel call returns.
LEMMA ReturnStep ==
  ASSUME IndInv, Types', NEW h \in Host, op[h] # "none", h \in inside, Returns(h),
         \/ /\ kdb' = h /\ isOpen' = isOpen \cup {h}
         \/ /\ kdb' = NoHost /\ isOpen' = isOpen \ {h}
         \/ UNCHANGED <<kdb, isOpen>>
  PROVE  IndInv'
<1> USE HostFacts
<1>1. /\ \A g \in Host :
           /\ op'[g] = IF g = h THEN "none" ELSE op[g]
           /\ g \in inside' <=> g \in inside /\ g # h
      /\ \/ kdb' = h /\ h \in isOpen'
         \/ kdb' = NoHost
         \/ kdb' = kdb /\ isOpen' = isOpen
      /\ op[h] # "none" /\ h \in inside /\ owned \subseteq Thread
      /\ UNCHANGED <<live, owned, inited, libReady, gMain, pc>>
  BY DEF IndInv, Types, Returns, claim
<1>0. \A g \in Host \ {h} : pc[g] \notin BringUp /\ op[g] = "none"
  BY <1>1, OneWorker DEF Working, BringUp
<1>2. ClaimByThread'
  BY <1>1 DEF IndInv, ClaimByThread, Claims
<1>3. Phases'
  BY <1>1 DEF IndInv, Phases, UserPc, KernelPc, BringUp, ClaimByThread
<1>4. OpsByHolder'
  BY <1>1 DEF IndInv, OpsByHolder, ClaimByThread, BringUp
<1>5. MainFollows'
  BY <1>1, <1>0 DEF IndInv, MainFollows, OpsByHolder, ClaimByThread, BringUp
<1>6. InitTracked'
  BY <1>1 DEF IndInv, InitTracked, ClaimByThread, Claims, Phases, BringUp
<1>7. ActorKnows'
  BY <1>1 DEF IndInv, ActorKnows, OpsByHolder, ClaimByThread
<1> QED
  BY <1>2, <1>3, <1>4, <1>5, <1>6, <1>7 DEF IndInv

\* The pump takes a job, ends one, or winds up.
LEMMA PumpMoves ==
  ASSUME IndInv, Types', NEW r \in Thread,
         NEW from \in {"pump", "job", "close"},
         NEW to \in {"pump", "job", "close", "exited"},
         Goto(K(r), from, to), op[K(r)] = "none",
         to = "exited" => K(r) \notin isOpen,
         UNCHANGED <<inited, claim, libida, kernelOp>>
  PROVE  IndInv'
<1> USE HostFacts
<1>1. /\ \A h \in Host : pc'[h] = IF h = K(r) THEN to ELSE pc[h]
      /\ pc[K(r)] \in {"pump", "job", "close"} /\ op[K(r)] = "none"
      /\ to \in {"pump", "job", "close", "exited"}
      /\ to = "exited" => K(r) \notin isOpen
      /\ live' = live /\ owned \subseteq Thread
      /\ UNCHANGED <<inited, libReady, gMain, kdb, owned, isOpen, op, inside>>
  BY DEF IndInv, Types, Goto, claim, libida, kernelOp
<1>2. ClaimByThread'
  BY <1>1 DEF IndInv, ClaimByThread, Claims
<1>3. Phases'
  BY <1>1 DEF IndInv, Phases, UserPc, KernelPc, BringUp, ClaimByThread
<1>4. OpsByHolder'
  BY <1>1 DEF IndInv, OpsByHolder, ClaimByThread, BringUp
<1>5. MainFollows'
  BY <1>1 DEF IndInv, MainFollows, OpsByHolder, ClaimByThread, BringUp
<1>6. InitTracked'
  BY <1>1 DEF IndInv, InitTracked, ClaimByThread, Claims, Phases, BringUp
<1>7. ActorKnows'
  BY <1>1 DEF IndInv, ActorKnows, OpsByHolder, ClaimByThread
<1> QED
  BY <1>2, <1>3, <1>4, <1>5, <1>6, <1>7 DEF IndInv

\* `run` hands over to `app`, and `app` returns.
LEMMA AppMoves ==
  ASSUME IndInv, Types', NEW r \in Thread, NEW to \in {"app", "join"},
         \/ Goto(U(r), "setup", to) /\ pc[K(r)] = "pump"
         \/ Goto(U(r), "app", to),
         UNCHANGED <<inited, claim, libida, kernelOp>>
  PROVE  IndInv'
<1> USE HostFacts
<1>1. /\ \A h \in Host : pc'[h] = IF h = U(r) THEN to ELSE pc[h]
      /\ pc[U(r)] = "app" \/ (pc[U(r)] = "setup" /\ pc[K(r)] = "pump")
      /\ to \in {"app", "join"}
      /\ live' = live /\ owned \subseteq Thread
      /\ UNCHANGED <<inited, libReady, gMain, kdb, owned, isOpen, op, inside>>
  BY DEF IndInv, Types, Goto, claim, libida, kernelOp
<1>2. ClaimByThread'
  BY <1>1 DEF IndInv, ClaimByThread, Claims
<1>3. Phases'
  BY <1>1 DEF IndInv, Phases, UserPc, KernelPc, BringUp, ClaimByThread
<1>4. OpsByHolder'
  BY <1>1 DEF IndInv, OpsByHolder, ClaimByThread, BringUp
<1>5. MainFollows'
  BY <1>1 DEF IndInv, MainFollows, OpsByHolder, ClaimByThread, BringUp
<1>6. InitTracked'
  BY <1>1 DEF IndInv, InitTracked, ClaimByThread, Claims, Phases, BringUp
<1>7. ActorKnows'
  BY <1>1 DEF IndInv, ActorKnows, OpsByHolder, ClaimByThread
<1> QED
  BY <1>2, <1>3, <1>4, <1>5, <1>6, <1>7 DEF IndInv

\* Steps that only pass messages and handles.
LEMMA ChannelStep ==
  ASSUME IndInv, Types', UNCHANGED <<inited, claim, libida, kernelOp, pc>>
  PROVE  IndInv'
<1> USE HostFacts
<1>1. /\ live' = live /\ pc' = pc /\ owned \subseteq Thread
      /\ UNCHANGED <<inited, libReady, gMain, kdb, owned, isOpen, op, inside>>
  BY DEF IndInv, Types, claim, libida, kernelOp
<1>2. ClaimByThread'
  BY <1>1 DEF IndInv, ClaimByThread, Claims
<1>3. Phases'
  BY <1>1 DEF IndInv, Phases, UserPc, KernelPc, BringUp, ClaimByThread
<1>4. OpsByHolder'
  BY <1>1 DEF IndInv, OpsByHolder, ClaimByThread, BringUp
<1>5. MainFollows'
  BY <1>1 DEF IndInv, MainFollows, OpsByHolder, ClaimByThread, BringUp
<1>6. InitTracked'
  BY <1>1 DEF IndInv, InitTracked, ClaimByThread, Claims, Phases, BringUp
<1>7. ActorKnows'
  BY <1>1 DEF IndInv, ActorKnows, OpsByHolder, ClaimByThread
<1> QED
  BY <1>2, <1>3, <1>4, <1>5, <1>6, <1>7 DEF IndInv

\* The claim as the proof keeps it, by thread, gives the claim as the code
\* keeps it, as one flag.
LEMMA ClaimForm == Types /\ ClaimByThread => OneClaim
<1> SUFFICES ASSUME Types, ClaimByThread PROVE OneClaim
  OBVIOUS
<1> USE HostFacts
<1>1. \A h \in Host : h \in Claimants <=> h[2] = "user" /\ Claims(h[1])
  BY DEF Types, Claimants, Claims
<1>2. Claimants \subseteq Host
  BY DEF Types, Claimants
<1>3. \A g, h \in Claimants : g = h
  BY <1>1, <1>2 DEF ClaimByThread
<1>4. live <=> Claimants # {}
  <2>1. ASSUME NEW t \in Thread, Claims(t) PROVE U(t) \in Claimants
    BY <1>1, <2>1
  <2>2. ASSUME NEW h \in Claimants PROVE Claims(h[1]) /\ h[1] \in Thread
    BY <1>1, <1>2
  <2> QED
    BY <2>1, <2>2 DEF ClaimByThread
<1> QED
  BY <1>3, <1>4 DEF OneClaim, ClaimByThread

\* The inductive invariant holds before anything was claimed.
LEMMA InitIndInv == Init => IndInv
<1> SUFFICES ASSUME Init PROVE IndInv
  OBVIOUS
<1> USE HostFacts DEF Init
<1>1. Types
  <2>1. pc \in [Host -> PcValues]
    BY DEF PcValues
  <2>2. queue \in [Thread -> Seq(Host)]
    OBVIOUS
  <2>3. op \in [Host -> {"none", "open", "close", "read"}]
    OBVIOUS
  <2>4. call \in [Host -> {"none", "sent", "ok", "panicked", "disconnected"}]
    OBVIOUS
  <2>5. gMain \in Host /\ handles \in [Thread -> SUBSET Thread]
    OBVIOUS
  <2> QED
    BY <2>1, <2>2, <2>3, <2>4, <2>5 DEF Types
<1>2. ClaimByThread
  BY DEF ClaimByThread, Claims
<1>3. Phases
  BY DEF Phases, UserPc, KernelPc
<1>4. OpsByHolder /\ MainFollows
  BY DEF OpsByHolder, MainFollows
<1>5. InitTracked /\ ActorKnows
  BY DEF InitTracked, ActorKnows
<1> QED
  BY <1>1, <1>2, <1>3, <1>4, <1>5 DEF IndInv

\* A bring-up that fails keeps the types, on either kind of host.
LEMMA FailsTypes ==
  ASSUME Types, NEW h \in Host, Fails(h)
  PROVE  pc' \in [Host -> PcValues] /\ live' \in BOOLEAN
<1>1. CASE h[2] = "user"
  BY <1>1 DEF Types, Fails, PcValues
<1>2. CASE h[2] # "user"
  BY <1>2 DEF Types, Fails, PcValues
<1> QED
  BY <1>1, <1>2

\* Every step keeps the types.
LEMMA TypesStep == Types /\ [Next]_vars => Types'
<1> SUFFICES ASSUME Types, [Next]_vars PROVE Types'
  OBVIOUS
<1> USE HostFacts DEF Types, PcValues, BringUp, Goto, claim, libida, kernelOp,
                      channel
<1>1. ASSUME NEW t \in Thread, Here(t)
      PROVE  Types'
  BY <1>1 DEF Here
<1>2. ASSUME NEW t \in Thread, Run(t)
      PROVE  Types'
  BY <1>2 DEF Run
<1>3. ASSUME NEW t \in Thread, SpawnKernel(t)
      PROVE  Types'
  BY <1>3, ZenonT(40) DEF SpawnKernel
<1>4. ASSUME NEW t \in Thread, SpawnPanics(t)
      PROVE  Types'
  BY <1>4 DEF SpawnPanics
<1>5. ASSUME NEW h \in Host, StealMain(h)
      PROVE  Types'
  BY <1>5 DEF StealMain
<1>6. ASSUME NEW h \in Host, Reclaim(h)
      PROVE  Types'
  <2>1. pc' \in [Host -> PcValues] /\ live' \in BOOLEAN
    BY <1>6, FailsTypes DEF Reclaim
  <2>2. gMain' \in Host \cup {NoHost}
    BY <1>6 DEF Reclaim, Claimed
  <2> QED
    BY <1>6, <2>1, <2>2 DEF Reclaim
<1>7. ASSUME NEW h \in Host, NotLocated(h)
      PROVE  Types'
  <2>1. pc' \in [Host -> PcValues] /\ live' \in BOOLEAN
    BY <1>7, FailsTypes DEF NotLocated
  <2> QED
    BY <1>7, <2>1 DEF NotLocated
<1>8. ASSUME NEW h \in Host, InitFails(h)
      PROVE  Types'
  <2>1. pc' \in [Host -> PcValues] /\ live' \in BOOLEAN
    BY <1>8, FailsTypes DEF InitFails
  <2> QED
    BY <1>8, <2>1 DEF InitFails
<1>9. ASSUME NEW h \in Host, InitOrSkip(h)
      PROVE  Types'
  BY <1>9 DEF InitOrSkip
<1>10. ASSUME NEW h \in Host, InitLibrary(h)
      PROVE  Types'
  BY <1>10 DEF InitLibrary
<1>11. ASSUME NEW h \in Host, IsUp(h)
      PROVE  Types'
  BY <1>11 DEF IsUp
<1>12. ASSUME NEW t \in Thread, NEW u \in Thread, Move(t, u)
      PROVE  Types'
  BY <1>12 DEF Move
<1>13. ASSUME NEW t \in Thread, DropOwned(t)
      PROVE  Types'
  BY <1>13 DEF DropOwned
<1>14. ASSUME NEW h \in Host, NEW what \in {"open", "close", "read"}, Begin(h, what), pc' = pc
      PROVE  Types'
  BY <1>14 DEF Begin, EnsureKernelThread, Claimed
<1>15. ASSUME NEW h \in Host, ReSteal(h)
      PROVE  Types'
  BY <1>15 DEF ReSteal, Claimed
<1>16. ASSUME NEW h \in Host, OpenReturns(h) \/ CloseReturns(h) \/ PlainReturns(h)
      PROVE  Types'
  BY <1>16 DEF OpenReturns, CloseReturns, PlainReturns, Returns
<1>17. ASSUME NEW t \in Thread, NEW r \in Thread, Call(t, r)
      PROVE  Types'
  <2>1. queue' \in [Thread -> Seq(Host)]
    <3>1. U(t) \in Host /\ Append(queue[r], U(t)) \in Seq(Host)
      OBVIOUS
    <3>2. CASE queue' = queue
      BY <3>2
    <3>3. CASE queue' = [queue EXCEPT ![r] = Append(@, U(t))]
      BY <3>1, <3>3
    <3> QED
      BY <1>17, <3>2, <3>3 DEF Call
  <2>2. call' \in [Host -> {"none", "sent", "ok", "panicked", "disconnected"}]
    BY <1>17, ZenonT(40) DEF Call
  <2> QED
    BY <1>17, <2>1, <2>2 DEF Call
<1>18. ASSUME NEW t \in Thread, CallFromJob(t)
      PROVE  Types'
  BY <1>18 DEF CallFromJob
<1>19. ASSUME NEW h \in Host, CallReturns(h)
      PROVE  Types'
  BY <1>19 DEF CallReturns
<1>20. ASSUME NEW t \in Thread, TakeJob(t)
      PROVE  Types'
  BY <1>20 DEF TakeJob
<1>21. ASSUME NEW t \in Thread, NEW answer \in {"ok", "panicked"}, JobEnds(t, answer)
      PROVE  Types'
  BY <1>21 DEF JobEnds
<1>22. ASSUME NEW t \in Thread, PumpEnds(t)
      PROVE  Types'
  BY <1>22 DEF PumpEnds
<1>23. ASSUME NEW t \in Thread, KernelExits(t)
      PROVE  Types'
  BY <1>23 DEF KernelExits
<1>24. ASSUME NEW t \in Thread, SetupOk(t)
      PROVE  Types'
  BY <1>24 DEF SetupOk
<1>25. ASSUME NEW t \in Thread, SetupFails(t)
      PROVE  Types'
  BY <1>25 DEF SetupFails, Leave
<1>26. ASSUME NEW t \in Thread, Join(t)
      PROVE  Types'
  BY <1>26 DEF Join, Leave
<1>27. ASSUME NEW t \in Thread, NEW r \in Thread, DropHandle(t, r)
      PROVE  Types'
  BY <1>27 DEF DropHandle
<1>28. ASSUME NEW t \in Thread, NEW v \in Thread, NEW r \in Thread, CloneTo(t, v, r)
      PROVE  Types'
  BY <1>28 DEF CloneTo
<1>29. ASSUME NEW t \in Thread, NEW stowed \in BOOLEAN, AppReturns(t, stowed)
      PROVE  Types'
  BY <1>29 DEF AppReturns
<1>30. CASE UNCHANGED vars
  BY <1>30 DEF vars
<1> QED
  BY <1>1, <1>2, <1>3, <1>4, <1>5, <1>6, <1>7, <1>8, <1>9, <1>10, <1>11, <1>12, <1>13, <1>14, <1>15, <1>16, <1>17, <1>18, <1>19, <1>20, <1>21, <1>22, <1>23, <1>24, <1>25, <1>26, <1>27, <1>28, <1>29, <1>30, SMTT(60)
     DEF Next, ClientStep, HostStep, KernelStep, BringUpStep, BringUpFault, OpStep,
         PumpStep, RunStep, BeginOp, CloseAtExit

\* The induction step, action by action.
LEMMA NextIndInv == IndInv /\ [Next]_vars => IndInv'
<1> SUFFICES ASSUME IndInv, [Next]_vars PROVE IndInv'
  OBVIOUS
<1> USE DEF Goto, claim, libida, kernelOp, channel
<1>0. Types'
  BY TypesStep DEF IndInv
<1>1. ASSUME NEW t \in Thread, Here(t)
      PROVE  IndInv'
  BY <1>0, <1>1, AcquireStep DEF Here
<1>2. ASSUME NEW t \in Thread, Run(t)
      PROVE  IndInv'
  BY <1>0, <1>2, AcquireStep DEF Run
<1>3. ASSUME NEW t \in Thread, SpawnKernel(t)
      PROVE  IndInv'
  BY <1>0, <1>3, SpawnStep
<1>4. ASSUME NEW t \in Thread, SpawnPanics(t)
      PROVE  IndInv'
  BY <1>0, <1>4, ReleaseStep DEF SpawnPanics
<1>5. ASSUME NEW h \in Host, StealMain(h) \/ Reclaim(h)
      PROVE  IndInv'
  BY <1>0, <1>5, StealStep, ReclaimStep
<1>6. ASSUME NEW h \in Host, InitOrSkip(h) \/ InitLibrary(h) \/ IsUp(h)
      PROVE  IndInv'
  BY <1>0, <1>6, InitStep, InitLibraryStep, IsUpStep
<1>7. ASSUME NEW h \in Host, NotLocated(h) \/ InitFails(h)
      PROVE  IndInv'
  <2>1. CASE h[2] = "user"
    <3>1. h = U(h[1]) /\ h[1] \in Thread
      BY <2>1, HostFacts
    <3>2. /\ pc[h] \in {"spawn", "steal", "reclaim", "initing"}
          /\ pc' = [pc EXCEPT ![h] = "idle"] /\ live' = FALSE
          /\ inited' = (IF pc[h] = "initing" THEN FALSE ELSE inited)
          /\ UNCHANGED <<gMain, libReady, kdb, owned, kernelOp>>
      BY <1>7, <2>1 DEF NotLocated, InitFails, Fails
    <3> QED
      BY <1>0, <3>1, <3>2, ReleaseStep
  <2>2. CASE h[2] = "kernel"
    <3>1. h = K(h[1]) /\ h[1] \in Thread
      BY <2>2, HostFacts
    <3>2. /\ pc[h] \in {"steal", "reclaim", "initing"}
          /\ pc' = [pc EXCEPT ![h] = "exited"] /\ live' = live
          /\ inited' = (IF pc[h] = "initing" THEN FALSE ELSE inited)
          /\ UNCHANGED <<gMain, libReady, kdb, owned, kernelOp>>
      BY <1>7, <2>2 DEF NotLocated, InitFails, Fails
    <3> QED
      BY <1>0, <3>1, <3>2, AbandonStep
  <2> QED
    BY <2>1, <2>2, HostFacts
<1>8. ASSUME NEW t \in Thread, NEW u \in Thread, Move(t, u)
      PROVE  IndInv'
  BY <1>0, <1>8, MoveStep
<1>9. ASSUME NEW t \in Thread, DropOwned(t)
      PROVE  IndInv'
  BY <1>0, <1>9, DropStep
<1>10. ASSUME NEW h \in Host, NEW what \in {"open", "close", "read"},
              BeginOp(h, what)
       PROVE  IndInv'
  BY <1>0, <1>10, BeginStep DEF BeginOp, HasDatabase
<1>11. ASSUME NEW r \in Thread, CloseAtExit(r)
       PROVE  IndInv'
  <2>1. K(r) \in Host /\ K(r)[2] = "kernel"
    BY HostFacts
  <2> QED
    BY <1>0, <1>11, <2>1, BeginStep DEF CloseAtExit
<1>12. ASSUME NEW h \in Host, ReSteal(h)
       PROVE  IndInv'
  BY <1>0, <1>12, ReStealStep
<1>13. ASSUME NEW h \in Host,
              OpenReturns(h) \/ CloseReturns(h) \/ PlainReturns(h)
       PROVE  IndInv'
  BY <1>0, <1>13, ReturnStep DEF OpenReturns, CloseReturns, PlainReturns
<1>14. ASSUME NEW r \in Thread, TakeJob(r)
       PROVE  IndInv'
  <2>1. op[K(r)] = "none"
    BY <1>14, HostFacts DEF TakeJob, IndInv, OpsByHolder
  <2> QED
    BY <1>0, <1>14, <2>1, PumpMoves DEF TakeJob
<1>15. ASSUME NEW r \in Thread, PumpEnds(r)
       PROVE  IndInv'
  <2>1. op[K(r)] = "none"
    BY <1>15, HostFacts DEF PumpEnds, IndInv, OpsByHolder
  <2> QED
    BY <1>0, <1>15, <2>1, PumpMoves DEF PumpEnds
<1>16. ASSUME NEW r \in Thread, NEW answer \in {"ok", "panicked"},
              JobEnds(r, answer)
       PROVE  IndInv'
  BY <1>0, <1>16, PumpMoves DEF JobEnds
<1>17. ASSUME NEW r \in Thread, KernelExits(r)
       PROVE  IndInv'
  BY <1>0, <1>17, PumpMoves DEF KernelExits
<1>18. ASSUME NEW r \in Thread, SetupOk(r)
       PROVE  IndInv'
  BY <1>0, <1>18, AppMoves DEF SetupOk
<1>19. ASSUME NEW r \in Thread, NEW stowed \in BOOLEAN,
              AppReturns(r, stowed)
       PROVE  IndInv'
  BY <1>0, <1>19, AppMoves DEF AppReturns
<1>20. ASSUME NEW r \in Thread, SetupFails(r) \/ Join(r)
       PROVE  IndInv'
  BY <1>0, <1>20, LeaveStep DEF SetupFails, Join
<1>21. ASSUME NEW t \in Thread, NEW r \in Thread,
              \/ Call(t, r) \/ DropHandle(t, r) \/ CallFromJob(r)
              \/ \E v \in Thread : CloneTo(t, v, r)
       PROVE  IndInv'
  BY <1>0, <1>21, ChannelStep DEF Call, DropHandle, CallFromJob, CloneTo
<1>22. ASSUME NEW h \in Host, CallReturns(h)
       PROVE  IndInv'
  BY <1>0, <1>22, ChannelStep DEF CallReturns
<1>23. CASE UNCHANGED vars
  BY <1>0, <1>23, ChannelStep DEF vars
<1> QED
  BY <1>1, <1>2, <1>3, <1>4, <1>5, <1>6, <1>7, <1>8, <1>9, <1>10, <1>11, <1>12,
     <1>13, <1>14, <1>15, <1>16, <1>17, <1>18, <1>19, <1>20, <1>21, <1>22, <1>23
     DEF Next, ClientStep, HostStep, KernelStep, BringUpStep, BringUpFault,
         OpStep, PumpStep, RunStep

(***************************************************************************)
(* The theorems.                                                           *)
(***************************************************************************)
\* What the other theorems rest on: IndInv is an invariant of the code that
\* hosts the kernel.
THEOREM KernelInvariance == Spec => []IndInv
BY InitIndInv, NextIndInv, PTL DEF Spec

\* However `here`, `run` and drops interleave, KERNEL_LIVE stands for exactly
\* one claim, and a kernel thread never outlives the `run` that spawned it.
THEOREM OneClaimAtATime == Spec => []OneClaim
<1>1. IndInv => OneClaim
  BY ClaimForm DEF IndInv
<1> QED
  BY <1>1, KernelInvariance, PTL

\* Whoever is inside libida is the thread `g_main` names.
THEOREM KernelIsThreadAffine == Spec => []KernelAffinity
<1>1. IndInv => KernelAffinity
  BY DEF IndInv, MainFollows, KernelAffinity, Touching
<1> QED
  BY <1>1, KernelInvariance, PTL

\* `init_library` comes before every other kernel call, and succeeds once.
THEOREM LibraryInitializedOnce == Spec => []InitializedOnce
<1>1. IndInv => InitializedOnce
  BY HostFacts DEF IndInv, InitTracked, InitializedOnce, OpsByHolder
<1> QED
  BY <1>1, KernelInvariance, PTL

\* What a job of `run` leaves open is closed before the claim is released.
THEOREM RunClosesItsDatabase == Spec => []RunLeavesClosed
<1>1. IndInv => RunLeavesClosed
  BY DEF IndInv, ActorKnows, RunLeavesClosed
<1> QED
  BY <1>1, KernelInvariance, PTL

(***************************************************************************)
(* The channel between `Ida::call` and the pump.                           *)
(***************************************************************************)
Queued(q, h) == \E i \in DOMAIN q : q[i] = h
Distinct(q) == \A i, j \in DOMAIN q : q[i] = q[j] => i = j

\* A kernel thread that stops serving has no senders left: nobody has one
\* before `app` gets its own, and the pump ends when the last is gone.
HandlesFollow ==
  \A r \in Thread :
    /\ pc[K(r)] \in {"none", "close"} => handles[r] = {}
    /\ pc[U(r)] = "setup" => handles[r] = {r}
    /\ pc[K(r)] = "exited" /\ pc[U(r)] # "setup" => handles[r] = {}

\* A job is in the channel or in the pump's hands, in one place.
OnePlace ==
  \A r \in Thread :
    /\ pc[K(r)] = "job" <=> job[r] # NoHost
    /\ pc[K(r)] \notin {"pump", "job"} => queue[r] = <<>>
    /\ Distinct(queue[r])
    /\ ~Queued(queue[r], job[r])

\* Callers wait for jobs that exist, and jobs have waiting callers.
Waiting ==
  \A h \in Host :
    /\ call[h] # "disconnected"
    /\ call[h] = "sent" <=> \E r \in Thread : job[r] = h \/ Queued(queue[r], h)

ChannelInv == HandlesFollow /\ OnePlace /\ Waiting

\* What sending and receiving do to a channel.
LEMMA SendFacts ==
  ASSUME NEW q \in Seq(Host), NEW x \in Host
  PROVE  /\ \A h : Queued(Append(q, x), h) <=> Queued(q, h) \/ h = x
         /\ Distinct(q) /\ ~Queued(q, x) => Distinct(Append(q, x))
<1>1. /\ DOMAIN q = 1..Len(q) /\ Len(q) \in Nat
      /\ DOMAIN Append(q, x) = 1..(Len(q) + 1)
      /\ \A i \in 1..Len(q) : Append(q, x)[i] = q[i]
      /\ Append(q, x)[Len(q) + 1] = x
  OBVIOUS
<1>2. ASSUME NEW h PROVE Queued(Append(q, x), h) <=> Queued(q, h) \/ h = x
  <2>1. Queued(q, h) => Queued(Append(q, x), h)
    BY <1>1 DEF Queued
  <2>2. h = x => Queued(Append(q, x), h)
    BY <1>1 DEF Queued
  <2>3. Queued(Append(q, x), h) => Queued(q, h) \/ h = x
    BY <1>1 DEF Queued
  <2> QED
    BY <2>1, <2>2, <2>3
<1>3. ASSUME Distinct(q), ~Queued(q, x) PROVE Distinct(Append(q, x))
  BY <1>1, <1>3 DEF Distinct, Queued
<1> QED
  BY <1>2, <1>3

LEMMA ReceiveFacts ==
  ASSUME NEW q \in Seq(Host), q # <<>>, Distinct(q)
  PROVE  /\ Head(q) \in Host /\ Queued(q, Head(q))
         /\ \A h : Queued(Tail(q), h) <=> Queued(q, h) /\ h # Head(q)
         /\ Distinct(Tail(q))
<1>1. /\ DOMAIN q = 1..Len(q) /\ Len(q) \in Nat \ {0}
      /\ DOMAIN Tail(q) = 1..(Len(q) - 1)
      /\ \A i \in 1..(Len(q) - 1) : Tail(q)[i] = q[i + 1]
      /\ Head(q) = q[1] /\ q[1] \in Host
  OBVIOUS
<1>2. ASSUME NEW h PROVE Queued(Tail(q), h) <=> Queued(q, h) /\ h # Head(q)
  <2>1. ASSUME Queued(Tail(q), h) PROVE Queued(q, h) /\ h # Head(q)
    <3>1. PICK i \in 1..(Len(q) - 1) : q[i + 1] = h
      BY <1>1, <2>1 DEF Queued
    <3>2. i + 1 \in DOMAIN q /\ 1 \in DOMAIN q /\ i + 1 # 1
      BY <1>1
    <3> QED
      BY <1>1, <3>1, <3>2 DEF Queued, Distinct
  <2>2. ASSUME Queued(q, h), h # Head(q) PROVE Queued(Tail(q), h)
    <3>1. PICK i \in 1..Len(q) : q[i] = h
      BY <1>1, <2>2 DEF Queued
    <3>2. i - 1 \in 1..(Len(q) - 1) /\ Tail(q)[i - 1] = q[i]
      BY <1>1, <2>2, <3>1
    <3> QED
      BY <1>1, <3>1, <3>2 DEF Queued
  <2> QED
    BY <2>1, <2>2
<1>3. Distinct(Tail(q))
  BY <1>1 DEF Distinct
<1> QED
  BY <1>1, <1>2, <1>3 DEF Queued

\* A step that leaves the channel alone, and takes no kernel thread out of
\* its pump with jobs left.
LEMMA QuietStep ==
  ASSUME Types, OnePlace, Waiting, UNCHANGED <<queue, job, call>>,
         \A r \in Thread :
           /\ pc'[K(r)] = "job" <=> pc[K(r)] = "job"
           /\ pc'[K(r)] \notin {"pump", "job"} =>
                pc[K(r)] \notin {"pump", "job"} \/ queue[r] = <<>>
  PROVE  OnePlace' /\ Waiting'
BY DEF OnePlace, Waiting

\* Whoever can call, clone or drop a handle of r has r's pump serving.
LEMMA HandleMeansServing ==
  ASSUME IndInv, HandlesFollow, NEW u \in Thread, NEW r \in Thread,
         u \in handles[r], Free(u)
  PROVE  pc[K(r)] \in {"pump", "job"} /\ pc[U(r)] \in {"app", "join"}
<1> USE HostFacts
<1>1. pc[U(r)] # "setup"
  BY DEF HandlesFollow, Free
<1>2. pc[K(r)] \notin {"none", "close", "exited"}
  BY <1>1 DEF HandlesFollow
<1> QED
  BY <1>1, <1>2 DEF IndInv, ClaimByThread, Phases, KernelPc

\* The channel's part of the induction step, action by action.
LEMMA ChannelInvStep ==
  ASSUME IndInv, IndInv', ChannelInv, [Next]_vars
  PROVE  ChannelInv'
<1> USE HostFacts DEF Goto, claim, libida, kernelOp, channel
<1>0. Types /\ HandlesFollow /\ OnePlace /\ Waiting
  BY DEF ChannelInv, IndInv
<1>1. ASSUME NEW t \in Thread, Here(t) \/ Run(t) \/ SpawnPanics(t)
      PROVE  ChannelInv'
  <2>1. /\ \A r \in Thread : pc'[K(r)] = pc[K(r)]
        /\ \A r \in Thread : r # t => pc'[U(r)] = pc[U(r)]
        /\ pc[U(t)] \in {"idle", "spawn"} /\ pc'[U(t)] \in {"steal", "spawn", "idle"}
        /\ UNCHANGED <<queue, job, call, handles>>
    BY <1>0, <1>1 DEF Here, Run, SpawnPanics, Types
  <2>2. HandlesFollow'
    BY <1>0, <2>1 DEF HandlesFollow
  <2> QED
    BY <1>0, <2>1, <2>2, QuietStep DEF ChannelInv
<1>2. ASSUME NEW t \in Thread, SpawnKernel(t)
      PROVE  ChannelInv'
  <2>1. /\ \A h \in Host : pc'[h] = IF h = U(t) THEN "setup"
                                 ELSE IF h = K(t) THEN "steal" ELSE pc[h]
        /\ pc[U(t)] = "spawn"
        /\ \A r \in Thread : handles'[r] = IF r = t THEN {t} ELSE handles[r]
        /\ UNCHANGED <<queue, job, call>>
    BY <1>0, <1>2 DEF SpawnKernel, Types
  <2>2. pc[K(t)] = "none"
    BY <2>1 DEF IndInv, ClaimByThread
  <2>3. HandlesFollow'
    BY <1>0, <2>1, <2>2 DEF HandlesFollow
  <2> QED
    BY <1>0, <2>1, <2>2, <2>3, QuietStep DEF ChannelInv
<1>3. ASSUME NEW h \in Host, BringUpStep(h) \/ BringUpFault(h)
      PROVE  ChannelInv'
  <2>1. /\ pc[h] \in BringUp
        /\ pc'[h] \in BringUp \cup {"idle", "pump", "exited"}
        /\ pc'[h] \in {"pump", "exited"} => h[2] = "kernel"
        /\ \A g \in Host : g # h => pc'[g] = pc[g]
        /\ UNCHANGED <<queue, job, call, handles>>
    BY <1>0, <1>3
       DEF BringUpStep, BringUpFault, StealMain, Reclaim, InitOrSkip, InitLibrary,
           IsUp, NotLocated, InitFails, Fails, BringUp, Types
  <2>2. h[2] = "kernel" => pc[U(h[1])] = "setup"
    BY <2>1 DEF IndInv, ClaimByThread, Phases, BringUp
  <2>3. HandlesFollow'
    BY <1>0, <2>1, <2>2 DEF HandlesFollow, BringUp, IndInv, ClaimByThread
  <2> QED
    BY <1>0, <2>1, <2>3, QuietStep DEF ChannelInv, BringUp
<1>4. ASSUME UNCHANGED <<pc, channel>>
      PROVE  ChannelInv'
  <2>1. HandlesFollow'
    BY <1>0, <1>4 DEF HandlesFollow
  <2> QED
    BY <1>0, <1>4, <2>1, QuietStep DEF ChannelInv
<1>5. ASSUME NEW u \in Thread, NEW r \in Thread, Call(u, r)
      PROVE  ChannelInv'
  <2>1. pc[K(r)] \in {"pump", "job"}
    BY <1>0, <1>5, HandleMeansServing DEF Call
  <2>2. /\ call[U(u)] = "none" /\ UNCHANGED <<pc, handles, job>>
        /\ \A h \in Host : call'[h] = IF h = U(u) THEN "sent" ELSE call[h]
        /\ \A s \in Thread : queue'[s] = IF s = r THEN Append(queue[r], U(u)) ELSE queue[s]
    <3>1. /\ call[U(u)] = "none" /\ UNCHANGED <<pc, handles, job>>
          /\ call' = [call EXCEPT ![U(u)] = "sent"]
          /\ queue' = [queue EXCEPT ![r] = Append(@, U(u))]
      BY <1>5, <2>1 DEF Call, Free
    <3>2. \A h \in Host : call'[h] = IF h = U(u) THEN "sent" ELSE call[h]
      BY <1>0, <3>1 DEF Types
    <3>3. \A s \in Thread : queue'[s] = IF s = r THEN Append(queue[r], U(u)) ELSE queue[s]
      BY <1>0, <3>1 DEF Types
    <3> QED
      BY <3>1, <3>2, <3>3
  <2>3. \A s \in Thread : job[s] # U(u) /\ ~Queued(queue[s], U(u))
    BY <1>0, <2>2 DEF Waiting
  <2>4. /\ \A h : Queued(queue'[r], h) <=> Queued(queue[r], h) \/ h = U(u)
        /\ Distinct(queue'[r])
    BY <1>0, <2>2, <2>3, SendFacts DEF Types, OnePlace
  <2>5. OnePlace'
    BY <1>0, <2>1, <2>2, <2>3, <2>4 DEF OnePlace
  <2>6. Waiting'
    BY <1>0, <2>2, <2>4 DEF Waiting
  <2>7. HandlesFollow'
    BY <1>0, <2>2 DEF HandlesFollow
  <2> QED
    BY <2>5, <2>6, <2>7 DEF ChannelInv
<1>6. ASSUME NEW r \in Thread, CallFromJob(r)
      PROVE  ChannelInv'
  <2>2. /\ call[K(r)] = "none" /\ pc[K(r)] = "job" /\ UNCHANGED <<pc, handles, job>>
        /\ \A h \in Host : call'[h] = IF h = K(r) THEN "sent" ELSE call[h]
        /\ \A s \in Thread : queue'[s] = IF s = r THEN Append(queue[r], K(r)) ELSE queue[s]
    BY <1>0, <1>6 DEF CallFromJob, Types
  <2>3. \A s \in Thread : job[s] # K(r) /\ ~Queued(queue[s], K(r))
    BY <1>0, <2>2 DEF Waiting
  <2>4. /\ \A h : Queued(queue'[r], h) <=> Queued(queue[r], h) \/ h = K(r)
        /\ Distinct(queue'[r])
    BY <1>0, <2>2, <2>3, SendFacts DEF Types, OnePlace
  <2>5. OnePlace'
    BY <1>0, <2>2, <2>3, <2>4 DEF OnePlace
  <2>6. Waiting'
    BY <1>0, <2>2, <2>4 DEF Waiting
  <2>7. HandlesFollow'
    BY <1>0, <2>2 DEF HandlesFollow
  <2> QED
    BY <2>5, <2>6, <2>7 DEF ChannelInv
<1>7. ASSUME NEW h \in Host, CallReturns(h)
      PROVE  ChannelInv'
  <2>1. /\ call[h] \in {"ok", "panicked", "disconnected"}
        /\ \A g \in Host : call'[g] = IF g = h THEN "none" ELSE call[g]
        /\ UNCHANGED <<pc, handles, queue, job>>
    BY <1>0, <1>7 DEF CallReturns, Types
  <2>2. Waiting'
    BY <1>0, <2>1 DEF Waiting
  <2>3. OnePlace' /\ HandlesFollow'
    BY <1>0, <2>1 DEF OnePlace, HandlesFollow
  <2> QED
    BY <2>2, <2>3 DEF ChannelInv
<1>8. ASSUME NEW r \in Thread, TakeJob(r)
      PROVE  ChannelInv'
  <2>1. /\ pc[K(r)] = "pump" /\ queue[r] # <<>>
        /\ \A h \in Host : pc'[h] = IF h = K(r) THEN "job" ELSE pc[h]
        /\ \A s \in Thread :
             /\ queue'[s] = IF s = r THEN Tail(queue[r]) ELSE queue[s]
             /\ job'[s] = IF s = r THEN Head(queue[r]) ELSE job[s]
        /\ UNCHANGED <<handles, call>>
    BY <1>0, <1>8 DEF TakeJob, Types
  <2>2. /\ Head(queue[r]) \in Host /\ Queued(queue[r], Head(queue[r]))
        /\ \A h : Queued(queue'[r], h) <=> Queued(queue[r], h) /\ h # Head(queue[r])
        /\ Distinct(queue'[r])
    BY <1>0, <2>1, ReceiveFacts DEF Types, OnePlace
  <2>3. job[r] = NoHost
    BY <1>0, <2>1 DEF OnePlace
  <2>4. OnePlace'
    BY <1>0, <2>1, <2>2 DEF OnePlace
  <2>5. Waiting'
    BY <1>0, <2>1, <2>2, <2>3 DEF Waiting
  <2>6. HandlesFollow'
    BY <1>0, <2>1 DEF HandlesFollow
  <2> QED
    BY <2>4, <2>5, <2>6 DEF ChannelInv
<1>9. ASSUME NEW r \in Thread, NEW answer \in {"ok", "panicked"}, JobEnds(r, answer)
      PROVE  ChannelInv'
  <2>1. /\ pc[K(r)] = "job"
        /\ \A h \in Host : pc'[h] = IF h = K(r) THEN "pump" ELSE pc[h]
        /\ \A s \in Thread : job'[s] = IF s = r THEN NoHost ELSE job[s]
        /\ \A h \in Host : call'[h] = IF h = job[r] THEN answer ELSE call[h]
        /\ UNCHANGED <<handles, queue>>
    BY <1>0, <1>9 DEF JobEnds, Types
  <2>2. job[r] \in Host /\ ~Queued(queue[r], job[r])
    BY <1>0, <2>1 DEF OnePlace, Types
  <2>3. \A s \in Thread : s # r => job[s] = NoHost /\ queue[s] = <<>>
    <3>1. \A s \in Thread : s # r => pc[K(s)] = "none"
      BY <2>1 DEF IndInv, ClaimByThread, Claims
    <3> QED
      BY <1>0, <3>1 DEF OnePlace
  <2>4. \A s \in Thread : s # r => ~Queued(queue[s], job[r])
    BY <2>3 DEF Queued
  <2>5. OnePlace'
    <3>1. ASSUME NEW s \in Thread PROVE ~Queued(queue[s], NoHost)
      BY <1>0 DEF Queued, Types
    <3> QED
      BY <1>0, <2>1, <3>1 DEF OnePlace
  <2>6. Waiting'
    BY <1>0, <2>1, <2>2, <2>3, <2>4 DEF Waiting
  <2>7. HandlesFollow'
    BY <1>0, <2>1 DEF HandlesFollow
  <2> QED
    BY <2>5, <2>6, <2>7 DEF ChannelInv
<1>10. ASSUME NEW r \in Thread, PumpEnds(r)
       PROVE  ChannelInv'
  <2>1. /\ pc[K(r)] = "pump" /\ queue[r] = <<>> /\ handles[r] = {}
        /\ \A h \in Host : pc'[h] = IF h = K(r) THEN "close" ELSE pc[h]
        /\ UNCHANGED <<handles, queue, job, call>>
    BY <1>0, <1>10 DEF PumpEnds, Types
  <2>2. HandlesFollow'
    BY <1>0, <2>1 DEF HandlesFollow
  <2> QED
    BY <1>0, <2>1, <2>2, QuietStep DEF ChannelInv
<1>11. ASSUME NEW r \in Thread, KernelExits(r)
       PROVE  ChannelInv'
  <2>1. /\ pc[K(r)] = "close"
        /\ \A h \in Host : pc'[h] = IF h = K(r) THEN "exited" ELSE pc[h]
        /\ UNCHANGED <<handles, job>>
    BY <1>0, <1>11 DEF KernelExits, Types
  <2>2. queue[r] = <<>>
    BY <1>0, <2>1 DEF OnePlace
  <2>3. queue' = queue /\ call' = call
    BY <1>0, <1>11, <2>2 DEF KernelExits, Types
  <2>4. HandlesFollow'
    BY <1>0, <2>1 DEF HandlesFollow
  <2> QED
    BY <1>0, <2>1, <2>3, <2>4, QuietStep DEF ChannelInv
<1>12. ASSUME NEW r \in Thread, SetupOk(r)
       PROVE  ChannelInv'
  <2>1. /\ pc[K(r)] = "pump" /\ pc[U(r)] = "setup"
        /\ \A h \in Host : pc'[h] = IF h = U(r) THEN "app" ELSE pc[h]
        /\ UNCHANGED <<handles, queue, job, call>>
    BY <1>0, <1>12 DEF SetupOk, Types
  <2>2. HandlesFollow'
    BY <1>0, <2>1 DEF HandlesFollow
  <2> QED
    BY <1>0, <2>1, <2>2, QuietStep DEF ChannelInv
<1>13. ASSUME NEW r \in Thread, SetupFails(r) \/ Join(r)
       PROVE  ChannelInv'
  <2>1. /\ pc[K(r)] = "exited" /\ pc[U(r)] \in {"setup", "join"}
        /\ \A h \in Host : pc'[h] = IF h = U(r) THEN "idle"
                                 ELSE IF h = K(r) THEN "none" ELSE pc[h]
        /\ \A s \in Thread : s # r => handles'[s] = handles[s]
        /\ handles'[r] = IF pc[U(r)] = "setup" THEN handles[r] \ {r} ELSE handles[r]
        /\ UNCHANGED <<queue, job, call>>
    <3>1. CASE SetupFails(r)
      BY <1>0, <3>1 DEF SetupFails, Leave, Types
    <3>2. CASE Join(r)
      BY <1>0, <3>2 DEF Join, Leave, Types
    <3> QED
      BY <1>13, <3>1, <3>2
  <2>2. handles'[r] = {}
    BY <1>0, <2>1 DEF HandlesFollow
  <2>3. HandlesFollow'
    BY <1>0, <2>1, <2>2 DEF HandlesFollow
  <2> QED
    BY <1>0, <2>1, <2>3, QuietStep DEF ChannelInv
<1>14. ASSUME NEW u \in Thread, NEW r \in Thread,
              DropHandle(u, r) \/ \E v \in Thread : CloneTo(u, v, r)
       PROVE  ChannelInv'
  <2>1. /\ u \in handles[r] /\ Free(u)
        /\ \A s \in Thread : s # r => handles'[s] = handles[s]
        /\ UNCHANGED <<pc, queue, job, call>>
    BY <1>0, <1>14 DEF DropHandle, CloneTo, Types
  <2>2. pc[K(r)] \in {"pump", "job"} /\ pc[U(r)] \in {"app", "join"}
    BY <1>0, <2>1, HandleMeansServing
  <2>3. HandlesFollow'
    BY <1>0, <2>1, <2>2 DEF HandlesFollow
  <2> QED
    BY <1>0, <2>1, <2>3, QuietStep DEF ChannelInv
<1>15. ASSUME NEW r \in Thread, NEW stowed \in BOOLEAN, AppReturns(r, stowed)
       PROVE  ChannelInv'
  <2>1. /\ pc[U(r)] = "app"
        /\ \A h \in Host : pc'[h] = IF h = U(r) THEN "join" ELSE pc[h]
        /\ \A s \in Thread : handles'[s] \subseteq handles[s]
        /\ \A s \in Thread : s # r => handles'[s] = handles[s]
        /\ UNCHANGED <<queue, job, call>>
    BY <1>0, <1>15 DEF AppReturns, Types
  <2>2. HandlesFollow'
    BY <1>0, <2>1 DEF HandlesFollow
  <2> QED
    BY <1>0, <2>1, <2>2, QuietStep DEF ChannelInv
<1>16. ASSUME NEW h \in Host,
              \/ OpStep(h)
              \/ \E what \in {"open", "close", "read"} : BeginOp(h, what)
       PROVE  UNCHANGED <<pc, channel>>
  BY <1>16 DEF OpStep, ReSteal, OpenReturns, CloseReturns, PlainReturns, Returns,
               BeginOp, Begin
<1>17. ASSUME NEW t \in Thread,
              \/ DropOwned(t) \/ CloseAtExit(t) \/ \E u \in Thread : Move(t, u)
       PROVE  UNCHANGED <<pc, channel>>
  BY <1>17 DEF DropOwned, CloseAtExit, Begin, Move
<1>18. CASE UNCHANGED vars
  BY <1>4, <1>18 DEF vars
<1> QED
  BY <1>1, <1>2, <1>3, <1>4, <1>5, <1>6, <1>7, <1>8, <1>9, <1>10, <1>11, <1>12,
     <1>13, <1>14, <1>15, <1>16, <1>17, <1>18
     DEF Next, ClientStep, HostStep, KernelStep, PumpStep, RunStep

\* Together with IndInv, the channel's invariant is one of the code.
THEOREM ChannelInvariance == Spec => [](IndInv /\ ChannelInv)
<1>1. Init => ChannelInv
  BY HostFacts DEF Init, ChannelInv, HandlesFollow, OnePlace, Waiting, Queued, Distinct
<1>2. IndInv /\ IndInv' /\ ChannelInv /\ [Next]_vars => ChannelInv'
  BY ChannelInvStep
<1> QED
  BY <1>1, <1>2, KernelInvariance, PTL DEF Spec

\* Whatever panics, drops and bring-up failures happen around it, a waiting
\* `Ida::call` has its job in one place of a channel that is being served,
\* and no call finds the kernel thread gone.
THEOREM EveryCallHasItsJob == Spec => []CallHasJob
<1>1. IndInv /\ ChannelInv => CallHasJob
  <2> SUFFICES ASSUME IndInv, ChannelInv PROVE CallHasJob
    OBVIOUS
  <2>1. ASSUME NEW r \in Thread, NEW h \in Host, job[r] = h \/ Queued(queue[r], h)
        PROVE  pc[K(r)] \in {"pump", "job"}
    BY <2>1, HostFacts DEF ChannelInv, OnePlace, Queued
  <2> QED
    BY <2>1 DEF ChannelInv, OnePlace, Waiting, CallHasJob, Queued
<1> QED
  BY <1>1, ChannelInvariance, PTL

\* The types, and that no channel ever holds two jobs of one caller.
THEOREM KernelTypeCorrect == Spec => []TypeOK
<1>1. IndInv /\ ChannelInv => TypeOK
  BY DEF IndInv, ChannelInv, OnePlace, Distinct, TypeOK
<1> QED
  BY <1>1, ChannelInvariance, PTL

=============================================================================

----------------------------- MODULE RunnerPool -----------------------------
(***************************************************************************)
(* The runner half of idakit-runner: `Runner::run`, one `serve` thread per *)
(* slot, the `Scheduler` they share under its lock, the results they push  *)
(* under theirs, and the worker process each thread drives.                *)
(*                                                                         *)
(* A case is its position in the list given to `run`.  `Vec::remove` keeps *)
(* the order of what is left, so the pending list is the set of positions  *)
(* still in it, read in increasing order.  The byte stream between a       *)
(* thread and its worker is the subject of module WorkerStream; here       *)
(* `run_case` ends in one of the ways it can end.  The build modelled is   *)
(* the Linux one, where `Nursery::new` and `Nursery::adopt` cannot fail    *)
(* and a child is killed when the thread that spawned it ends.             *)
(***************************************************************************)
EXTENDS Naturals, Sequences, FiniteSets

CONSTANTS NCases,     \* how many cases `run` is given
          Workers,    \* the pool size asked for with `Runner::workers`
          Group,      \* the affinity groups cases may carry
          NoGroup,    \* an ungrouped case
          MaxFaults,  \* how many things may go wrong in one behaviour
          Faults      \* which kinds of fault the environment may inject

FaultKinds == {"die", "hang", "malformed", "spawn"}

ASSUME PoolAssumption ==
  /\ NCases \in Nat
  /\ Workers \in Nat
  /\ NoGroup \notin Group
  /\ MaxFaults \in Nat
  /\ Faults \subseteq FaultKinds

Case   == 1..NCases
NoCase == 0

\* Zero workers are treated as one, and there are never more than cases.
Pool  == IF Workers = 0 THEN 1 ELSE Workers
Count == IF Pool < NCases THEN Pool ELSE NCases
Slot  == 1..Count

\* A result is the worker's own (whatever status its end frame carries), or
\* the runner's: `run_case` failed, or the case was drained unrun.
Verdict   == {"ended", "crashed", "stranded"}
NoVerdict == "none"

VARIABLES
  group,      \* group[c]: the group of case c, fixed by the caller
  main,       \* the thread in `run`: "scope" until every thread is joined
  pending,    \* Scheduler.pending
  workers,    \* Scheduler.workers; an absent key is 0
  pc,         \* where each `serve` thread is
  lastGroup,  \* its `last_group`
  lease,      \* the case it holds, NoCase when it holds none
  verdict,    \* what `run_case` returned, until it is pushed
  stranded,   \* the cases it drained in `drain_as_failed`
  results,    \* results[c]: every result pushed for case c, oldest first
  child,      \* the worker process it drives
  abandoned,  \* how many of its replaced workers are still alive
  spawned,    \* how many workers have been spawned
  faults,     \* how many things have gone wrong
  left        \* history: the groups each thread has left

vars == <<group, main, pending, workers, pc, lastGroup, lease, verdict,
          stranded, results, child, abandoned, spawned, faults, left>>

scheduler == <<pending, workers, lastGroup, left>>
process   == <<child, abandoned, spawned, faults>>

Alive == {"ready", "busy", "hung"}

Init ==
  /\ group \in [Case -> Group \cup {NoGroup}]
  /\ main = "scope"
  /\ pending = Case
  /\ workers = [g \in Group |-> 0]
  /\ pc = [s \in Slot |-> "spawn"]
  /\ lastGroup = [s \in Slot |-> NoGroup]
  /\ lease = [s \in Slot |-> NoCase]
  /\ verdict = [s \in Slot |-> NoVerdict]
  /\ stranded = [s \in Slot |-> {}]
  /\ results = [c \in Case |-> <<>>]
  /\ child = [s \in Slot |-> "none"]
  /\ abandoned = [s \in Slot |-> 0]
  /\ spawned = 0
  /\ faults = 0
  /\ left = [s \in Slot |-> {}]

Goto(s, from, to) ==
  /\ pc[s] = from
  /\ pc' = [pc EXCEPT ![s] = to]

Fault(kind) ==
  /\ kind \in Faults
  /\ faults < MaxFaults
  /\ faults' = faults + 1

\* Dropping a `Worker` neither kills nor reaps its process.
Dropped(s) ==
  [abandoned EXCEPT ![s] = IF child[s] \in Alive THEN @ + 1 ELSE @]

(***************************************************************************)
(* Spawning a worker: the first one, and the replacement after a crash.    *)
(***************************************************************************)
Spawn(s) ==
  /\ Goto(s, "spawn", "next")
  /\ child' = [child EXCEPT ![s] = "ready"]
  /\ abandoned' = Dropped(s)
  /\ spawned' = spawned + 1
  /\ UNCHANGED <<group, main, scheduler, lease, verdict, stranded, results,
                 faults>>

SpawnFails(s) ==
  /\ Goto(s, "spawn", "drain")
  /\ Fault("spawn")
  /\ child' = [child EXCEPT ![s] = "none"]
  /\ abandoned' = Dropped(s)
  /\ UNCHANGED <<group, main, scheduler, lease, verdict, stranded, results,
                 spawned>>

(***************************************************************************)
(* Scheduler::take, the three ways it can go.                              *)
(***************************************************************************)
PendingIn(g) == {c \in pending : group[c] = g}

\* Mutant: a thread is free to go to the best group after every case.
NeverStays(s) == FALSE

StillHasWork(s) == lastGroup[s] # NoGroup /\ PendingIn(lastGroup[s]) # {}

\* Mutant: the group's count is not given back.
LeaveForgets(s) == workers

\* The counts after `leave(current)`, for a thread whose group ran dry.
Leave(s) ==
  [g \in Group |-> IF g = lastGroup[s] /\ workers[g] > 0
                   THEN workers[g] - 1 ELSE workers[g]]

LeftBehind(s) ==
  [left EXCEPT ![s] = IF lastGroup[s] = NoGroup THEN @
                      ELSE @ \cup {lastGroup[s]}]

\* A case scores its group's pending cases over the workers the group would
\* then have; an ungrouped one scores 1/1.
ScoreCases(c) ==
  IF group[c] = NoGroup THEN 1 ELSE Cardinality(PendingIn(group[c]))
ScoreWorkers(c, w) ==
  IF group[c] = NoGroup THEN 1 ELSE w[group[c]] + 1

\* The scan replaces its best only for a strictly larger fraction, so it
\* ends on the first case of the largest score.
IsBest(c, w) ==
  \A d \in pending :
    LET here  == ScoreCases(c) * ScoreWorkers(d, w)
        there == ScoreCases(d) * ScoreWorkers(c, w)
    IN  here > there \/ (here = there /\ c <= d)

Enter(c, w) ==
  [g \in Group |-> IF g = group[c] THEN w[g] + 1 ELSE w[g]]

\* Stay on the current group while it has work.
TakeFromGroup(s) ==
  /\ Goto(s, "next", "run")
  /\ StillHasWork(s)
  /\ \E c \in PendingIn(lastGroup[s]) :
       /\ \A d \in PendingIn(lastGroup[s]) : c <= d
       /\ pending' = pending \ {c}
       /\ lease' = [lease EXCEPT ![s] = c]
  /\ UNCHANGED <<group, main, workers, lastGroup, verdict, stranded, results,
                 process, left>>

\* Leave it, and go where one more worker buys the most.
TakeBest(s) ==
  /\ Goto(s, "next", "run")
  /\ ~StillHasWork(s)
  /\ \E c \in pending :
       /\ IsBest(c, Leave(s))
       /\ pending' = pending \ {c}
       /\ workers' = Enter(c, Leave(s))
       /\ lease' = [lease EXCEPT ![s] = c]
       /\ lastGroup' = [lastGroup EXCEPT ![s] = group[c]]
  /\ left' = LeftBehind(s)
  /\ UNCHANGED <<group, main, verdict, stranded, results, process>>

\* Nothing is pending: the group is left and `serve` falls out of its loop.
TakeNone(s) ==
  /\ Goto(s, "next", "quit")
  /\ pending = {}
  /\ workers' = Leave(s)
  /\ left' = LeftBehind(s)
  /\ UNCHANGED <<group, main, pending, lastGroup, lease, verdict, stranded,
                 results, process>>

(***************************************************************************)
(* run_case.                                                               *)
(***************************************************************************)
\* The request is written; a process that is still setting up reads it later.
SendRun(s) ==
  /\ Goto(s, "run", "wait")
  /\ child[s] \in Alive
  /\ child' = [child EXCEPT ![s] = IF @ = "ready" THEN "busy" ELSE @]
  /\ UNCHANGED <<group, main, scheduler, lease, verdict, stranded, results,
                 abandoned, spawned, faults>>

\* The worker died between two cases: the write fails.
SendFails(s) ==
  /\ Goto(s, "run", "push")
  /\ child[s] = "gone"
  /\ verdict' = [verdict EXCEPT ![s] = "crashed"]
  /\ UNCHANGED <<group, main, scheduler, lease, stranded, results, process>>

\* The end frame arrives.
Ended(s) ==
  /\ Goto(s, "wait", "push")
  /\ child[s] = "busy"
  /\ child' = [child EXCEPT ![s] = "ready"]
  /\ verdict' = [verdict EXCEPT ![s] = "ended"]
  /\ UNCHANGED <<group, main, scheduler, lease, stranded, results, abandoned,
                 spawned, faults>>

\* Mutant: the deadline is armed again at every wakeup.
TimedOutRearms(s) ==
  pc[s] = "wait" /\ child[s] \in {"hung", "gone"} /\ UNCHANGED vars

\* The deadline passes: the worker is killed and the case fails.
TimedOut(s) ==
  /\ Goto(s, "wait", "push")
  /\ child[s] \in {"hung", "gone"}
  /\ child' = [child EXCEPT ![s] = "gone"]
  /\ verdict' = [verdict EXCEPT ![s] = "crashed"]
  /\ UNCHANGED <<group, main, scheduler, lease, stranded, results, abandoned,
                 spawned, faults>>

\* The worker's stream ended before the end frame.
Disconnected(s) ==
  /\ Goto(s, "wait", "push")
  /\ child[s] = "gone"
  /\ verdict' = [verdict EXCEPT ![s] = "crashed"]
  /\ UNCHANGED <<group, main, scheduler, lease, stranded, results, process>>

\* `line?` on a line that does not parse (a malformed frame, or output that
\* is not UTF-8): run_case returns the error and leaves the worker running.
Malformed(s) ==
  /\ Goto(s, "wait", "push")
  /\ child[s] \in Alive
  /\ Fault("malformed")
  /\ verdict' = [verdict EXCEPT ![s] = "crashed"]
  /\ UNCHANGED <<group, main, scheduler, lease, stranded, results, child,
                 abandoned, spawned>>

\* Mutant: the dead worker is kept for the next case.
PushKeepsWorker(s) ==
  /\ Goto(s, "push", "next")
  /\ results' = [results EXCEPT ![lease[s]] = Append(@, verdict[s])]
  /\ lease' = [lease EXCEPT ![s] = NoCase]
  /\ verdict' = [verdict EXCEPT ![s] = NoVerdict]
  /\ UNCHANGED <<group, main, scheduler, stranded, process>>

\* The result is pushed, and a worker that failed is replaced.
Push(s) ==
  /\ pc[s] = "push"
  /\ results' = [results EXCEPT ![lease[s]] = Append(@, verdict[s])]
  /\ lease' = [lease EXCEPT ![s] = NoCase]
  /\ pc' = [pc EXCEPT ![s] = IF verdict[s] = "crashed" THEN "spawn"
                             ELSE "next"]
  /\ verdict' = [verdict EXCEPT ![s] = NoVerdict]
  /\ UNCHANGED <<group, main, scheduler, stranded, process>>

(***************************************************************************)
(* The end of a thread: shutdown after the last case, or drain_as_failed.  *)
(***************************************************************************)
\* QUIT is written (an error is ignored) and stdin dropped.
Quit(s) ==
  /\ Goto(s, "quit", "reap")
  /\ UNCHANGED <<group, main, scheduler, lease, verdict, stranded, results,
                 process>>

\* `child.wait()` returns; the thread ends and takes abandoned workers along.
Reap(s) ==
  /\ Goto(s, "reap", "stopped")
  /\ child[s] = "gone"
  /\ abandoned' = [abandoned EXCEPT ![s] = 0]
  /\ UNCHANGED <<group, main, scheduler, lease, verdict, stranded, results,
                 child, spawned, faults>>

\* Mutant: the queue is copied rather than taken.
DrainQueueCopies(s) ==
  /\ Goto(s, "drain", "report")
  /\ stranded' = [stranded EXCEPT ![s] = pending]
  /\ UNCHANGED <<group, main, scheduler, lease, verdict, results, process>>

\* drain_as_failed takes whatever is left, under the scheduler lock ...
DrainQueue(s) ==
  /\ Goto(s, "drain", "report")
  /\ stranded' = [stranded EXCEPT ![s] = pending]
  /\ pending' = {}
  /\ UNCHANGED <<group, main, workers, lastGroup, left, lease, verdict,
                 results, process>>

\* ... and reports it under the results lock.
PushStranded(s) ==
  /\ Goto(s, "report", "failed")
  /\ results' = [c \in Case |-> IF c \in stranded[s]
                                THEN Append(results[c], "stranded")
                                ELSE results[c]]
  /\ stranded' = [stranded EXCEPT ![s] = {}]
  /\ abandoned' = [abandoned EXCEPT ![s] = 0]
  /\ UNCHANGED <<group, main, scheduler, lease, verdict, child, spawned,
                 faults>>

\* Mutant: the threads are not joined.
ReturnsEarly ==
  /\ main = "scope"
  /\ pending = {}
  /\ main' = "returned"
  /\ UNCHANGED <<group, scheduler, pc, lease, verdict, stranded, results,
                 process>>

\* The scope joins every thread and `run` returns the results.
ReturnResults ==
  /\ main = "scope"
  /\ \A s \in Slot : pc[s] \in {"stopped", "failed"}
  /\ main' = "returned"
  /\ UNCHANGED <<group, scheduler, pc, lease, verdict, stranded, results,
                 process>>

(***************************************************************************)
(* The worker processes.                                                   *)
(***************************************************************************)
WorkerDies(s) ==
  /\ child[s] \in Alive
  /\ Fault("die")
  /\ child' = [child EXCEPT ![s] = "gone"]
  /\ UNCHANGED <<group, main, scheduler, pc, lease, verdict, stranded,
                 results, abandoned, spawned>>

\* It wedges in its setup, in a case, or on its way out.  A case that will
\* not finish before its deadline is hung too: the runner cannot tell.
WorkerHangs(s) ==
  /\ child[s] \in {"ready", "busy"}
  /\ Fault("hang")
  /\ child' = [child EXCEPT ![s] = "hung"]
  /\ UNCHANGED <<group, main, scheduler, pc, lease, verdict, stranded,
                 results, abandoned, spawned>>

\* It reads QUIT, or the end of its stdin, and exits.
WorkerExits(s) ==
  /\ pc[s] = "reap"
  /\ child[s] = "ready"
  /\ child' = [child EXCEPT ![s] = "gone"]
  /\ UNCHANGED <<group, main, scheduler, pc, lease, verdict, stranded,
                 results, abandoned, spawned, faults>>

\* A replaced worker notices its closed stdin.
AbandonedExits(s) ==
  /\ abandoned[s] > 0
  /\ abandoned' = [abandoned EXCEPT ![s] = @ - 1]
  /\ UNCHANGED <<group, main, scheduler, pc, lease, verdict, stranded,
                 results, child, spawned, faults>>

\* `shutdown` waits for the exit without a deadline.
HungAtExit == \E s \in Slot : pc[s] = "reap" /\ child[s] = "hung"

\* `run` has returned, or never will.
Finished == (main = "returned" \/ HungAtExit) /\ UNCHANGED vars

ServeStep(s) ==
  \/ Spawn(s) \/ SpawnFails(s)
  \/ TakeFromGroup(s) \/ TakeBest(s) \/ TakeNone(s)
  \/ SendRun(s) \/ SendFails(s)
  \/ Ended(s) \/ TimedOut(s) \/ Disconnected(s) \/ Malformed(s)
  \/ Push(s)
  \/ Quit(s) \/ Reap(s)
  \/ DrainQueue(s) \/ PushStranded(s)

ProcessStep(s) ==
  WorkerDies(s) \/ WorkerHangs(s) \/ WorkerExits(s) \/ AbandonedExits(s)

Next ==
  \/ \E s \in Slot : ServeStep(s) \/ ProcessStep(s)
  \/ ReturnResults
  \/ Finished

Spec == Init /\ [][Next]_vars

(***************************************************************************)
(* The OS schedules every thread; a case that is not hung ends; a healthy  *)
(* worker told to quit exits.  Nothing forces a fault, or the exit of an   *)
(* abandoned worker.                                                       *)
(***************************************************************************)
Fairness ==
  /\ \A s \in Slot : WF_vars(ServeStep(s)) /\ WF_vars(WorkerExits(s))
  /\ WF_vars(ReturnResults)

FairSpec == Spec /\ Fairness

(***************************************************************************)
(* Properties.                                                             *)
(***************************************************************************)
\* Every variable holds a value of its Rust type.
TypeOK ==
  /\ group \in [Case -> Group \cup {NoGroup}]
  /\ main \in {"scope", "returned"}
  /\ pending \in SUBSET Case
  /\ workers \in [Group -> Nat]
  /\ pc \in [Slot -> {"spawn", "next", "run", "wait", "push", "quit", "reap",
                      "stopped", "drain", "report", "failed"}]
  /\ lastGroup \in [Slot -> Group \cup {NoGroup}]
  /\ lease \in [Slot -> Case \cup {NoCase}]
  /\ verdict \in [Slot -> Verdict \cup {NoVerdict}]
  /\ stranded \in [Slot -> SUBSET Case]
  /\ results \in [Case -> Seq(Verdict)]
  /\ child \in [Slot -> Alive \cup {"none", "gone"}]
  /\ abandoned \in [Slot -> Nat]
  /\ spawned \in Nat
  /\ faults \in 0..MaxFaults
  /\ left \in [Slot -> SUBSET Group]

\* Who is answerable for case c: the queue, the thread running it, the thread
\* that drained it, or the results.
Holders(c) ==
  {<<"queue", 0>> : x \in {y \in {c} : y \in pending}}
    \cup {<<"lease", s>> : s \in {t \in Slot : lease[t] = c}}
    \cup {<<"stranded", s>> : s \in {t \in Slot : c \in stranded[t]}}
    \cup {<<"results", i>> : i \in DOMAIN results[c]}

\* No case is lost and none is reported or run twice, whatever dies, hangs or
\* fails to start and however the threads' two separate locks interleave:
\* every case has exactly one holder at every moment of `run`.
OneHolder ==
  \A c \in Case : \E h \in Holders(c) : Holders(c) = {h}

\* "Runs every case and returns one result per case" (Runner::run).
ReturnsEveryCase ==
  main = "returned" => \A c \in Case : Len(results[c]) = 1

\* Scheduler.workers, the denominator of every score, counts exactly the
\* threads on each group: the running ones, and those that failed to spawn a
\* worker while on it, which never call `leave`.
OnGroup(g) ==
  {s \in Slot : lastGroup[s] = g /\ pc[s] \notin {"quit", "reap", "stopped"}}
WorkersExact == \A g \in Group : workers[g] = Cardinality(OnGroup(g))

\* A thread never comes back to a group it left, so its worker opens each
\* database once (tests/selftest.rs, a_worker_never_reopens_a_group_it_finished);
\* it rests on no other thread ever adding work to a group that ran dry.
NeverReopens ==
  \A s \in Slot :
    pc[s] \in {"spawn", "next", "run", "wait", "push"}
      => lastGroup[s] \notin left[s]

\* "one hang costs that case rather than the run" (Runner::timeout): there are
\* never more crashed cases than things that went wrong, since the thread of a
\* dead worker replaces it before it leases again.
CrashedCases ==
  {c \in Case : \E i \in DOMAIN results[c] : results[c][i] = "crashed"}
    \cup {lease[s] : s \in {t \in Slot : pc[t] = "push"
                                         /\ verdict[t] = "crashed"}}
OneCasePerFault == Cardinality(CrashedCases) <= faults

\* `run` returns, whatever its workers do, unless one of them hangs on its way
\* out.
RunReturns == (main = "scope") ~> (main = "returned" \/ HungAtExit)

\* The pool implements CaseRun: a case is queued until its lease is visible,
\* and a result, once pushed, is the case's result for good.
Outcome(c) ==
  IF results[c] # <<>> THEN results[c][Len(results[c])]
  ELSE IF \E s \in Slot : lease[s] = c THEN "running" ELSE "queued"
Promise == INSTANCE CaseRun WITH
             outcome <- [c \in Case |-> Outcome(c)],
             returned <- main = "returned"
KeepsPromise == Promise!AbstractSpec
============================================================================

-------------------------- MODULE RunnerPoolProofs --------------------------
(***************************************************************************)
(* Theorems about RunnerPool, for every number of cases and workers, every *)
(* grouping and every number of faults.                                    *)
(***************************************************************************)
EXTENDS RunnerPool, FiniteSetTheorems, TLAPS

(***************************************************************************)
(* The inductive invariant.  OneHolder alone is not inductive: a thread    *)
(* about to lease must be known to hold nothing, or the case it held would *)
(* be lost, and a thread about to push must be known to hold a case and a  *)
(* result.                                                                 *)
(***************************************************************************)
Holding == {"run", "wait", "push"}
Ending  == {"quit", "reap", "stopped", "report", "failed"}

\* What a thread holds at each point of `serve`.
Shape ==
  \A s \in Slot :
    /\ lease[s] # NoCase <=> pc[s] \in Holding
    /\ stranded[s] # {} => pc[s] = "report"
    /\ pc[s] = "push" => verdict[s] \in Verdict

\* A pending case is nobody's yet.
QueuedOnce ==
  \A c \in pending :
    /\ results[c] = <<>>
    /\ \A s \in Slot : lease[s] # c /\ c \notin stranded[s]

\* A leased case has one thread and no result.
LeasedOnce ==
  \A s \in Slot :
    lease[s] # NoCase =>
      /\ results[lease[s]] = <<>>
      /\ \A t \in Slot : lease[s] \notin stranded[t]
                           /\ (lease[t] = lease[s] => t = s)

\* So has a stranded one.
StrandedOnce ==
  \A s \in Slot : \A c \in stranded[s] :
    /\ results[c] = <<>>
    /\ \A t \in Slot : c \in stranded[t] => t = s

ReportedOnce == \A c \in Case : Len(results[c]) <= 1

NotLost ==
  \A c \in Case :
    \/ c \in pending
    \/ \E s \in Slot : lease[s] = c \/ c \in stranded[s]
    \/ results[c] # <<>>

\* Once a thread has found the queue empty, it stays empty.
Drained == (\E s \in Slot : pc[s] \in Ending) => pending = {}

Joined ==
  main = "returned" => \A s \in Slot : pc[s] \in {"stopped", "failed"}

IndInv ==
  /\ TypeOK /\ Shape
  /\ QueuedOnce /\ LeasedOnce /\ StrandedOnce /\ ReportedOnce /\ NotLost
  /\ Drained /\ Joined

\* A one-element sequence has length 1.
LEMMA SingletonLen == \A v : Len(<<v>>) = 1
OBVIOUS

\* Appending to the empty sequence makes a one-element one.
LEMMA AppendToEmpty == ASSUME NEW v PROVE Append(<<>>, v) = <<v>>
OBVIOUS

\* A sequence that is not empty and no longer than one has one element.
LEMMA ShortSeq ==
  ASSUME NEW S, NEW q \in Seq(S), q # <<>>, Len(q) <= 1
  PROVE  Len(q) = 1 /\ DOMAIN q = {1}
<1>1. Len(q) \in Nat /\ Len(q) # 0
  OBVIOUS
<1>2. Len(q) = 1
  BY <1>1
<1> QED
  BY <1>2

\* NoCase names no case.
LEMMA NoCaseIsNone == NoCase \notin Case
BY DEF NoCase, Case

\* Before any thread has started, every case is in the queue.
LEMMA InitIndInv == Init => IndInv
<1> SUFFICES ASSUME Init PROVE IndInv
  OBVIOUS
<1> USE PoolAssumption, NoCaseIsNone DEF Init
<1>1. TypeOK
  BY DEF TypeOK, NoVerdict
<1>2. Shape
  BY DEF Shape, Holding
<1>3. QueuedOnce /\ LeasedOnce /\ StrandedOnce /\ ReportedOnce
  BY DEF QueuedOnce, LeasedOnce, StrandedOnce, ReportedOnce
<1>4. NotLost /\ Drained /\ Joined
  BY DEF NotLost, Drained, Joined, Ending
<1> QED
  BY <1>1, <1>2, <1>3, <1>4 DEF IndInv

(***************************************************************************)
(* Steps that touch neither the queue nor what a thread holds: they move a *)
(* thread between two points at which it holds the same things, or change  *)
(* a worker process.                                                       *)
(***************************************************************************)
Quiet(s) ==
  \/ Spawn(s) \/ SpawnFails(s) \/ SendRun(s) \/ SendFails(s) \/ Ended(s)
  \/ TimedOut(s) \/ Disconnected(s) \/ Malformed(s) \/ Quit(s) \/ Reap(s)
  \/ ProcessStep(s)


\* A quiet step keeps a thread's place relative to what it holds.
SamePlace ==
  \A t \in Slot :
    /\ pc'[t] \in Holding <=> pc[t] \in Holding
    /\ pc'[t] \in Ending => pc[t] \in Ending
    /\ pc[t] = "report" => pc'[t] = "report"
    /\ pc'[t] = "push" => verdict'[t] \in Verdict
    /\ pc[t] \in {"stopped", "failed"} => pc'[t] = pc[t]

\* A step that touches neither queue, leases, drained cases nor results moves
\* no case.
LEMMA QuietPlaces ==
  ASSUME TypeOK, Shape, NEW s \in Slot, Quiet(s)
  PROVE  TypeOK' /\ SamePlace
<1> USE PoolAssumption DEF TypeOK, SamePlace, Shape, Holding, Ending, Goto,
                           Fault, Dropped, Alive, scheduler, process
<1>1. CASE Spawn(s)
  BY <1>1 DEF Spawn
<1>2. CASE SpawnFails(s)
  BY <1>2 DEF SpawnFails
<1>3. CASE SendRun(s)
  BY <1>3 DEF SendRun
<1>4. CASE SendFails(s) \/ Disconnected(s)
  BY <1>4, ZenonT(40) DEF SendFails, Disconnected, Verdict
<1>5. CASE Ended(s)
  BY <1>5 DEF Ended, Verdict
<1>6. CASE TimedOut(s)
  BY <1>6 DEF TimedOut, Verdict
<1>7. CASE Malformed(s)
  BY <1>7 DEF Malformed, Verdict
<1>8. CASE Quit(s)
  BY <1>8 DEF Quit
<1>9. CASE Reap(s)
  BY <1>9 DEF Reap
<1>10. CASE WorkerDies(s)
  BY <1>10 DEF WorkerDies
<1>11. CASE WorkerHangs(s)
  BY <1>11 DEF WorkerHangs
<1>12. CASE WorkerExits(s)
  BY <1>12 DEF WorkerExits
<1>13. CASE AbandonedExits(s)
  BY <1>13 DEF AbandonedExits
<1> QED
  BY <1>1, <1>2, <1>3, <1>4, <1>5, <1>6, <1>7, <1>8, <1>9, <1>10, <1>11,
     <1>12, <1>13
  DEF Quiet, ProcessStep

\* Such a step keeps the whole invariant, whatever it does to a process.
LEMMA QuietStep ==
  ASSUME IndInv, NEW s \in Slot, Quiet(s)
  PROVE  IndInv'
<1>1. UNCHANGED <<group, main, pending, lease, stranded, results>>
  BY DEF Quiet, ProcessStep, Spawn, SpawnFails, SendRun, SendFails, Ended,
         TimedOut, Disconnected, Malformed, Quit, Reap, WorkerDies,
         WorkerHangs, WorkerExits, AbandonedExits, scheduler, process
<1>2. TypeOK' /\ SamePlace
  BY QuietPlaces DEF IndInv
<1>3. Shape' /\ Drained' /\ Joined'
  BY <1>1, <1>2 DEF IndInv, Shape, Drained, Joined, SamePlace
<1>4. (QueuedOnce /\ LeasedOnce /\ StrandedOnce /\ ReportedOnce /\ NotLost)'
  BY <1>1 DEF IndInv, QueuedOnce, LeasedOnce, StrandedOnce, ReportedOnce,
              NotLost
<1> QED
  BY <1>2, <1>3, <1>4 DEF IndInv

(***************************************************************************)
(* Steps that move a case.                                                 *)
(***************************************************************************)
LEMMA TakeStep ==
  ASSUME IndInv, NEW s \in Slot, TakeFromGroup(s) \/ TakeBest(s)
  PROVE  IndInv'
<1>1. PICK c \in pending :
        /\ pc[s] = "next"
        /\ pc' = [pc EXCEPT ![s] = "run"]
        /\ pending' = pending \ {c}
        /\ lease' = [lease EXCEPT ![s] = c]
        /\ UNCHANGED <<group, main, verdict, stranded, results, process>>
  BY DEF TakeFromGroup, TakeBest, Goto, PendingIn
<1>2. /\ workers' \in [Group -> Nat]
      /\ lastGroup' \in [Slot -> Group \cup {NoGroup}]
      /\ left' \in [Slot -> SUBSET Group]
  <2>1. CASE TakeFromGroup(s)
    BY <2>1 DEF IndInv, TypeOK, TakeFromGroup
  <2>2. CASE TakeBest(s)
    <3>1. Leave(s) \in [Group -> Nat]
      BY DEF IndInv, TypeOK, Leave
    <3>2. workers' \in [Group -> Nat]
      BY <2>2, <3>1 DEF TakeBest, Enter
    <3>3. lastGroup' \in [Slot -> Group \cup {NoGroup}]
      BY <2>2 DEF IndInv, TypeOK, TakeBest
    <3>4. left' \in [Slot -> SUBSET Group]
      BY <2>2 DEF IndInv, TypeOK, TakeBest, LeftBehind
    <3> QED
      BY <3>2, <3>3, <3>4
  <2> QED
    BY <2>1, <2>2
<1>3. c \in Case /\ c # NoCase /\ lease[s] = NoCase
  BY <1>1, NoCaseIsNone DEF IndInv, TypeOK, Shape, Holding
<1>4. TypeOK'
  BY <1>1, <1>2, <1>3 DEF IndInv, TypeOK, process
<1>5. Shape'
  BY <1>1, <1>3 DEF IndInv, TypeOK, Shape, Holding
<1>6. QueuedOnce' /\ StrandedOnce' /\ ReportedOnce'
  BY <1>1, <1>3 DEF IndInv, TypeOK, QueuedOnce, StrandedOnce, ReportedOnce
<1>7. LeasedOnce'
  BY <1>1, <1>3 DEF IndInv, TypeOK, QueuedOnce, LeasedOnce
<1>8. NotLost'
  <2> SUFFICES ASSUME NEW d \in Case
               PROVE  \/ d \in pending'
                      \/ \E t \in Slot : lease'[t] = d \/ d \in stranded'[t]
                      \/ results'[d] # <<>>
    BY DEF NotLost
  <2>1. CASE d = c
    BY <1>1, <2>1 DEF IndInv, TypeOK
  <2>2. CASE \E t \in Slot : lease[t] = d
    <3> PICK t \in Slot : lease[t] = d
      BY <2>2
    <3> t # s
      BY <1>3, NoCaseIsNone
    <3> QED
      BY <1>1 DEF IndInv, TypeOK
  <2> QED
    BY <1>1, <2>1, <2>2 DEF IndInv, NotLost
<1>9. Drained' /\ Joined'
  BY <1>1 DEF IndInv, TypeOK, Drained, Joined, Ending
<1> QED
  BY <1>4, <1>5, <1>6, <1>7, <1>8, <1>9 DEF IndInv

\* Finding the queue empty moves no case.
LEMMA TakeNoneStep ==
  ASSUME IndInv, NEW s \in Slot, TakeNone(s)
  PROVE  IndInv'
<1> USE DEF TakeNone, Goto, process
<1>1. TypeOK'
  BY DEF IndInv, TypeOK, Leave, LeftBehind
<1>2. Shape' /\ Drained' /\ Joined'
  BY DEF IndInv, TypeOK, Shape, Holding, Drained, Joined
<1>3. (QueuedOnce /\ LeasedOnce /\ StrandedOnce /\ ReportedOnce /\ NotLost)'
  BY DEF IndInv, QueuedOnce, LeasedOnce, StrandedOnce, ReportedOnce, NotLost
<1> QED
  BY <1>1, <1>2, <1>3 DEF IndInv

\* Pushing a result moves the case from its thread to the results.
LEMMA PushStep ==
  ASSUME IndInv, NEW s \in Slot, Push(s)
  PROVE  IndInv'
<1> DEFINE c == lease[s]
<1> USE DEF Push, scheduler, process
<1>1. c \in Case /\ verdict[s] \in Verdict /\ results[c] = <<>>
  BY DEF IndInv, TypeOK, Shape, Holding, LeasedOnce
<1>2. results'[c] = <<verdict[s]>>
      /\ \A d \in Case \ {c} : results'[d] = results[d]
  BY <1>1 DEF IndInv, TypeOK
<1>3. TypeOK'
  BY <1>1 DEF IndInv, TypeOK, NoVerdict, NoCase
<1>4. Shape' /\ Drained' /\ Joined'
  BY NoCaseIsNone DEF IndInv, TypeOK, Shape, Holding, Drained, Joined, Ending
<1> HIDE DEF Push
<1>5. /\ lease' = [lease EXCEPT ![s] = NoCase]
      /\ UNCHANGED <<pending, stranded>>
  BY DEF Push
<1>6. \A d \in pending : d # c
  BY <1>1 DEF IndInv, QueuedOnce
<1>7. QueuedOnce'
  BY <1>2, <1>5, <1>6, NoCaseIsNone DEF IndInv, TypeOK, QueuedOnce
<1>8. LeasedOnce'
  BY <1>1, <1>2, <1>5, NoCaseIsNone DEF IndInv, TypeOK, LeasedOnce
<1>9. StrandedOnce'
  <2>1. \A t \in Slot : c \notin stranded[t] /\ stranded[t] \subseteq Case
    BY <1>1, NoCaseIsNone DEF IndInv, TypeOK, LeasedOnce
  <2> QED
    BY <1>2, <1>5, <2>1 DEF IndInv, StrandedOnce
<1>10. ReportedOnce'
  <2> SUFFICES ASSUME NEW d \in Case PROVE Len(results'[d]) <= 1
    BY DEF ReportedOnce
  <2>1. CASE d = c
    <3>1. results'[d] = <<verdict[s]>>
      BY <1>2, <2>1
    <3>2. Len(results'[d]) = 1
      BY <3>1, SingletonLen, Zenon
    <3> QED
      BY <3>2
  <2>2. CASE d # c
    BY <1>2, <2>2 DEF IndInv, ReportedOnce
  <2> QED
    BY <2>1, <2>2
<1>11. NotLost'
  <2> SUFFICES ASSUME NEW d \in Case
               PROVE  \/ d \in pending'
                      \/ \E t \in Slot : lease'[t] = d \/ d \in stranded'[t]
                      \/ results'[d] # <<>>
    BY DEF NotLost
  <2>1. CASE d = c
    BY <1>2, <2>1
  <2>2. CASE d # c /\ \E t \in Slot : lease[t] = d
    BY <1>5, <2>2 DEF IndInv, TypeOK
  <2> QED
    BY <1>2, <1>5, <2>1, <2>2 DEF IndInv, NotLost
<1> QED
  BY <1>3, <1>4, <1>7, <1>8, <1>9, <1>10, <1>11 DEF IndInv

\* Draining moves the whole queue into one thread's hands.
LEMMA DrainStep ==
  ASSUME IndInv, NEW s \in Slot, DrainQueue(s)
  PROVE  IndInv'
<1>1. /\ pc[s] = "drain"
      /\ pc' = [pc EXCEPT ![s] = "report"]
      /\ stranded' = [stranded EXCEPT ![s] = pending]
      /\ pending' = {}
      /\ UNCHANGED <<group, main, workers, lastGroup, left, lease, verdict,
                     results, process>>
  BY DEF DrainQueue, Goto
<1>2. stranded[s] = {} /\ stranded'[s] = pending
      /\ \A t \in Slot \ {s} : stranded'[t] = stranded[t]
  BY <1>1 DEF IndInv, TypeOK, Shape
<1>3. TypeOK'
  BY <1>1 DEF IndInv, TypeOK, process
<1>4. Shape'
  BY <1>1, <1>2 DEF IndInv, TypeOK, Shape, Holding
<1>5. QueuedOnce' /\ ReportedOnce' /\ Drained' /\ Joined'
  BY <1>1 DEF IndInv, TypeOK, QueuedOnce, ReportedOnce, Drained, Joined
<1>6. LeasedOnce'
  BY <1>1, <1>2 DEF IndInv, TypeOK, QueuedOnce, LeasedOnce
<1>7. StrandedOnce'
  BY <1>1, <1>2 DEF IndInv, TypeOK, QueuedOnce, StrandedOnce
<1>8. NotLost'
  BY <1>1, <1>2 DEF IndInv, TypeOK, NotLost
<1> QED
  BY <1>3, <1>4, <1>5, <1>6, <1>7, <1>8 DEF IndInv

\* Reporting the drained cases moves them from their thread to the results.
LEMMA PushStrandedStep ==
  ASSUME IndInv, NEW s \in Slot, PushStranded(s)
  PROVE  IndInv'
<1>1. /\ pc[s] = "report"
      /\ pc' = [pc EXCEPT ![s] = "failed"]
      /\ stranded' = [stranded EXCEPT ![s] = {}]
      /\ abandoned' = [abandoned EXCEPT ![s] = 0]
      /\ UNCHANGED <<group, main, scheduler, lease, verdict, child, spawned,
                     faults>>
  BY DEF PushStranded, Goto
<1>2. results' = [c \in Case |-> IF c \in stranded[s]
                                 THEN Append(results[c], "stranded")
                                 ELSE results[c]]
  BY DEF PushStranded
<1>3. \A c \in stranded[s] : c \in Case /\ results[c] = <<>>
  BY DEF IndInv, TypeOK, StrandedOnce
<1>4. \A c \in stranded[s] : results'[c] = <<"stranded">>
  BY <1>2, <1>3, AppendToEmpty
<1>5. \A c \in Case : c \notin stranded[s] => results'[c] = results[c]
  BY <1>2
<1>6. \A t \in Slot : stranded'[t] = IF t = s THEN {} ELSE stranded[t]
  BY <1>1 DEF IndInv, TypeOK
<1>7. TypeOK'
  <2>1. results' \in [Case -> Seq(Verdict)]
    BY <1>2, <1>3 DEF IndInv, TypeOK, Verdict
  <2> QED
    BY <1>1, <2>1 DEF IndInv, TypeOK, scheduler
<1>8. Shape'
  BY <1>1, <1>6 DEF IndInv, TypeOK, Shape, Holding
<1>9. Drained' /\ Joined'
  BY <1>1 DEF IndInv, TypeOK, Drained, Joined, Ending, scheduler
<1>10. pending' = pending /\ lease' = lease
  BY <1>1 DEF scheduler
<1>11. QueuedOnce'
  BY <1>5, <1>6, <1>10 DEF IndInv, TypeOK, QueuedOnce
<1>12. LeasedOnce'
  BY <1>5, <1>6, <1>10, NoCaseIsNone, ZenonT(40) DEF IndInv, TypeOK, LeasedOnce
<1>13. StrandedOnce'
  BY <1>5, <1>6, <1>10 DEF IndInv, TypeOK, StrandedOnce
<1>14. ReportedOnce'
  <2> SUFFICES ASSUME NEW d \in Case PROVE Len(results'[d]) <= 1
    BY DEF ReportedOnce
  <2>1. CASE d \in stranded[s]
    <3>1. results'[d] = <<"stranded">>
      BY <1>4, <2>1
    <3>2. Len(results'[d]) = 1
      BY <3>1, SingletonLen, Zenon
    <3> QED
      BY <3>2
  <2>2. CASE d \notin stranded[s]
    BY <1>5, <2>2 DEF IndInv, ReportedOnce
  <2> QED
    BY <2>1, <2>2
<1>15. NotLost'
  <2> SUFFICES ASSUME NEW d \in Case
               PROVE  \/ d \in pending'
                      \/ \E t \in Slot : lease'[t] = d \/ d \in stranded'[t]
                      \/ results'[d] # <<>>
    BY DEF NotLost
  <2>1. CASE d \in stranded[s]
    BY <1>4, <2>1
  <2>2. CASE d \notin stranded[s]
    BY <1>5, <1>6, <1>10, <2>2 DEF IndInv, NotLost
  <2> QED
    BY <2>1, <2>2
<1> QED
  BY <1>7, <1>8, <1>9, <1>11, <1>12, <1>13, <1>14, <1>15 DEF IndInv

\* `run` returns only when no thread holds anything.
LEMMA ReturnStep ==
  ASSUME IndInv, ReturnResults
  PROVE  IndInv'
<1>1. /\ \A s \in Slot : pc[s] \in {"stopped", "failed"}
      /\ main' = "returned"
      /\ UNCHANGED <<group, scheduler, pc, lease, verdict, stranded, results,
                     process>>
  BY DEF ReturnResults
<1>2. TypeOK' /\ Joined' /\ Shape' /\ Drained'
  BY <1>1 DEF IndInv, TypeOK, Joined, Shape, Drained, scheduler, process
<1>3. (QueuedOnce /\ LeasedOnce /\ StrandedOnce /\ ReportedOnce /\ NotLost)'
  BY <1>1 DEF IndInv, QueuedOnce, LeasedOnce, StrandedOnce, ReportedOnce,
              NotLost, scheduler
<1> QED
  BY <1>2, <1>3 DEF IndInv

\* A stuttering step keeps the invariant.
LEMMA StutterStep ==
  ASSUME IndInv, UNCHANGED vars
  PROVE  IndInv'
BY DEF IndInv, vars, TypeOK, Shape, QueuedOnce, LeasedOnce, StrandedOnce,
       ReportedOnce, NotLost, Drained, Joined

(***************************************************************************)
(* The invariant holds throughout every run of the pool, whatever the      *)
(* numbers of cases, workers, groups and faults.                           *)
(***************************************************************************)
THEOREM Invariance == Spec => []IndInv
<1>1. IndInv /\ [Next]_vars => IndInv'
  <2> SUFFICES ASSUME IndInv, [Next]_vars
               PROVE  IndInv'
    OBVIOUS
  <2>1. ASSUME NEW s \in Slot, ServeStep(s) \/ ProcessStep(s)
        PROVE  IndInv'
    <3>1. CASE Quiet(s)
      BY <3>1, QuietStep
    <3>2. CASE TakeFromGroup(s) \/ TakeBest(s)
      BY <3>2, TakeStep
    <3>3. CASE TakeNone(s)
      BY <3>3, TakeNoneStep
    <3>4. CASE Push(s)
      BY <3>4, PushStep
    <3>5. CASE DrainQueue(s)
      BY <3>5, DrainStep
    <3>6. CASE PushStranded(s)
      BY <3>6, PushStrandedStep
    <3> QED
      BY <2>1, <3>1, <3>2, <3>3, <3>4, <3>5, <3>6 DEF ServeStep, Quiet
  <2>2. CASE ReturnResults
    BY <2>2, ReturnStep
  <2>3. CASE Finished \/ UNCHANGED vars
    BY <2>3, StutterStep DEF Finished
  <2> QED
    BY <2>1, <2>2, <2>3 DEF Next
<1> QED
  BY InitIndInv, <1>1, PTL DEF Spec

\* Every variable keeps its type in every reachable state of the pool.
THEOREM TypeCorrect == Spec => []TypeOK
<1>1. IndInv => TypeOK
  BY DEF IndInv
<1> QED
  BY <1>1, Invariance, PTL

(***************************************************************************)
(* No case is lost, run twice or reported twice: the queue, one thread's   *)
(* lease, one thread's drained batch or one result holds it.               *)
(***************************************************************************)
THEOREM EveryCaseHasOneHolder == Spec => []OneHolder
<1>1. IndInv => OneHolder
  <2> SUFFICES ASSUME IndInv, NEW c \in Case
               PROVE  \E h \in Holders(c) : Holders(c) = {h}
    BY DEF OneHolder
  <2>1. CASE c \in pending
    <3>1. Holders(c) = {<<"queue", 0>>}
      BY <2>1 DEF Holders, IndInv, TypeOK, QueuedOnce
    <3> QED
      BY <3>1
  <2>2. CASE \E s \in Slot : lease[s] = c
    <3> PICK s \in Slot : lease[s] = c
      BY <2>2
    <3>1. /\ c \notin pending /\ results[c] = <<>>
          /\ \A t \in Slot : c \notin stranded[t] /\ (lease[t] = c => t = s)
      BY NoCaseIsNone DEF IndInv, QueuedOnce, LeasedOnce
    <3>2. Holders(c) = {<<"lease", s>>}
      BY <3>1 DEF Holders
    <3> QED
      BY <3>2
  <2>3. CASE \E s \in Slot : c \in stranded[s]
    <3> PICK s \in Slot : c \in stranded[s]
      BY <2>3
    <3>1. /\ c \notin pending /\ results[c] = <<>>
          /\ \A t \in Slot : lease[t] # c /\ (c \in stranded[t] => t = s)
      BY NoCaseIsNone DEF IndInv, QueuedOnce, LeasedOnce, StrandedOnce
    <3>2. Holders(c) = {<<"stranded", s>>}
      BY <3>1 DEF Holders
    <3> QED
      BY <3>2
  <2>4. CASE results[c] # <<>>
    <3>1. /\ c \notin pending /\ DOMAIN results[c] = {1}
          /\ \A t \in Slot : lease[t] # c /\ c \notin stranded[t]
      <4>1. results[c] \in Seq(Verdict) /\ Len(results[c]) <= 1
        BY DEF IndInv, TypeOK, ReportedOnce
      <4>2. DOMAIN results[c] = {1}
        BY <2>4, <4>1, ShortSeq
      <4> QED
        BY <2>4, <4>2, NoCaseIsNone DEF IndInv, QueuedOnce, LeasedOnce, StrandedOnce
    <3>2. Holders(c) = {<<"results", 1>>}
      BY <3>1 DEF Holders
    <3> QED
      BY <3>2
  <2> QED
    BY <2>1, <2>2, <2>3, <2>4 DEF IndInv, NotLost
<1> QED
  BY <1>1, Invariance, PTL

(***************************************************************************)
(* When `run` returns, each case it was given has exactly one result.      *)
(***************************************************************************)
THEOREM RunReportsEveryCase == Spec => []ReturnsEveryCase
<1>1. IndInv => ReturnsEveryCase
  <2> SUFFICES ASSUME IndInv, main = "returned", NEW c \in Case
               PROVE  Len(results[c]) = 1
    BY DEF ReturnsEveryCase
  <2>1. 1 \in Slot
    BY PoolAssumption DEF Slot, Count, Pool, Case
  <2>2. \A s \in Slot : lease[s] = NoCase /\ stranded[s] = {}
    BY DEF IndInv, Joined, Shape, Holding
  <2>3. pending = {}
    BY <2>1 DEF IndInv, Joined, Drained, Ending
  <2>4. results[c] # <<>>
    BY <2>2, <2>3, NoCaseIsNone DEF IndInv, NotLost
  <2>5. results[c] \in Seq(Verdict) /\ Len(results[c]) <= 1
    BY DEF IndInv, TypeOK, ReportedOnce
  <2> QED
    BY <2>4, <2>5, ShortSeq
<1> QED
  BY <1>1, Invariance, PTL

(***************************************************************************)
(* A thread that left a group left it dry, and nothing refills a group.    *)
(***************************************************************************)
LeftDry == \A s \in Slot : \A g \in left[s] : PendingIn(g) = {}
ReopenInv == LeftDry /\ NeverReopens

\* A thread that goes to the best group goes to one that has work, and the
\* groups it left have none.
LEMMA TakeBestNeverReopens ==
  ASSUME TypeOK, ReopenInv, NEW s \in Slot, TakeBest(s)
  PROVE  ReopenInv'
<1>1. PICK c \in pending :
        /\ pending' = pending \ {c}
        /\ lastGroup' = [lastGroup EXCEPT ![s] = group[c]]
  BY DEF TakeBest
<1>2. /\ pc' = [pc EXCEPT ![s] = "run"] /\ pc[s] = "next" /\ group' = group
      /\ left' = LeftBehind(s) /\ ~StillHasWork(s)
  BY DEF TakeBest, Goto
<1>3. \A g \in left'[s] : PendingIn(g) = {}
  BY <1>2 DEF TypeOK, LeftBehind, StillHasWork, ReopenInv, LeftDry
<1>4. \A t \in Slot \ {s} : left'[t] = left[t]
  BY <1>2 DEF TypeOK, LeftBehind
<1>5. LeftDry'
  BY <1>1, <1>2, <1>3, <1>4 DEF ReopenInv, LeftDry, PendingIn
<1>6. group[c] \notin left'[s]
  BY <1>3 DEF PendingIn
<1>7. NeverReopens'
  BY <1>1, <1>2, <1>4, <1>6 DEF TypeOK, ReopenInv, NeverReopens
<1> QED
  BY <1>5, <1>7 DEF ReopenInv

\* A thread that finds nothing leaves its group for good.
LEMMA TakeNoneNeverReopens ==
  ASSUME TypeOK, ReopenInv, NEW s \in Slot, TakeNone(s)
  PROVE  ReopenInv'
<1>1. /\ pc' = [pc EXCEPT ![s] = "quit"] /\ group' = group
      /\ pending = {} /\ pending' = {}
      /\ left' = LeftBehind(s) /\ lastGroup' = lastGroup
  BY DEF TakeNone, Goto
<1>2. LeftDry'
  BY <1>1 DEF LeftDry, PendingIn
<1>3. \A t \in Slot \ {s} : left'[t] = left[t]
  BY <1>1 DEF TypeOK, LeftBehind
<1>4. NeverReopens'
  BY <1>1, <1>3 DEF TypeOK, ReopenInv, NeverReopens
<1> QED
  BY <1>2, <1>4 DEF ReopenInv

\* Every other step keeps each thread's groups and adds nothing to the queue.
LEMMA OtherNeverReopens ==
  ASSUME TypeOK, ReopenInv, UNCHANGED <<group, lastGroup, left>>,
         pending' \subseteq pending,
         \A s \in Slot :
           pc'[s] \in {"spawn", "next", "run", "wait", "push"}
             => pc[s] \in {"spawn", "next", "run", "wait", "push"}
  PROVE  ReopenInv'
BY DEF ReopenInv, LeftDry, NeverReopens, PendingIn

\* No other step changes what a thread has left or where it is.
LEMMA StepNeverReopens ==
  ASSUME TypeOK, ReopenInv, [Next]_vars
  PROVE  ReopenInv'
<1> DEFINE Serving == {"spawn", "next", "run", "wait", "push"}
           Keeps == /\ UNCHANGED <<group, lastGroup, left>>
                    /\ pending' \subseteq pending
                    /\ \A t \in Slot : pc'[t] \in Serving => pc[t] \in Serving
<1>1. ASSUME NEW s \in Slot, ServeStep(s) \/ ProcessStep(s)
      PROVE  ReopenInv'
  <2>1. CASE TakeBest(s)
    BY <2>1, TakeBestNeverReopens
  <2>2. CASE TakeNone(s)
    BY <2>2, TakeNoneNeverReopens
  <2>3. CASE Quiet(s)
    <3>1. UNCHANGED <<group, lastGroup, left, pending>>
      BY <2>3 DEF Quiet, ProcessStep, Spawn, SpawnFails, SendRun, SendFails,
           Ended, TimedOut, Disconnected, Malformed, Quit, Reap, WorkerDies,
           WorkerHangs, WorkerExits, AbandonedExits, scheduler, process
    <3>2. \A t \in Slot : pc'[t] \in Serving => pc[t] \in Serving
      BY <2>3 DEF TypeOK, Quiet, ProcessStep, Spawn, SpawnFails, SendRun,
           SendFails, Ended, TimedOut, Disconnected, Malformed, Quit, Reap,
           WorkerDies, WorkerHangs, WorkerExits, AbandonedExits, Goto
    <3> QED
      BY <3>1, <3>2, OtherNeverReopens
  <2>4. CASE TakeFromGroup(s) \/ Push(s) \/ DrainQueue(s) \/ PushStranded(s)
    <3>1. Keeps
      BY <2>4 DEF TypeOK, TakeFromGroup, Push, DrainQueue, PushStranded, Goto,
                  scheduler
    <3> QED
      BY <3>1, OtherNeverReopens
  <2> QED
    BY <1>1, <2>1, <2>2, <2>3, <2>4 DEF ServeStep, Quiet
<1>2. CASE ReturnResults \/ Finished \/ UNCHANGED vars
  <2>1. Keeps
    BY <1>2 DEF ReturnResults, Finished, vars, scheduler
  <2> QED
    BY <2>1, OtherNeverReopens
<1> QED
  BY <1>1, <1>2 DEF Next

(***************************************************************************)
(* Whatever the grouping and the pool, a thread never returns to a group.  *)
(***************************************************************************)
THEOREM NoGroupReopened == Spec => []NeverReopens
<1>1. Init => ReopenInv
  BY DEF Init, ReopenInv, LeftDry, NeverReopens
<1>2. TypeOK /\ ReopenInv /\ [Next]_vars => ReopenInv'
  BY StepNeverReopens
<1>3. ReopenInv => NeverReopens
  BY DEF ReopenInv
<1> QED
  BY <1>1, <1>2, <1>3, TypeCorrect, PTL DEF Spec

(***************************************************************************)
(* The pool implements CaseRun, along the mapping of RunnerPool.           *)
(***************************************************************************)
Outcomes == [c \in Case |-> Outcome(c)]

\* A step that changes no lease, no result and not `main` is invisible.
LEMMA Invisible ==
  ASSUME UNCHANGED <<lease, results, main>>
  PROVE  UNCHANGED Promise!abstractVars
BY DEF Promise!abstractVars, Outcome

\* Taking a case is a Lease of CaseRun.
LEMMA TakeRefines ==
  ASSUME IndInv, NEW s \in Slot, TakeFromGroup(s) \/ TakeBest(s)
  PROVE  Promise!AbstractNext
<1>1. PICK c \in pending :
        /\ pc[s] = "next"
        /\ lease' = [lease EXCEPT ![s] = c]
        /\ UNCHANGED <<main, results>>
  BY DEF TakeFromGroup, TakeBest, Goto, PendingIn
<1>2. c \in Case /\ lease[s] = NoCase /\ lease'[s] = c
      /\ \A t \in Slot \ {s} : lease'[t] = lease[t]
  BY <1>1, NoCaseIsNone DEF IndInv, TypeOK, Shape, Holding
<1>3. Outcome(c) = "queued" /\ Outcome(c)' = "running"
  BY <1>1, <1>2 DEF IndInv, QueuedOnce, Outcome
<1>4. \A d \in Case : d # c => Outcome(d)' = Outcome(d)
  <2> SUFFICES ASSUME NEW d \in Case, d # c
               PROVE  Outcome(d)' = Outcome(d)
    OBVIOUS
  <2>1. (\E t \in Slot : lease'[t] = d) <=> (\E t \in Slot : lease[t] = d)
    BY <1>2, NoCaseIsNone
  <2> QED
    BY <1>1, <2>1 DEF Outcome
<1>5. Outcomes' = [Outcomes EXCEPT ![c] = "running"] /\ Outcomes[c] = "queued"
  BY <1>2, <1>3, <1>4 DEF Outcomes
<1>6. Promise!Lease(c)
  BY <1>1, <1>5 DEF Promise!Lease, Outcomes
<1> QED
  BY <1>2, <1>6 DEF Promise!AbstractNext

\* Pushing a result is a Report of CaseRun.
LEMMA PushRefines ==
  ASSUME IndInv, NEW s \in Slot, Push(s)
  PROVE  Promise!AbstractNext
<1>1. lease[s] \in Case /\ verdict[s] \in Verdict
  BY DEF IndInv, TypeOK, Shape, Holding, Push
<1>2. PICK c \in Case, v \in Verdict :
        /\ lease[s] = c
        /\ results' = [results EXCEPT ![c] = Append(@, v)]
        /\ lease' = [lease EXCEPT ![s] = NoCase]
        /\ main' = main
  BY <1>1 DEF Push
<1>3. results[c] = <<>> /\ \A t \in Slot : lease[t] = c => t = s
  BY <1>2, NoCaseIsNone DEF IndInv, LeasedOnce
<1>4. results'[c] = <<v>> /\ \A d \in Case \ {c} : results'[d] = results[d]
  BY <1>2, <1>3, AppendToEmpty DEF IndInv, TypeOK
<1>5. lease'[s] = NoCase /\ \A t \in Slot \ {s} : lease'[t] = lease[t]
  BY <1>2 DEF IndInv, TypeOK
<1>6. Outcome(c) = "running"
  BY <1>2, <1>3 DEF Outcome
<1>7. Outcome(c)' = v
  <2>1. Len(<<v>>) = 1 /\ <<v>>[1] = v /\ <<v>> # <<>>
    OBVIOUS
  <2> QED
    BY <1>4, <2>1 DEF Outcome
<1>8. \A d \in Case : d # c => Outcome(d)' = Outcome(d)
  <2> SUFFICES ASSUME NEW d \in Case, d # c
               PROVE  Outcome(d)' = Outcome(d)
    OBVIOUS
  <2>1. (\E t \in Slot : lease'[t] = d) <=> (\E t \in Slot : lease[t] = d)
    BY <1>2, <1>5, NoCaseIsNone
  <2> QED
    BY <1>4, <2>1 DEF Outcome
<1>9. Outcomes' = [Outcomes EXCEPT ![c] = v] /\ Outcomes[c] = "running"
  BY <1>6, <1>7, <1>8 DEF Outcomes
<1>10. Promise!Report(c)
  BY <1>2, <1>9 DEF Promise!Report, Outcomes
<1> QED
  BY <1>10 DEF Promise!AbstractNext

\* Reporting the drained cases is a GiveUp of CaseRun.
LEMMA PushStrandedRefines ==
  ASSUME IndInv, NEW s \in Slot, PushStranded(s)
  PROVE  Promise!AbstractNext
<1>1. PICK C \in SUBSET Case :
        /\ C = stranded[s]
        /\ results' = [c \in Case |-> IF c \in C
                                      THEN Append(results[c], "stranded")
                                      ELSE results[c]]
        /\ UNCHANGED <<lease, main>>
  BY DEF IndInv, TypeOK, PushStranded
<1>2. \A c \in C : results[c] = <<>> /\ \A t \in Slot : lease[t] # c
  BY <1>1, NoCaseIsNone DEF IndInv, StrandedOnce, LeasedOnce
<1>3. \A c \in C : Outcome(c) = "queued"
  BY <1>2 DEF Outcome
<1>4. \A c \in C : Outcome(c)' = "stranded"
  <2> SUFFICES ASSUME NEW c \in C PROVE Outcome(c)' = "stranded"
    OBVIOUS
  <2>1. results'[c] = <<"stranded">>
    BY <1>1, <1>2, AppendToEmpty
  <2>2. Len(<<"stranded">>) = 1 /\ <<"stranded">>[1] = "stranded"
        /\ <<"stranded">> # <<>>
    OBVIOUS
  <2> QED
    BY <2>1, <2>2 DEF Outcome
<1>5. \A c \in Case : c \notin C => Outcome(c)' = Outcome(c)
  BY <1>1 DEF Outcome
<1>6. Outcomes' = [c \in Case |-> IF c \in C THEN "stranded" ELSE Outcomes[c]]
  BY <1>4, <1>5 DEF Outcomes
<1>7. Promise!GiveUp(C)
  BY <1>1, <1>3, <1>6 DEF Promise!GiveUp, Outcomes, Verdict
<1> QED
  BY <1>7 DEF Promise!AbstractNext

\* The return of `run` is a Return of CaseRun.
LEMMA ReturnRefines ==
  ASSUME IndInv, ReturnResults
  PROVE  Promise!AbstractNext
<1>1. UNCHANGED <<lease, results>> /\ main' = "returned"
      /\ \A s \in Slot : pc[s] \in {"stopped", "failed"}
  BY DEF ReturnResults
<1>2. \A c \in Case : results[c] # <<>>
  <2> SUFFICES ASSUME NEW c \in Case PROVE results[c] # <<>>
    OBVIOUS
  <2>1. 1 \in Slot
    BY PoolAssumption DEF Slot, Count, Pool, Case
  <2>2. \A s \in Slot : lease[s] = NoCase /\ stranded[s] = {}
    BY <1>1 DEF IndInv, Shape, Holding
  <2>3. pending = {}
    BY <1>1, <2>1 DEF IndInv, Drained, Ending
  <2> QED
    BY <2>2, <2>3, NoCaseIsNone DEF IndInv, NotLost
<1>3. \A c \in Case : Outcome(c) \in Verdict
  <2> SUFFICES ASSUME NEW c \in Case PROVE Outcome(c) \in Verdict
    OBVIOUS
  <2>1. results[c] \in Seq(Verdict) /\ Len(results[c]) <= 1
    BY DEF IndInv, TypeOK, ReportedOnce
  <2>2. Len(results[c]) = 1
    BY <1>2, <2>1, ShortSeq
  <2>3. results[c][1] \in Verdict
    BY <2>1, <2>2
  <2> QED
    BY <1>2, <2>2, <2>3 DEF Outcome
<1>4. Outcomes' = Outcomes
  BY <1>1 DEF Outcomes, Outcome
<1>5. Promise!Return
  BY <1>1, <1>3, <1>4 DEF Promise!Return, Outcomes
<1> QED
  BY <1>5 DEF Promise!AbstractNext

(***************************************************************************)
(* `run` keeps its promise: seen from outside, a case is queued, perhaps   *)
(* run, and then has one result that never changes, and `run` returns only *)
(* once every case has one.                                                *)
(***************************************************************************)
THEOREM PoolKeepsPromise == Spec => KeepsPromise
<1>1. Init => Promise!AbstractInit
  BY NoCaseIsNone DEF Init, Promise!AbstractInit, Outcome
<1>2. IndInv /\ [Next]_vars => [Promise!AbstractNext]_(Promise!abstractVars)
  <2> SUFFICES ASSUME IndInv, [Next]_vars
               PROVE  Promise!AbstractNext \/ UNCHANGED Promise!abstractVars
    OBVIOUS
  <2>1. ASSUME NEW s \in Slot, ServeStep(s) \/ ProcessStep(s)
        PROVE  Promise!AbstractNext \/ UNCHANGED Promise!abstractVars
    <3>1. CASE TakeFromGroup(s) \/ TakeBest(s)
      BY <3>1, TakeRefines
    <3>2. CASE Push(s)
      BY <3>2, PushRefines
    <3>3. CASE PushStranded(s)
      BY <3>3, PushStrandedRefines
    <3>4. CASE Quiet(s)
      <4>1. UNCHANGED <<lease, results, main>>
        BY <3>4 DEF Quiet, ProcessStep, Spawn, SpawnFails, SendRun, SendFails,
             Ended, TimedOut, Disconnected, Malformed, Quit, Reap, WorkerDies,
             WorkerHangs, WorkerExits, AbandonedExits
      <4> QED
        BY <4>1, Invisible
    <3>5. CASE TakeNone(s) \/ DrainQueue(s)
      <4>1. UNCHANGED <<lease, results, main>>
        BY <3>5 DEF TakeNone, DrainQueue
      <4> QED
        BY <4>1, Invisible
    <3> QED
      BY <2>1, <3>1, <3>2, <3>3, <3>4, <3>5 DEF ServeStep, Quiet
  <2>2. CASE ReturnResults
    BY <2>2, ReturnRefines
  <2>3. CASE Finished \/ UNCHANGED vars
    <3>1. UNCHANGED <<lease, results, main>>
      BY <2>3 DEF Finished, vars
    <3> QED
      BY <3>1, Invisible
  <2> QED
    BY <2>1, <2>2, <2>3 DEF Next
<1> QED
  BY <1>1, <1>2, Invariance, PTL DEF Spec, KeepsPromise, Promise!AbstractSpec

(***************************************************************************)
(* Scheduler.workers counts the threads on each group.                     *)
(***************************************************************************)
LEMMA OnGroupFinite ==
  ASSUME NEW g
  PROVE  /\ IsFiniteSet(OnGroup(g)) /\ Cardinality(OnGroup(g)) \in Nat
         /\ IsFiniteSet(OnGroup(g)') /\ Cardinality(OnGroup(g)') \in Nat
<1>1. IsFiniteSet(Slot)
  BY PoolAssumption, FS_Interval DEF Slot, Count, Pool
<1>2. OnGroup(g) \subseteq Slot /\ OnGroup(g)' \subseteq Slot
  BY DEF OnGroup
<1> QED
  BY <1>1, <1>2, FS_Subset, FS_CardinalityType

\* A thread on a group is counted there, so `leave` finds a count to lower.
LEMMA LeaveCounts ==
  ASSUME TypeOK, WorkersExact, NEW s \in Slot, NEW g \in Group,
         pc[s] = "next"
  PROVE  Leave(s)[g] = Cardinality(OnGroup(g) \ {s})
<1>1. Cardinality(OnGroup(g) \ {s}) = IF s \in OnGroup(g)
        THEN Cardinality(OnGroup(g)) - 1 ELSE Cardinality(OnGroup(g))
  BY OnGroupFinite, FS_RemoveElement
<1>2. s \in OnGroup(g) <=> lastGroup[s] = g
  BY DEF OnGroup
<1>3. Cardinality(OnGroup(g) \ {s}) \in Nat
  BY OnGroupFinite, FS_RemoveElement, FS_CardinalityType
<1>4. workers[g] = Cardinality(OnGroup(g)) /\ workers[g] \in Nat
  BY DEF WorkersExact, TypeOK
<1>5. s \in OnGroup(g) => workers[g] > 0
  BY <1>1, <1>3, <1>4
<1> QED
  BY <1>1, <1>2, <1>4, <1>5 DEF Leave

\* Leaving one group and entering another keeps every count exact.
LEMMA TakeBestCounts ==
  ASSUME TypeOK, WorkersExact, NEW s \in Slot, TakeBest(s)
  PROVE  WorkersExact'
<1> SUFFICES ASSUME NEW g \in Group
             PROVE  workers'[g] = Cardinality(OnGroup(g)')
  BY DEF WorkersExact
<1>1. PICK c \in pending :
        /\ workers' = Enter(c, Leave(s))
        /\ lastGroup' = [lastGroup EXCEPT ![s] = group[c]]
  BY DEF TakeBest
<1>2. pc[s] = "next" /\ pc' = [pc EXCEPT ![s] = "run"]
  BY DEF TakeBest, Goto
<1> DEFINE rest == OnGroup(g) \ {s}
<1>3. Leave(s)[g] = Cardinality(rest)
  BY <1>2, LeaveCounts
<1>4. IsFiniteSet(rest) /\ s \notin rest
  BY OnGroupFinite, FS_RemoveElement
<1>5. CASE g = group[c]
  <2>1. OnGroup(g)' = rest \cup {s}
    BY <1>1, <1>2, <1>5 DEF OnGroup, TypeOK
  <2>2. Cardinality(rest \cup {s}) = Cardinality(rest) + 1
    BY <1>4, FS_AddElement
  <2> QED
    BY <1>1, <1>3, <1>5, <2>1, <2>2 DEF Enter
<1>6. CASE g # group[c]
  <2>1. OnGroup(g)' = rest
    BY <1>1, <1>2, <1>6 DEF OnGroup, TypeOK
  <2> QED
    BY <1>1, <1>3, <1>6, <2>1 DEF Enter
<1> QED
  BY <1>5, <1>6

\* Leaving a group for good keeps its count exact.
LEMMA TakeNoneCounts ==
  ASSUME TypeOK, WorkersExact, NEW s \in Slot, TakeNone(s)
  PROVE  WorkersExact'
<1> SUFFICES ASSUME NEW g \in Group
             PROVE  workers'[g] = Cardinality(OnGroup(g)')
  BY DEF WorkersExact
<1>1. /\ pc[s] = "next" /\ pc' = [pc EXCEPT ![s] = "quit"]
      /\ workers' = Leave(s) /\ lastGroup' = lastGroup
  BY DEF TakeNone, Goto
<1>2. OnGroup(g)' = OnGroup(g) \ {s}
  BY <1>1 DEF OnGroup, TypeOK
<1> QED
  BY <1>1, <1>2, LeaveCounts

\* Every other step leaves each thread where it was counted.
LEMMA OtherCounts ==
  ASSUME TypeOK, WorkersExact, UNCHANGED <<workers, lastGroup>>,
         \A s \in Slot : pc'[s] \in {"quit", "reap", "stopped"}
                           <=> pc[s] \in {"quit", "reap", "stopped"}
  PROVE  WorkersExact'
<1> SUFFICES ASSUME NEW g \in Group
             PROVE  workers'[g] = Cardinality(OnGroup(g)')
  BY DEF WorkersExact
<1>1. OnGroup(g)' = OnGroup(g)
  BY DEF OnGroup
<1> QED
  BY <1>1 DEF WorkersExact

\* The counts are exact after every step of the pool.
LEMMA StepCounts ==
  ASSUME TypeOK, WorkersExact, [Next]_vars
  PROVE  WorkersExact'
<1> DEFINE Gone == {"quit", "reap", "stopped"}
           Keeps == /\ UNCHANGED <<workers, lastGroup>>
                    /\ \A t \in Slot : pc'[t] \in Gone <=> pc[t] \in Gone
<1>1. ASSUME NEW s \in Slot, ServeStep(s) \/ ProcessStep(s)
      PROVE  WorkersExact'
  <2>1. CASE TakeBest(s)
    BY <2>1, TakeBestCounts
  <2>2. CASE TakeNone(s)
    BY <2>2, TakeNoneCounts
  <2>3. CASE Quiet(s)
    <3>1. UNCHANGED <<workers, lastGroup>>
      BY <2>3 DEF Quiet, ProcessStep, Spawn, SpawnFails, SendRun, SendFails,
           Ended, TimedOut, Disconnected, Malformed, Quit, Reap, WorkerDies,
           WorkerHangs, WorkerExits, AbandonedExits, scheduler, process
    <3>2. \A t \in Slot : pc'[t] \in Gone <=> pc[t] \in Gone
      BY <2>3 DEF TypeOK, Quiet, ProcessStep, Spawn, SpawnFails, SendRun,
           SendFails, Ended, TimedOut, Disconnected, Malformed, Quit, Reap,
           WorkerDies, WorkerHangs, WorkerExits, AbandonedExits, Goto
    <3> QED
      BY <3>1, <3>2, OtherCounts
  <2>4. CASE TakeFromGroup(s) \/ Push(s) \/ DrainQueue(s) \/ PushStranded(s)
    <3>1. Keeps
      BY <2>4 DEF TypeOK, TakeFromGroup, Push, DrainQueue, PushStranded, Goto,
                  scheduler
    <3> QED
      BY <3>1, OtherCounts
  <2> QED
    BY <1>1, <2>1, <2>2, <2>3, <2>4 DEF ServeStep, Quiet
<1>2. CASE ReturnResults \/ Finished \/ UNCHANGED vars
  <2>1. Keeps
    BY <1>2 DEF ReturnResults, Finished, vars, scheduler
  <2> QED
    BY <2>1, OtherCounts
<1> QED
  BY <1>1, <1>2 DEF Next

(***************************************************************************)
(* The score of a group always divides by the workers really on it: no     *)
(* interleaving of takes, crashes and replacements makes the count drift.  *)
(***************************************************************************)
THEOREM CountsAreExact == Spec => []WorkersExact
<1>1. Init => WorkersExact
  <2> SUFFICES ASSUME Init, NEW g \in Group
               PROVE  workers[g] = Cardinality(OnGroup(g))
    BY DEF WorkersExact
  <2>1. OnGroup(g) = {}
    BY PoolAssumption DEF Init, OnGroup
  <2> QED
    BY <2>1, FS_EmptySet DEF Init
<1>2. TypeOK /\ WorkersExact /\ [Next]_vars => WorkersExact'
  BY StepCounts
<1> QED
  BY <1>1, <1>2, TypeCorrect, PTL DEF Spec

(***************************************************************************)
(* A fault costs one case at most.  OneCasePerFault is not inductive: a    *)
(* worker that has died or hung has cost nothing yet and will cost the     *)
(* case its thread holds or leases next.  Owing is the set of threads with *)
(* such a worker; each has a fault of its own.                             *)
(***************************************************************************)
Owing ==
  {s \in Slot : /\ child[s] \in {"gone", "hung"}
                /\ \/ pc[s] \in {"next", "run", "wait"}
                   \/ pc[s] = "push" /\ verdict[s] # "crashed"}
Solvent == Cardinality(CrashedCases) + Cardinality(Owing) <= faults

\* One element more is one more to count, at most.
LEMMA OneMore ==
  ASSUME NEW A, IsFiniteSet(A), NEW x, NEW B, B \subseteq A \cup {x}
  PROVE  /\ IsFiniteSet(B) /\ Cardinality(B) \in Nat /\ Cardinality(A) \in Nat
         /\ Cardinality(B) <= Cardinality(A) + 1
<1>1. IsFiniteSet(A \cup {x}) /\ Cardinality(A \cup {x}) <= Cardinality(A) + 1
  <2>1. IsFiniteSet(A \cup {x})
        /\ Cardinality(A \cup {x}) = IF x \in A THEN Cardinality(A) ELSE Cardinality(A) + 1
    BY FS_AddElement
  <2> QED
    BY <2>1, FS_CardinalityType
<1>2. IsFiniteSet(B) /\ Cardinality(B) <= Cardinality(A \cup {x})
  BY <1>1, FS_Subset
<1> QED
  BY <1>1, <1>2, FS_CardinalityType

\* One element less is one less to count.
LEMMA OneLess ==
  ASSUME NEW A, IsFiniteSet(A), NEW x \in A, NEW B, B \subseteq A \ {x}
  PROVE  /\ IsFiniteSet(B) /\ Cardinality(B) \in Nat /\ Cardinality(A) \in Nat
         /\ Cardinality(B) <= Cardinality(A) - 1
<1>1. IsFiniteSet(A \ {x}) /\ Cardinality(A \ {x}) = Cardinality(A) - 1
  BY FS_RemoveElement
<1>2. IsFiniteSet(B) /\ Cardinality(B) <= Cardinality(A \ {x})
  BY <1>1, FS_Subset
<1> QED
  BY <1>1, <1>2, FS_CardinalityType

\* No element more is none more to count.
LEMMA NoMore ==
  ASSUME NEW A, IsFiniteSet(A), NEW B, B \subseteq A
  PROVE  /\ IsFiniteSet(B) /\ Cardinality(B) \in Nat /\ Cardinality(A) \in Nat
         /\ Cardinality(B) <= Cardinality(A)
BY FS_Subset, FS_CardinalityType

LEMMA DebtsFinite ==
  ASSUME TypeOK
  PROVE  IsFiniteSet(CrashedCases) /\ IsFiniteSet(Owing)
<1>1. IsFiniteSet(Slot) /\ IsFiniteSet(0..NCases)
  BY PoolAssumption, FS_Interval DEF Slot, Count, Pool
<1>2. CrashedCases \subseteq 0..NCases
  BY PoolAssumption DEF CrashedCases, TypeOK, Case, NoCase
<1>3. Owing \subseteq Slot
  BY DEF Owing
<1> QED
  BY <1>1, <1>2, <1>3, FS_Subset

\* The four ways a step can change the account.
LEMMA KeepsAccount ==
  ASSUME TypeOK, Solvent, CrashedCases' \subseteq CrashedCases, Owing' \subseteq Owing,
         faults' \in Nat, faults <= faults'
  PROVE  Solvent'
<1>1. Cardinality(CrashedCases') <= Cardinality(CrashedCases)
      /\ Cardinality(CrashedCases') \in Nat /\ Cardinality(CrashedCases) \in Nat
  BY DebtsFinite, NoMore
<1>2. Cardinality(Owing') <= Cardinality(Owing)
      /\ Cardinality(Owing') \in Nat /\ Cardinality(Owing) \in Nat
  BY DebtsFinite, NoMore
<1>3. faults \in Nat
  BY PoolAssumption DEF TypeOK
<1> QED
  BY <1>1, <1>2, <1>3 DEF Solvent

LEMMA PaysADebt ==
  ASSUME TypeOK, Solvent, NEW c, NEW s \in Owing,
         CrashedCases' \subseteq CrashedCases \cup {c}, Owing' \subseteq Owing \ {s},
         faults' = faults
  PROVE  Solvent'
<1>1. Cardinality(CrashedCases') <= Cardinality(CrashedCases) + 1
      /\ Cardinality(CrashedCases') \in Nat /\ Cardinality(CrashedCases) \in Nat
  BY DebtsFinite, OneMore
<1>2. Cardinality(Owing') <= Cardinality(Owing) - 1
      /\ Cardinality(Owing') \in Nat /\ Cardinality(Owing) \in Nat
  BY DebtsFinite, OneLess
<1>3. faults \in Nat
  BY PoolAssumption DEF TypeOK
<1> QED
  BY <1>1, <1>2, <1>3 DEF Solvent

LEMMA NewDebt ==
  ASSUME TypeOK, Solvent, NEW s, CrashedCases' \subseteq CrashedCases,
         Owing' \subseteq Owing \cup {s}, faults' = faults + 1
  PROVE  Solvent'
<1>1. Cardinality(CrashedCases') <= Cardinality(CrashedCases)
      /\ Cardinality(CrashedCases') \in Nat /\ Cardinality(CrashedCases) \in Nat
  BY DebtsFinite, NoMore
<1>2. Cardinality(Owing') <= Cardinality(Owing) + 1
      /\ Cardinality(Owing') \in Nat /\ Cardinality(Owing) \in Nat
  BY DebtsFinite, OneMore
<1>3. faults \in Nat
  BY PoolAssumption DEF TypeOK
<1> QED
  BY <1>1, <1>2, <1>3 DEF Solvent

LEMMA PaysAtOnce ==
  ASSUME TypeOK, Solvent, NEW c, CrashedCases' \subseteq CrashedCases \cup {c},
         Owing' \subseteq Owing, faults' = faults + 1
  PROVE  Solvent'
<1>1. Cardinality(CrashedCases') <= Cardinality(CrashedCases) + 1
      /\ Cardinality(CrashedCases') \in Nat /\ Cardinality(CrashedCases) \in Nat
  BY DebtsFinite, OneMore
<1>2. Cardinality(Owing') <= Cardinality(Owing)
      /\ Cardinality(Owing') \in Nat /\ Cardinality(Owing) \in Nat
  BY DebtsFinite, NoMore
<1>3. faults \in Nat
  BY PoolAssumption DEF TypeOK
<1> QED
  BY <1>1, <1>2, <1>3 DEF Solvent

\* A result that is pushed was counted already if it is a crash, and no
\* pushed result is taken back.
LEMMA PushAccount ==
  ASSUME IndInv, NEW s \in Slot, Push(s)
  PROVE  CrashedCases' \subseteq CrashedCases /\ Owing' \subseteq Owing
<1>1. /\ TypeOK /\ pc[s] = "push" /\ lease[s] \in Case /\ verdict[s] \in Verdict
      /\ results[lease[s]] = <<>>
  BY NoCaseIsNone DEF IndInv, TypeOK, Shape, Holding, Push, LeasedOnce
<1>2. /\ \A t \in Slot : pc'[t] = IF t # s THEN pc[t] ELSE IF verdict[s] = "crashed" THEN "spawn" ELSE "next"
      /\ \A t \in Slot : verdict'[t] = IF t # s THEN verdict[t] ELSE NoVerdict
      /\ \A t \in Slot : lease'[t] = IF t # s THEN lease[t] ELSE NoCase
      /\ \A c \in Case : results'[c] = IF c # lease[s] THEN results[c] ELSE <<verdict[s]>>
      /\ child' = child
  BY <1>1, AppendToEmpty DEF Push, TypeOK, process
<1>3. Owing' \subseteq Owing
  BY <1>1, <1>2 DEF Owing
<1>4. ASSUME NEW c \in CrashedCases' PROVE c \in CrashedCases
  <2>1. CASE \E t \in Slot : pc'[t] = "push" /\ verdict'[t] = "crashed" /\ c = lease'[t]
    BY <2>1, <1>2 DEF CrashedCases
  <2>2. CASE c \in Case /\ \E i \in DOMAIN results'[c] : results'[c][i] = "crashed"
    <3>1. CASE c # lease[s]
      BY <3>1, <2>2, <1>2 DEF CrashedCases
    <3>2. CASE c = lease[s]
      <4>1. results'[c] = <<verdict[s]>>
        BY <3>2, <2>2, <1>2
      <4>2. verdict[s] = "crashed"
        BY <4>1, <2>2
      <4> QED
        BY <3>2, <4>2, <1>1 DEF CrashedCases
    <3> QED
      BY <3>1, <3>2
  <2> QED
    BY <1>4, <2>1, <2>2 DEF CrashedCases
<1> QED
  BY <1>3, <1>4

\* A stranded case is not a crashed one.
LEMMA StrandedAccount ==
  ASSUME IndInv, NEW s \in Slot, PushStranded(s)
  PROVE  CrashedCases' \subseteq CrashedCases /\ Owing' \subseteq Owing
<1>1. TypeOK /\ \A c \in stranded[s] : c \in Case /\ results[c] = <<>>
  BY DEF IndInv, StrandedOnce, TypeOK
<1>2. /\ \A t \in Slot : pc'[t] = IF t # s THEN pc[t] ELSE "failed"
      /\ \A c \in Case : results'[c] = IF c \in stranded[s] THEN <<"stranded">> ELSE results[c]
      /\ UNCHANGED <<child, lease, verdict>>
  BY <1>1, AppendToEmpty DEF PushStranded, Goto, TypeOK
<1>3. Owing' \subseteq Owing
  BY <1>1, <1>2 DEF Owing
<1>4. ASSUME NEW c \in CrashedCases' PROVE c \in CrashedCases
  <2>1. CASE \E t \in Slot : pc'[t] = "push" /\ verdict'[t] = "crashed" /\ c = lease'[t]
    BY <2>1, <1>2 DEF CrashedCases
  <2>2. CASE c \in Case /\ \E i \in DOMAIN results'[c] : results'[c][i] = "crashed"
    <3>1. c \notin stranded[s]
      BY <2>2, <1>2
    <3> QED
      BY <3>1, <2>2, <1>2 DEF CrashedCases
  <2> QED
    BY <1>4, <2>1, <2>2 DEF CrashedCases
<1> QED
  BY <1>3, <1>4

\* Every step of the pool keeps the account.
LEMMA StepAccount ==
  ASSUME IndInv, Solvent, [Next]_vars
  PROVE  Solvent'
<1>0. TypeOK /\ faults \in Nat
  BY PoolAssumption DEF IndInv, TypeOK
<1>1. ASSUME NEW s \in Slot, ServeStep(s) \/ ProcessStep(s)
      PROVE  Solvent'
  <2>1. CASE Spawn(s) \/ TakeFromGroup(s) \/ TakeBest(s) \/ TakeNone(s) \/ SendRun(s)
             \/ Ended(s) \/ Quit(s) \/ Reap(s) \/ DrainQueue(s) \/ WorkerExits(s)
             \/ AbandonedExits(s)
    <3>1. /\ UNCHANGED <<faults, results>>
          /\ \A t \in Slot : t # s => /\ pc'[t] = pc[t] /\ child'[t] = child[t]
                                      /\ lease'[t] = lease[t] /\ verdict'[t] = verdict[t]
          /\ \/ pc'[s] # "push"
             \/ verdict'[s] # "crashed"
             \/ pc[s] = pc'[s] /\ verdict'[s] = verdict[s] /\ lease'[s] = lease[s]
          /\ s \in Owing' => s \in Owing
      BY <2>1, <1>0
         DEF Owing, TypeOK, Spawn, TakeFromGroup, TakeBest, TakeNone, SendRun, Ended, Quit, Reap,
             DrainQueue, WorkerExits, AbandonedExits, Goto, scheduler, process, Alive
    <3>2. CrashedCases' \subseteq CrashedCases
      BY <3>1 DEF CrashedCases
    <3>3. Owing' \subseteq Owing
      BY <3>1 DEF Owing
    <3> QED
      BY <1>0, <3>1, <3>2, <3>3, KeepsAccount
  <2>2. CASE Push(s)
    <3>1. faults' = faults
      BY <2>2 DEF Push, process
    <3>2. CrashedCases' \subseteq CrashedCases /\ Owing' \subseteq Owing
      BY <2>2, PushAccount
    <3> QED
      BY <1>0, <3>1, <3>2, KeepsAccount
  <2>3. CASE PushStranded(s)
    <3>1. faults' = faults
      BY <2>3 DEF PushStranded
    <3>2. CrashedCases' \subseteq CrashedCases /\ Owing' \subseteq Owing
      BY <2>3, StrandedAccount
    <3> QED
      BY <1>0, <3>1, <3>2, KeepsAccount
  <2>4. CASE SendFails(s) \/ TimedOut(s) \/ Disconnected(s)
    <3>1. /\ \A t \in Slot : pc'[t] = IF t # s THEN pc[t] ELSE "push"
          /\ \A t \in Slot : verdict'[t] = IF t # s THEN verdict[t] ELSE "crashed"
          /\ \A t \in Slot : t # s => child'[t] = child[t]
          /\ UNCHANGED <<lease, results, faults>>
          /\ s \in Owing
      BY <2>4, <1>0 DEF Owing, TypeOK, SendFails, TimedOut, Disconnected, Goto, scheduler, process
    <3>2. CrashedCases' \subseteq CrashedCases \cup {lease[s]}
      BY <3>1 DEF CrashedCases
    <3>3. Owing' \subseteq Owing \ {s}
      BY <3>1 DEF Owing
    <3> QED
      BY <1>0, <3>1, <3>2, <3>3, PaysADebt
  <2>5. CASE Malformed(s)
    <3>1. /\ \A t \in Slot : pc'[t] = IF t # s THEN pc[t] ELSE "push"
          /\ \A t \in Slot : verdict'[t] = IF t # s THEN verdict[t] ELSE "crashed"
          /\ UNCHANGED <<lease, results, child>> /\ faults' = faults + 1
      BY <2>5, <1>0 DEF TypeOK, Malformed, Goto, Fault, scheduler
    <3>2. CrashedCases' \subseteq CrashedCases \cup {lease[s]}
      BY <3>1 DEF CrashedCases
    <3>3. Owing' \subseteq Owing
      BY <3>1 DEF Owing
    <3> QED
      BY <1>0, <3>1, <3>2, <3>3, PaysAtOnce
  <2>6. CASE SpawnFails(s) \/ WorkerDies(s) \/ WorkerHangs(s)
    <3>1. /\ \A t \in Slot : t # s => pc'[t] = pc[t] /\ child'[t] = child[t]
          /\ pc'[s] = pc[s] \/ pc'[s] = "drain"
          /\ UNCHANGED <<lease, results, verdict>> /\ faults' = faults + 1
      BY <2>6, <1>0 DEF TypeOK, SpawnFails, WorkerDies, WorkerHangs, Goto, Fault, scheduler
    <3>2. CrashedCases' \subseteq CrashedCases
      BY <3>1 DEF CrashedCases
    <3>3. Owing' \subseteq Owing \cup {s}
      BY <3>1 DEF Owing
    <3> QED
      BY <1>0, <3>1, <3>2, <3>3, NewDebt
  <2> QED
    BY <1>1, <2>1, <2>2, <2>3, <2>4, <2>5, <2>6 DEF ServeStep, ProcessStep
<1>2. CASE ReturnResults \/ Finished \/ UNCHANGED vars
  <2>1. UNCHANGED <<pc, lease, verdict, results, child, faults>>
    BY <1>2 DEF ReturnResults, Finished, vars, process
  <2>2. CrashedCases' = CrashedCases /\ Owing' = Owing
    BY <2>1 DEF CrashedCases, Owing
  <2> QED
    BY <1>0, <2>1, <2>2, KeepsAccount
<1> QED
  BY <1>1, <1>2 DEF Next

(***************************************************************************)
(* However deaths, hangs, malformed lines and replacements interleave, the *)
(* run loses at most one case to each of them (`serve`, `run_case`).       *)
(***************************************************************************)
THEOREM FaultsCostOneCase == Spec => []OneCasePerFault
<1>1. Init => Solvent
  <2> SUFFICES ASSUME Init PROVE Solvent
    OBVIOUS
  <2>1. CrashedCases = {} /\ Owing = {}
    BY DEF Init, CrashedCases, Owing
  <2> QED
    BY <2>1, FS_EmptySet DEF Init, Solvent
<1>2. IndInv /\ Solvent /\ [Next]_vars => Solvent'
  BY StepAccount
<1>3. IndInv /\ Solvent => OneCasePerFault
  <2> SUFFICES ASSUME IndInv, Solvent PROVE OneCasePerFault
    OBVIOUS
  <2>1. Cardinality(CrashedCases) \in Nat /\ Cardinality(Owing) \in Nat /\ faults \in Nat
    BY PoolAssumption, DebtsFinite, FS_CardinalityType DEF IndInv, TypeOK
  <2> QED
    BY <2>1 DEF Solvent, OneCasePerFault
<1> QED
  BY <1>1, <1>2, <1>3, Invariance, PTL DEF Spec
============================================================================

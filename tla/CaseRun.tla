------------------------------ MODULE CaseRun ------------------------------
(***************************************************************************)
(* What `Runner::run` promises its caller, with the pool left out:         *)
(* "Runs every case and returns one result per case".  A case waits in the *)
(* queue, is run or given up on, and from then on keeps the one result it  *)
(* was reported with; `run` returns when every case has its result.        *)
(***************************************************************************)
CONSTANTS Case,     \* the cases handed to `run`
          Verdict   \* the results a case can be reported with

VARIABLES outcome,  \* outcome[c]: where case c is, or its result
          returned  \* TRUE once `run` has returned

abstractVars == <<outcome, returned>>

AbstractInit ==
  /\ outcome = [c \in Case |-> "queued"]
  /\ returned = FALSE

\* A worker takes a case off the queue.
Lease(c) ==
  /\ outcome[c] = "queued"
  /\ outcome' = [outcome EXCEPT ![c] = "running"]
  /\ UNCHANGED returned

\* The case's single result is recorded.
Report(c) ==
  /\ outcome[c] = "running"
  /\ \E v \in Verdict : outcome' = [outcome EXCEPT ![c] = v]
  /\ UNCHANGED returned

\* Some of the cases nobody has started are reported without being run.
GiveUp(C) ==
  /\ \A c \in C : outcome[c] = "queued"
  /\ \E v \in Verdict :
       outcome' = [c \in Case |-> IF c \in C THEN v ELSE outcome[c]]
  /\ UNCHANGED returned

Return ==
  /\ \A c \in Case : outcome[c] \in Verdict
  /\ returned' = TRUE
  /\ UNCHANGED outcome

AbstractNext ==
  \/ \E c \in Case : Lease(c) \/ Report(c)
  \/ \E C \in SUBSET Case : GiveUp(C)
  \/ Return

AbstractSpec == AbstractInit /\ [][AbstractNext]_abstractVars
============================================================================

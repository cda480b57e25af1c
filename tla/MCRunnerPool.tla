---------------------------- MODULE MCRunnerPool ----------------------------
(***************************************************************************)
(* Small pools for TLC.  Every assignment of the cases to the groups is an *)
(* initial state, so each run covers every mix of grouped and ungrouped.   *)
(***************************************************************************)
EXTENDS RunnerPool, FiniteSetsExt

(***************************************************************************)
(* What the documentation says of the pool and the code does not do.       *)
(***************************************************************************)
\* "A worker that cannot start is reported against the cases it would have
\* run, rather than aborting the whole run" (Runner::run): a thread that cannot
\* spawn takes no case away from a thread whose worker is up.
StrandsOnlyItsOwn ==
  \A s \in Slot :
    stranded[s] # {} => \A t \in Slot \ {s} : child[t] \notin Alive

\* "Sets how many workers run concurrently" (Runner::workers).
LiveProcesses ==
  MapThenSumSet(LAMBDA s : abandoned[s] + (IF child[s] \in Alive THEN 1 ELSE 0),
                Slot)
ConcurrencyBound == LiveProcesses <= Pool

============================================================================

---------------------------- MODULE MC_EventLoop ----------------------------
(* Model-checking instances of EventLoop: the sets of actors are model      *)
(* values given in each .cfg.                                               *)
EXTENDS EventLoop, TLC

Symmetry == Permutations(Goroutines)

\* Where AwaitPromise is entered: nowhere, by top-level await of a module, by
\* any code but a checkpoint job of the loop, or (a dynamic import() of a module
\* with top-level await, called from a job) by any code at all.
Nowhere == {}
AtTopLevel == {"module"}
NotInLoopJobs == {"module", "job0", "task"}
Anywhere == CodeKinds
=============================================================================

------------------------------- MODULE Loader -------------------------------
(* The module loader: require(), the two caches it keeps (its own and the    *)
(* require.cache that programs may change), the evaluation of a module with  *)
(* the requires nested in it, top-level await, which runs other tasks and    *)
(* jobs on top of the waiting evaluation, and loaders of the program's own   *)
(* (require.extensions).                                                     *)
(*                                                                           *)
(* An exports object is the number of the evaluation that made it, or of the *)
(* entry that the program put into require.cache.                            *)
EXTENDS Naturals, Sequences, SequencesExt, FiniteSets

CONSTANTS Modules,
          Awaiting,   \* ES modules with a top-level await
          Custom,     \* modules whose extension has a loader in require.extensions
          MaxExports, \* bound: evaluations and injected entries
          MaxEdits,   \* bound: changes that the program makes to require.cache
          MaxTasks    \* bound: tasks run by awaits

ASSUME KindsAssumption == Awaiting \subseteq Modules /\ Custom \subseteq Modules \ Awaiting

VARIABLES
  cache,    \* l.cache: exports by module, 0 if there is no entry
  jsCache,  \* require.cache
  made,     \* per exports object: [mod, body], body "run", "wait", "ok", "error" or "injected"
  stack,    \* what is nested at the moment, innermost last: [at, id]
  ret,      \* what the last step's require returned, 0 otherwise
  edits,    \* history: modules whose entry the program changed
  gone,     \* history: exports it removed from require.cache when no evaluation of them was under way
  tasks

vars == <<cache, jsCache, made, stack, ret, edits, gone, tasks>>
userVars == <<edits, gone, tasks>>

Entry(at, i) == [at |-> at, id |-> i]
Push(at, i) == stack' = Append(stack, Entry(at, i))
Pop == stack' = Front(stack)
Switch(at, i) == stack' = Append(Front(stack), Entry(at, i))
Top(at, i) == stack # << >> /\ Last(stack) = Entry(at, i)

Ids == DOMAIN made
OnStack(i) == \E k \in DOMAIN stack : stack[k].id = i /\ stack[k].at # "resume"

(* JavaScript runs, unless an evaluation is in AwaitPromise or DrainMicrotasks *)
InCode == stack # << >> => Last(stack).at # "await"

Init ==
  /\ cache = [m \in Modules |-> 0] /\ jsCache = [m \in Modules |-> 0]
  /\ made = << >> /\ stack = << >> /\ ret = 0
  /\ edits = << >> /\ gone = {} /\ tasks = 0

-----------------------------------------------------------------------------
(* require                                                                  *)

\* Mutant: the loader's own cache is asked first.
HitsOwn(m) == IF cache[m] # 0 THEN cache[m] ELSE jsCache[m]

Hits(m) == jsCache[m]

RequireHit(m) ==
  /\ InCode /\ Hits(m) # 0
  /\ ret' = Hits(m)
  /\ cache' = [cache EXCEPT ![m] = Hits(m)]
  /\ UNCHANGED <<jsCache, made, stack, userVars>>

Misses(m) == InCode /\ Hits(m) = 0 /\ Len(made) < MaxExports
New == Len(made) + 1
Begin(m) == made' = Append(made, [mod |-> m, body |-> "run"])

(* The entry in the loader's own cache is dropped: the program has deleted   *)
(* the other.  The file cannot be read or compiled.                          *)
RequireUnreadable(m) ==
  /\ Misses(m)
  /\ cache' = [cache EXCEPT ![m] = 0] /\ ret' = 0
  /\ UNCHANGED <<jsCache, made, stack, userVars>>

\* Mutant: nothing is cached before the module runs.
EvaluateUncached(m) ==
  /\ Misses(m) /\ m \notin Custom
  /\ Begin(m) /\ Push("eval", New) /\ ret' = 0
  /\ cache' = [cache EXCEPT ![m] = 0]
  /\ UNCHANGED <<jsCache, userVars>>

(* RunPrecompiled: both caches are filled before the module runs *)
Evaluate(m) ==
  /\ Misses(m) /\ m \notin Custom
  /\ Begin(m) /\ Push("eval", New) /\ ret' = 0
  /\ cache' = [cache EXCEPT ![m] = New]
  /\ jsCache' = [jsCache EXCEPT ![m] = New]
  /\ UNCHANGED userVars

(* callExtensionLoader: nothing is cached before the loader returns *)
CallLoader(m) ==
  /\ Misses(m) /\ m \in Custom
  /\ Begin(m) /\ Push("custom", New) /\ ret' = 0
  /\ cache' = [cache EXCEPT ![m] = 0]
  /\ UNCHANGED <<jsCache, userVars>>

Body(i, b) == made' = [made EXCEPT ![i].body = b]

LoaderReturns(i) ==
  /\ Top("custom", i)
  /\ Pop /\ Body(i, "ok") /\ ret' = i
  /\ cache' = [cache EXCEPT ![made[i].mod] = i]
  /\ jsCache' = [jsCache EXCEPT ![made[i].mod] = i]
  /\ UNCHANGED userVars

LoaderThrows(i) ==
  /\ Top("custom", i)
  /\ Pop /\ Body(i, "error") /\ ret' = 0
  /\ UNCHANGED <<cache, jsCache, userVars>>

-----------------------------------------------------------------------------
(* The module's body, called by RunPrecompiled or resumed by a job          *)
Leaves(i) ==
  \/ Top("eval", i) /\ Switch("await", i)
  \/ Top("resume", i) /\ Pop

BodyEnds(i, b) ==
  /\ Leaves(i) /\ Body(i, b) /\ ret' = 0
  /\ UNCHANGED <<cache, jsCache, userVars>>

BodyAwaits(i) ==
  /\ made[i].mod \in Awaiting
  /\ Leaves(i) /\ Body(i, "wait") /\ ret' = 0
  /\ UNCHANGED <<cache, jsCache, userVars>>

Waits(i) == Top("await", i)
SomeWait == stack # << >> /\ Last(stack).at = "await"

(* AwaitPromise runs what is due, the bodies of other modules included *)
BodyResumes(i) ==
  /\ SomeWait /\ made[i].body = "wait"
  /\ Push("resume", i) /\ Body(i, "run") /\ ret' = 0
  /\ UNCHANGED <<cache, jsCache, userVars>>

TaskBegins ==
  /\ SomeWait /\ tasks < MaxTasks
  /\ Push("task", 0) /\ tasks' = tasks + 1 /\ ret' = 0
  /\ UNCHANGED <<cache, jsCache, made, edits, gone>>

TaskEnds ==
  /\ Top("task", 0) /\ Pop /\ ret' = 0
  /\ UNCHANGED <<cache, jsCache, made, userVars>>

\* Mutant: an evaluation returns without waiting for the promise.
SettledOrWaiting(i) == made[i].body \in {"ok", "wait"}

Settled(i) == made[i].body = "ok"

EvaluationReturns(i) ==
  /\ Waits(i) /\ Settled(i)
  /\ Pop /\ ret' = i
  /\ cache' = [cache EXCEPT ![made[i].mod] = i]
  /\ jsCache' = [jsCache EXCEPT ![made[i].mod] = i]
  /\ UNCHANGED <<made, userVars>>

\* Mutant: AwaitPromise does not look for a rejection.
FailedAtOnce(i) == made[i].body = "error" /\ made[i].mod \notin Awaiting

Failed(i) == made[i].body = "error"

(* Only the loader's own entry is removed *)
EvaluationThrows(i) ==
  /\ Waits(i) /\ Failed(i)
  /\ Pop /\ ret' = 0
  /\ cache' = [cache EXCEPT ![made[i].mod] = 0]
  /\ UNCHANGED <<jsCache, made, userVars>>

-----------------------------------------------------------------------------
(* The program changes require.cache                                        *)
Delete(m) ==
  /\ InCode /\ Len(edits) < MaxEdits /\ jsCache[m] # 0
  /\ edits' = Append(edits, m) /\ ret' = 0
  /\ jsCache' = [jsCache EXCEPT ![m] = 0]
  /\ gone' = IF OnStack(jsCache[m]) THEN gone ELSE gone \cup {jsCache[m]}
  /\ UNCHANGED <<cache, made, stack, tasks>>

Inject(m) ==
  /\ InCode /\ Len(edits) < MaxEdits /\ Len(made) < MaxExports
  /\ edits' = Append(edits, m) /\ ret' = 0
  /\ made' = Append(made, [mod |-> m, body |-> "injected"])
  /\ jsCache' = [jsCache EXCEPT ![m] = New]
  /\ gone' = IF jsCache[m] = 0 \/ OnStack(jsCache[m]) THEN gone ELSE gone \cup {jsCache[m]}
  /\ UNCHANGED <<cache, stack, tasks>>

Next ==
  \/ \E m \in Modules :
       \/ RequireHit(m) \/ RequireUnreadable(m) \/ Evaluate(m) \/ CallLoader(m)
       \/ Delete(m) \/ Inject(m)
  \/ \E i \in Ids :
       \/ LoaderReturns(i) \/ LoaderThrows(i) \/ BodyAwaits(i) \/ BodyResumes(i)
       \/ EvaluationReturns(i) \/ EvaluationThrows(i)
       \/ \E b \in {"ok", "error"} : BodyEnds(i, b)
  \/ TaskBegins \/ TaskEnds

Spec == Init /\ [][Next]_vars

(* Bodies, loaders and tasks come to an end; a body awaits finitely often,   *)
(* and what it awaits settles.  Jobs are taken in order, so a body that is   *)
(* due is resumed whichever evaluation is the innermost that waits.          *)
Fairness ==
  /\ WF_vars(TaskEnds)
  /\ \A i \in 1..MaxExports :
       /\ WF_vars(i \in Ids /\ (LoaderReturns(i) \/ LoaderThrows(i)))
       /\ WF_vars(i \in Ids /\ (EvaluationReturns(i) \/ EvaluationThrows(i)))
       /\ SF_vars(i \in Ids /\ \E b \in {"ok", "error"} : BodyEnds(i, b))
       /\ SF_vars(i \in Ids /\ BodyResumes(i))

FairSpec == Spec /\ Fairness
-----------------------------------------------------------------------------
(* Properties                                                               *)

\* "Every module is instantiated once" (docs/requirements-analysis.md:227),
\* cycles, failures and awaits in its evaluation notwithstanding, as long as
\* the program leaves its entry alone.  Loaders of the program's own are not
\* protected from cycles.
EvaluatedOnce ==
  \A i, j \in Ids :
    made[i].mod = made[j].mod /\ made[i].mod \notin Custom => i = j \/ made[i].mod \in Range(edits)

\* What require returns has been evaluated to its end, unless its evaluation
\* is under way below (a cycle, or a task run by its await).
ReturnsFinished ==
  ret # 0 => made[ret].body \in {"ok", "error", "injected"} \/ OnStack(ret)

\* Exports that the program has removed from require.cache are not returned
\* again, although the loader's own cache still holds them (loader.go:386-404).
RemovedStaysGone == ret \notin gone

\* A module whose evaluation failed fails again, or is evaluated again, when
\* it is required again: the two caches "are one" (loader.go:401), so neither
\* keeps the exports of an evaluation that failed.
FailedIsForgotten ==
  \A i \in Ids : made[i].body = "error" /\ ~OnStack(i) => \A m \in Modules : i \notin {cache[m], jsCache[m]}

\* An evaluation ends, although what it awaits may be settled long before the
\* evaluations nested in it have ended.
EvaluationEnds == \A i \in 1..MaxExports : OnStack(i) ~> ~OnStack(i)
=============================================================================

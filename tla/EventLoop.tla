----------------------------- MODULE EventLoop -----------------------------
(***************************************************************************)
(* The event loop of src/internal/engine/interpreter: RunLoop, PostTask,   *)
(* NewTaskHandle, decActive, Stop (eventloop.go), the job-queue checkpoint *)
(* it runs after every task (microtask.go) and AwaitPromise, which drives  *)
(* the same channels from inside JS code (vm_async.go).                    *)
(*                                                                         *)
(* One thread runs JS (the goroutine that calls RunLoop).  Any number of   *)
(* other goroutines post closures to it.  Each goroutine here is one       *)
(* asynchronous operation: JS starts it, it posts one task, and its keep-  *)
(* alive reference, if it has one, is released                             *)
(*   "inside"  the posted task (fs, crypto, IPC: defer release() in the    *)
(*             closure), or                                                *)
(*   "after"   PostTask has returned (timers: e.run(); e.done()).          *)
(***************************************************************************)
EXTENDS Naturals, Sequences, FiniteSets

CONSTANTS
    Goroutines, \* asynchronous operations; each posts at most one task
    SelfPosts,  \* tasks the JS thread posts to itself (port.postMessage, ...)
    Handles,    \* references JS code opens and closes itself (servers, ports)
    Stoppers,   \* callers of Stop on goroutines other than the JS thread
    JS,         \* the JS thread, as the caller of decActive
    Job,        \* what an awaited promise settled by a pending job waits for
    Cap,        \* capacity of taskCh (ALUKA_TASK_QUEUE_SIZE)
    MaxJobs,    \* bound: jobs enqueued in one behaviour
    AwaitIn     \* the kinds of JS code that call AwaitPromise

CodeKinds == {"module", "job0", "task", "job"}

ASSUME CapAssumption == Cap \in Nat \ {0}
ASSUME JobsAssumption == MaxJobs \in Nat
ASSUME AwaitAssumption == AwaitIn \subseteq CodeKinds
ASSUME ActorsAssumption ==
    /\ IsFiniteSet(Goroutines) /\ IsFiniteSet(SelfPosts) /\ IsFiniteSet(Handles)
    /\ Goroutines \cap SelfPosts = {}
    /\ JS \notin Goroutines
    /\ Job \notin Goroutines \cup SelfPosts

Tasks == Goroutines \cup SelfPosts
Callers == Goroutines \cup {JS}

VARIABLES
    taskCh,     \* the buffered channel of posted tasks
    active,     \* count of what keeps the loop alive
    idleTok,    \* idleCh (capacity 1) holds a token
    stopClosed, \* stopCh is closed
    loopDone,   \* the loop accepts nothing more
    post,       \* per task: how far its PostTask, then its execution, has got
    ref,        \* per goroutine: the reference it holds and who releases it
    gor,        \* per goroutine: its control state
    handle,     \* per handle: "new", "open" or "closed"
    stopper,    \* per caller of Stop: its control state
    loop,       \* control state of RunLoop and of the code it runs
    aw,         \* control state of an AwaitPromise nested in that code
    awaitOn,    \* what settles the awaited promise
    jobs,       \* pending nextTick and microtask jobs
    made,       \* jobs enqueued so far
    sig,        \* callers of decActive that still have to send the token
    panicked    \* a second close of stopCh crashed the process

queueVars == <<taskCh, post>>
sharedVars == <<taskCh, active, idleTok, post, ref, gor, handle, sig>>
jsVars == <<loop, aw, awaitOn, jobs, made>>
endVars == <<stopClosed, loopDone, stopper, panicked>>
vars == <<taskCh, active, idleTok, stopClosed, loopDone, post, ref, gor, handle,
          stopper, loop, aw, awaitOn, jobs, made, sig, panicked>>

PostStates == {"new", "send", "drop", "queued", "inLoop", "inAwait", "ended", "lost"}
LoopStates == CodeKinds \cup
    {"drain0", "check0", "select", "taskDone", "drain", "confirm", "stopped",
     "deferCheck", "deferClose", "deferDone", "exited"}
AwaitStates == {"none", "check", "drain", "job", "select", "task", "taskDone"}

TypeOK ==
    /\ taskCh \in Seq(Tasks) /\ Len(taskCh) <= Cap
    /\ active \in Nat
    /\ idleTok \in BOOLEAN /\ stopClosed \in BOOLEAN /\ loopDone \in BOOLEAN
    /\ post \in [Tasks -> PostStates]
    /\ ref \in [Goroutines -> {"none", "inside", "after"}]
    /\ gor \in [Goroutines -> {"new", "ready", "posting", "release", "done"}]
    /\ handle \in [Handles -> {"new", "open", "closed"}]
    /\ stopper \in [Stoppers -> {"idle", "closing", "done"}]
    /\ loop \in LoopStates /\ aw \in AwaitStates
    /\ awaitOn \in Tasks \cup {Job}
    /\ made \in 0..MaxJobs /\ jobs \in 0..made
    /\ sig \subseteq Callers
    /\ panicked \in BOOLEAN

Init ==
    /\ taskCh = <<>> /\ active = 0
    /\ idleTok = FALSE /\ stopClosed = FALSE /\ loopDone = FALSE
    /\ post = [t \in Tasks |-> "new"]
    /\ ref = [g \in Goroutines |-> "none"]
    /\ gor = [g \in Goroutines |-> "new"]
    /\ handle = [h \in Handles |-> "new"]
    /\ stopper = [s \in Stoppers |-> "idle"]
    /\ loop = "module" /\ aw = "none" /\ awaitOn = Job
    /\ jobs = 0 /\ made = 0
    /\ sig = {} /\ panicked = FALSE

-----------------------------------------------------------------------------
(* The count of what is alive.                                              *)

\* Mutant: only the JS thread's decrements send the token.
DecActiveQuiet(p) ==
    /\ active' = active - 1
    /\ sig' = IF active = 1 /\ p = JS THEN sig \cup {p} ELSE sig

\* decActive's locked part; the token is sent after the unlock (Signal).
DecActive(p) ==
    /\ active' = active - 1
    /\ sig' = IF active = 1 THEN sig \cup {p} ELSE sig

\* decActive's non-blocking send to idleCh.
Signal(p) ==
    /\ ~panicked /\ p \in sig
    /\ sig' = sig \ {p}
    /\ idleTok' = TRUE
    /\ UNCHANGED <<taskCh, active, post, ref, gor, handle, jsVars, endVars>>

-----------------------------------------------------------------------------
(* The JS thread.  Its control state is aw inside an AwaitPromise, loop     *)
(* outside; it is in a callee while it sends a token or a task of its own.  *)

JsFree == ~panicked /\ JS \notin sig /\ \A m \in SelfPosts : post[m] \notin {"send", "drop"}

Here == IF aw = "none" THEN loop ELSE aw

At(pc) == JsFree /\ Here = pc

Goto(pc) ==
    /\ IF aw = "none" THEN loop' = pc /\ UNCHANGED aw ELSE aw' = pc /\ UNCHANGED loop
    /\ UNCHANGED awaitOn

Driver == IF aw = "none" THEN "inLoop" ELSE "inAwait"

(* JS code: a module body before RunLoop, a task, or a job of a checkpoint. *)
InCode == JsFree /\ Here \in CodeKinds

\* Start goroutine g, with a reference (NewTaskHandle) or without one.
Spawn(g, kind) ==
    /\ InCode /\ gor[g] = "new"
    /\ gor' = [gor EXCEPT ![g] = "ready"]
    /\ IF kind = "none" \/ loopDone
       THEN UNCHANGED <<ref, active>>
       ELSE ref' = [ref EXCEPT ![g] = kind] /\ active' = active + 1
    /\ UNCHANGED <<queueVars, idleTok, handle, sig, jsVars, endVars>>

OpenHandle(h) ==
    /\ InCode /\ handle[h] = "new" /\ ~loopDone
    /\ handle' = [handle EXCEPT ![h] = "open"]
    /\ active' = active + 1
    /\ UNCHANGED <<queueVars, idleTok, ref, gor, sig, jsVars, endVars>>

CloseHandle(h) ==
    /\ InCode /\ handle[h] = "open"
    /\ handle' = [handle EXCEPT ![h] = "closed"]
    /\ DecActive(JS)
    /\ UNCHANGED <<queueVars, idleTok, ref, gor, jsVars, endVars>>

EnqueueJob ==
    /\ InCode /\ made < MaxJobs
    /\ jobs' = jobs + 1 /\ made' = made + 1
    /\ UNCHANGED <<sharedVars, loop, aw, awaitOn, endVars>>

\* PostTask up to its select: the task is counted before it is in the channel.
BeginPost(t) ==
    IF loopDone
    THEN post' = [post EXCEPT ![t] = "lost"] /\ UNCHANGED active
    ELSE post' = [post EXCEPT ![t] = "send"] /\ active' = active + 1

SelfPost(m) ==
    /\ InCode /\ post[m] = "new"
    /\ BeginPost(m)
    /\ UNCHANGED <<taskCh, idleTok, ref, gor, handle, sig, jsVars, endVars>>

\* A task's closure returns; a reference it owns is released by its defer.
TaskReturn(t) ==
    /\ At("task") /\ post[t] = Driver
    /\ Goto("taskDone")
    /\ IF t \in Goroutines /\ ref[t] = "inside"
       THEN ref' = [ref EXCEPT ![t] = "none"] /\ DecActive(JS)
       ELSE UNCHANGED <<ref, active, sig>>
    /\ UNCHANGED <<queueVars, idleTok, gor, handle, jobs, made, endVars>>

\* The module body or a job returns.
CodeReturn ==
    /\ InCode /\ Here # "task"
    /\ Goto(IF Here = "job" THEN "drain" ELSE "drain0")
    /\ UNCHANGED <<sharedVars, jobs, made, endVars>>

(* RunLoop, and the part of it AwaitPromise repeats.                        *)

\* drainJobQueues runs jobs until none is left, those they enqueue included.
Drain(from, job, to) ==
    /\ At(from)
    /\ IF jobs > 0 THEN jobs' = jobs - 1 /\ Goto(job)
                   ELSE Goto(to) /\ UNCHANGED jobs
    /\ UNCHANGED <<sharedVars, made, endVars>>

\* The ready cases of the two selects; Go picks any of them.
TakeTask ==
    /\ At("select") /\ taskCh # <<>>
    /\ post' = [post EXCEPT ![Head(taskCh)] = Driver]
    /\ taskCh' = Tail(taskCh)
    /\ Goto("task")
    /\ UNCHANGED <<active, idleTok, ref, gor, handle, sig, jobs, made, endVars>>

TakeIdle ==
    /\ At("select") /\ idleTok
    /\ idleTok' = FALSE
    /\ Goto(IF aw = "none" THEN "confirm" ELSE "check")
    /\ UNCHANGED <<queueVars, active, ref, gor, handle, sig, jobs, made, endVars>>

\* Mutant: the select has no case for stopCh.
TakeStopMissing == FALSE /\ UNCHANGED vars

TakeStop ==
    /\ At("select") /\ aw = "none" /\ stopClosed
    /\ Goto("stopped")
    /\ UNCHANGED <<sharedVars, jobs, made, endVars>>

\* Mutant: AwaitPromise does not make the decrement that RunLoop makes.
TaskDoneAwaitLeaks(t) ==
    /\ At("taskDone") /\ post[t] = Driver
    /\ post' = [post EXCEPT ![t] = "ended"]
    /\ IF aw = "none" THEN DecActive(JS) ELSE UNCHANGED <<active, sig>>
    /\ Goto(IF aw = "none" THEN "drain" ELSE "check")
    /\ UNCHANGED <<taskCh, idleTok, ref, gor, handle, jobs, made, endVars>>

\* decActive for the task that has just run.
TaskDone(t) ==
    /\ At("taskDone") /\ post[t] = Driver
    /\ post' = [post EXCEPT ![t] = "ended"]
    /\ DecActive(JS)
    /\ Goto(IF aw = "none" THEN "drain" ELSE "check")
    /\ UNCHANGED <<taskCh, idleTok, ref, gor, handle, jobs, made, endVars>>

\* Mutant: a token is believed without looking at the count again.
LeaveOnToken ==
    /\ At("check0") \/ At("confirm")
    /\ loopDone' = TRUE /\ Goto("deferCheck")
    /\ UNCHANGED <<sharedVars, jobs, made, stopClosed, stopper, panicked>>

\* The loop leaves when the count is zero: at its start, and on a token.
LeaveIfIdle ==
    /\ At("check0") \/ At("confirm")
    /\ IF active = 0 /\ ~loopDone
       THEN loopDone' = TRUE /\ Goto("deferCheck")
       ELSE Goto("select") /\ UNCHANGED loopDone
    /\ UNCHANGED <<sharedVars, jobs, made, stopClosed, stopper, panicked>>

SetLoopDone(from, to) ==
    /\ At(from)
    /\ loopDone' = TRUE
    /\ Goto(to)
    /\ UNCHANGED <<sharedVars, jobs, made, stopClosed, stopper, panicked>>

\* close(stopCh): closing a closed channel panics.
CloseStop ==
    /\ stopClosed' = TRUE
    /\ panicked' = stopClosed

\* RunLoop's deferred "close stopCh unless closed": a test, then a close.
DeferCheck ==
    /\ At("deferCheck")
    /\ Goto(IF stopClosed THEN "deferDone" ELSE "deferClose")
    /\ UNCHANGED <<sharedVars, jobs, made, endVars>>

DeferClose ==
    /\ At("deferClose")
    /\ CloseStop
    /\ Goto("deferDone")
    /\ UNCHANGED <<sharedVars, jobs, made, loopDone, stopper>>

(* AwaitPromise: polls the promise, drains the jobs, polls the channels     *)
(* without blocking; it never looks at stopCh.                              *)

\* The promise is settled by a task not yet run or by a pending job.
AwaitBegin(on) ==
    /\ InCode /\ aw = "none" /\ loop \in AwaitIn
    /\ \/ on = Job /\ jobs > 0
       \/ on \in Goroutines /\ gor[on] # "new" /\ post[on] \in {"new", "send", "queued"}
    /\ aw' = "check" /\ awaitOn' = on
    /\ UNCHANGED <<sharedVars, loop, jobs, made, endVars>>

Settled == IF awaitOn = Job THEN jobs = 0 ELSE post[awaitOn] = "ended"

AwaitCheck ==
    /\ At("check")
    /\ Goto(IF Settled THEN "none" ELSE "drain")
    /\ UNCHANGED <<sharedVars, jobs, made, endVars>>

\* Neither channel is ready: sleep a millisecond and poll again.
AwaitSleep ==
    /\ At("select") /\ aw # "none" /\ taskCh = <<>> /\ ~idleTok
    /\ Goto("check")
    /\ UNCHANGED <<sharedVars, jobs, made, endVars>>

JsThread ==
    \/ \E g \in Goroutines, kind \in {"none", "inside", "after"} : Spawn(g, kind)
    \/ \E h \in Handles : OpenHandle(h) \/ CloseHandle(h)
    \/ EnqueueJob
    \/ \E m \in SelfPosts : SelfPost(m)
    \/ \E t \in Tasks : TaskReturn(t) \/ TaskDone(t)
    \/ CodeReturn
    \/ Drain("drain0", "job0", "check0") \/ Drain("drain", "job", "select")
    \/ TakeTask \/ TakeIdle \/ TakeStop
    \/ LeaveIfIdle
    \/ SetLoopDone("stopped", "deferCheck") \/ SetLoopDone("deferDone", "exited")
    \/ DeferCheck \/ DeferClose
    \/ \E on \in Goroutines \cup {Job} : AwaitBegin(on)
    \/ AwaitCheck \/ AwaitSleep

-----------------------------------------------------------------------------
(* The goroutines, and the callers of Stop.                                 *)

\* The operation completes and calls PostTask; a dropped task costs nothing.
GoPost(g) ==
    /\ ~panicked /\ gor[g] = "ready"
    /\ BeginPost(g)
    /\ gor' = [gor EXCEPT ![g] = IF loopDone THEN "release" ELSE "posting"]
    /\ UNCHANGED <<taskCh, idleTok, ref, handle, sig, jsVars, endVars>>

\* PostTask's blocking select, for a goroutine or for the JS thread itself.
Returned(t) ==
    gor' = IF t \in Goroutines THEN [gor EXCEPT ![t] = "release"] ELSE gor

\* Mutant: an unbounded queue instead of the channel.
SendUnbounded(t) ==
    /\ ~panicked /\ post[t] = "send"
    /\ taskCh' = Append(taskCh, t)
    /\ post' = [post EXCEPT ![t] = "queued"]
    /\ Returned(t)
    /\ UNCHANGED <<idleTok, active, sig, ref, handle, jsVars, endVars>>

Send(t) ==
    /\ ~panicked /\ post[t] = "send" /\ Len(taskCh) < Cap
    /\ taskCh' = Append(taskCh, t)
    /\ post' = [post EXCEPT ![t] = "queued"]
    /\ Returned(t)
    /\ UNCHANGED <<idleTok, active, sig, ref, handle, jsVars, endVars>>

\* Mutant: PostTask blocks in a bare send.
SendNotStopped(t) == FALSE /\ UNCHANGED vars

SendStopped(t) ==
    /\ ~panicked /\ post[t] = "send" /\ stopClosed
    /\ post' = [post EXCEPT ![t] = "drop"]
    /\ UNCHANGED <<taskCh, idleTok, active, sig, ref, gor, handle, jsVars, endVars>>

DropPost(t) ==
    /\ ~panicked /\ post[t] = "drop"
    /\ post' = [post EXCEPT ![t] = "lost"]
    /\ DecActive(IF t \in Goroutines THEN t ELSE JS)
    /\ Returned(t)
    /\ UNCHANGED <<taskCh, idleTok, ref, handle, jsVars, endVars>>

\* PostTask has returned: a reference released by the goroutine goes now.
GoRelease(g) ==
    /\ ~panicked /\ gor[g] = "release" /\ g \notin sig
    /\ gor' = [gor EXCEPT ![g] = "done"]
    /\ IF ref[g] = "after"
       THEN ref' = [ref EXCEPT ![g] = "none"] /\ DecActive(g)
       ELSE UNCHANGED <<ref, active, sig>>
    /\ UNCHANGED <<queueVars, idleTok, handle, jsVars, endVars>>

Goroutine(g) == GoPost(g) \/ GoRelease(g)

Posting(t) == Send(t) \/ SendStopped(t) \/ DropPost(t)

\* Stop: a test of stopCh, then a close, with nothing held in between.
StopCheck(s) ==
    /\ ~panicked /\ stopper[s] = "idle"
    /\ stopper' = [stopper EXCEPT ![s] = IF stopClosed THEN "done" ELSE "closing"]
    /\ UNCHANGED <<sharedVars, jsVars, stopClosed, loopDone, panicked>>

StopClose(s) ==
    /\ ~panicked /\ stopper[s] = "closing"
    /\ stopper' = [stopper EXCEPT ![s] = "done"]
    /\ CloseStop
    /\ UNCHANGED <<sharedVars, jsVars, loopDone>>

Next ==
    \/ JsThread
    \/ \E p \in Callers : Signal(p)
    \/ \E g \in Goroutines : Goroutine(g)
    \/ \E t \in Tasks : Posting(t)
    \/ \E s \in Stoppers : StopCheck(s) \/ StopClose(s)

(***************************************************************************)
(* Fairness: the Go scheduler runs every goroutine that can run, I/O a     *)
(* goroutine waits for completes, and JS code returns (JS code has         *)
(* finitely many things to do here, so fairness of the whole thread makes  *)
(* it return).  Nobody has to call Stop; a Stop that has begun completes.  *)
(***************************************************************************)
Fairness ==
    /\ WF_vars(JsThread)
    /\ \A p \in Callers : WF_vars(Signal(p))
    /\ \A g \in Goroutines : WF_vars(Goroutine(g))
    /\ \A t \in Tasks : WF_vars(Posting(t))
    /\ \A s \in Stoppers : WF_vars(StopClose(s))

Spec == Init /\ [][Next]_vars

FairSpec == Spec /\ Fairness

-----------------------------------------------------------------------------
(* Properties.                                                              *)

RefsHeld == {g \in Goroutines : ref[g] # "none"}
PostsLive == {t \in Tasks : post[t] \in {"send", "drop", "queued", "inLoop", "inAwait"}}
HandlesOpen == {h \in Handles : handle[h] = "open"}

StopCalled == \E s \in Stoppers : stopper[s] # "idle"

\* active counts exactly the references held and the tasks posted but not yet
\* finished, whoever drops, runs or releases them (eventloop.go:11-13).
ActiveExact ==
    active = Cardinality(RefsHeld) + Cardinality(PostsLive) + Cardinality(HandlesOpen)

\* A loop that ends without Stop leaves nothing behind: no reference held, no
\* handle open, no task queued, in a sender's hands or running, and no sender
\* slips one in afterwards (eventloop.go:17, "Add and the exit test exclude
\* each other").
NothingLeftBehind ==
    loopDone /\ ~StopCalled =>
        taskCh = <<>> /\ RefsHeld = {} /\ PostsLive = {} /\ HandlesOpen = {}

\* The channel holds each posted task once, and only posted tasks.
QueuedOnce ==
    /\ \A i, j \in 1..Len(taskCh) : taskCh[i] = taskCh[j] => i = j
    /\ \A t \in Tasks : post[t] = "queued" <=> \E i \in 1..Len(taskCh) : taskCh[i] = t

\* No lost wake-up: when RunLoop is blocked in its select with nothing alive,
\* the token that makes it leave is in idleCh or about to be sent
\* (eventloop.go:14-15).
WakeupPending ==
    aw = "none" /\ loop = "select" /\ active = 0 => idleTok \/ sig # {} \/ loopDone

\* If from some point on nothing is alive, the loop ends.
ExitsWhenIdle == <>[](active = 0) => <>(loop = "exited" \/ panicked)

\* A task PostTask has accepted is run, unless somebody calls Stop, even when
\* the channel was full and the poster had to block: the loop, which closes
\* stopCh as it ends, does not end under it.
AcceptedTaskRuns ==
    \A t \in Tasks : post[t] = "send" ~> (post[t] = "ended" \/ StopCalled)

\* A poster blocked on a full channel is let go once the loop is stopped
\* (eventloop.go:59-63): no goroutine outlives the loop in PostTask.
BlockedPosterFreed ==
    \A t \in Tasks : post[t] = "send" /\ stopClosed ~> post[t] # "send"

\* Once stopCh is closed RunLoop returns.
StopEndsLoop == stopClosed ~> (loop = "exited" \/ panicked)

-----------------------------------------------------------------------------
(* KeepAlive is what EventLoop implements: the channels, the token and the  *)
(* two selects are how.                                                     *)

Alive == ({"ref"} \X RefsHeld) \cup ({"post"} \X PostsLive) \cup ({"handle"} \X HandlesOpen)

Abstract == INSTANCE KeepAlive WITH
    Things <- ({"ref"} \X Goroutines) \cup ({"post"} \X Tasks) \cup ({"handle"} \X Handles),
    alive <- Alive,
    over <- loopDone,
    stop <- StopCalled

\* Each step of the loop begins or ends one thing, stops or ends the loop, or
\* is invisible; a loop that was stopped or has nothing alive does end.
ImplementsKeepAlive == Abstract!FairSpec

\* The same without the promise that the loop does end.
ImplementsKeepAliveSafely == Abstract!Spec
=============================================================================

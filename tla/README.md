# aluka: formal models of the runtime's concurrency

aluka is a JavaScript runtime written in Go: a lexer, parser, bytecode compiler and VM (with a JIT), an event loop, Node-compatible built-in modules, a module loader, an IPC protocol (AIP), a package manager and a bundler.  JavaScript runs on one goroutine; everything asynchronous is a Go goroutine that hands its result to that one through a channel.  The models here are about that boundary: who keeps the process alive, what runs in which order, what a goroutine may still do after the other side has finished, stopped or closed.

All paths below are relative to the repository.  `interpreter/` is `internal/engine/interpreter/`.

## 1. Inventory

| Component | State it keeps | Operations | Interacts with | What is hard | What makes it correct |
|---|---|---|---|---|---|
| Event loop (`interpreter/eventloop.go`, fields in `interpreter.go:57-95`) | `taskCh` (bounded), `active`, `idleCh` (capacity 1), `stopCh`, `loopDone` | `RunLoop`, `PostTask`, `AddRef`/`NewTaskHandle`, `decActive`, `Stop`, `Wait` (unused) | every asynchronous built-in posts to it; it runs the job queues | the count, the token and the exit test are three things updated at different moments by different goroutines; a full channel; `Stop` from outside | it ends exactly when nothing is alive; nothing accepted is lost; `Stop` ends it |
| AwaitPromise (`interpreter/vm_async.go`) | none of its own | polls a promise, drains jobs, polls the loop's channels | called by module loading and the test runner, on any depth | a second consumer of the loop's channels, nested in code the loop runs | its decrements match; the loop still ends |
| Job queues (`interpreter/microtask.go`) | `nextTickQueue`, `microtaskQueue`, `unhandledQueue` | enqueue, `drainJobQueues`, `flushPendingUnhandled` | Promises enqueue; the loop and AwaitPromise drain | jobs enqueue jobs; listeners run while rejections are judged | a checkpoint leaves nothing behind |
| Promises (`interpreter/promise.go`) | state, result, reactions, `hadHandler`, `unhandledReported` | `Resolve`, `Fulfill`, `Reject`, `Then`, the constructor and combinators | job queues | late calls, adoption, handlers attached before and after | each reaction once, in order; settled for good |
| Exceptions (`interpreter/vm_exception.go`, `internal/engine/compiler/compile_stmt.go`) | per frame a stack of handlers, each with phase, exception, completion | `OpTryEnter`, `OpTryExit`, `OpTryExitFinally`, `OpTryExitJmp`, throw, return | compiler and VM must agree on regions | several statements unwound at once, completions replaced on the way, jumps lowered before all regions are known | ECMA-262's completions; the stack follows the position |
| Coroutines (`interpreter/async.go`, `generator.go`, `async_generator.go`, `vm_closure.go`) | saved segment, base, closed upvalues; the VM's value and frame stacks | next, return, throw, await, resume; capture, close, reopen | Promises resume them; closures share their variables | resumed at another depth, under other callers; closures that write meanwhile | each frame keeps its cells; one variable is one variable |
| Async generators (`interpreter/async_generator.go`) | request queue, current request, state | `enqueue`, `pump`, yield, await, complete, fail | Promises; each other | re-entry, requests during answers | one run at a time; answers in order, all of them |
| Timers (`internal/runtime/globals/gtimers/timers.go`) | `timers`, `fireHeap`, `fireWake`, per timer a `timerHandle` | `schedule`, `clear`, `ref`, `unref`; dispatcher and Ticker goroutines | `AddRef`, `PostTask` | clearing, unref'ing and firing race; a sleeping dispatcher; equal deadlines | order, at most once, the loop outlives armed timers |
| AIP (`internal/ipc/{client,server,protocol,transport}.go`) | client: `pending`, `seqCounter`, `closed`; server: `conns`, `methods` | `Call`, `Close`, `readLoop`; `acceptLoop`, `handleConn`, `processRPC`, `Broadcast`, `Close` | JS bridge `galuka/aluka_ipc.go` | responses, timeouts and both sides' closing race; stuck peers | a call gets its own answer or an error, and always returns |
| Worker threads (`internal/builtin/worker_threads.go`) | two loops, `toWorker`, `closed`, `stopFn`, the keep-alive count of parentPort's listeners | `postMessage` both ways, `terminate`, `close`, `on`/`once`/`off`, `postMessageToThread` | two event loops, a forwarder goroutine | terminate during start-up; two closers; messages under way at exit; channels full in a row | messages in order, `exit` last and once; both loops end |
| MessageChannel (`gevent/messagechannel.go`) | two ports, their listeners | `postMessage`, `close`, listeners | `PostTask` | listeners change during delivery | each message to each listener once |
| Module loader (`internal/runtime/module`) | its own cache, `require.cache`, what is being evaluated | require, evaluation, top-level await, loaders in `require.extensions` | AwaitPromise runs other tasks and bodies on top | cycles, failures, two caches, entries changed by the program | one evaluation per module; nothing unfinished is returned |
| Streams (`gstream/streams.go`, `nodestream/stream.go`) | queues, desired size | read, write, pipe, close, error | Promises, events | back-pressure, close and error during a pending read | chunks in order, none lost |
| Events, abort signals | listener lists | on, once, off, emit | everything | lists change while an event is emitted | each listener as often as promised |
| http, fetch, net, fs, crypto, child_process, cluster, sqlite | handles | I/O | `AddRef`, `PostTask` | completion after close | balanced references |
| node:test runner | suites, hooks | run, report | AwaitPromise | nested waits | each test reported once |
| the rest of VM and compiler, parser, lexer, regular expressions, JIT, shapes, GC, monitor | – | sequential | – | semantics | differential tests |
| Package manager, bundler, GUI, CLI | files | sequential, I/O | – | version ranges, graph order | – |

The hazards these behaviours give rise to are listed, each at its line, in `PROJECT.json`; those of components without a model are in section 6.

## 2. Modules

| Module | Models | Runs and proofs |
|---|---|---|
| `KeepAlive` | the abstract promise of the event loop: things keep it alive; it is over once none is left or it was stopped; then nothing begins | refined by `EventLoop` |
| `EventLoop` | `eventloop.go`, the checkpoint as a count of jobs, AwaitPromise, posting goroutines, callers of `Stop` | `MC_EventLoop` with two passing instances; proved about in `EventLoop_proofs` |
| `Timers` | `timers.go` on an event loop reduced to a count, a FIFO and an end | run `Timers`; proved about in `Timers_proofs` |
| `Aip` | one client, one server, one connection of AIP | `MC_Aip` with two passing instances; proved about in `Aip_proofs` |
| `Promises` | `promise.go` and `microtask.go` in detail | run `Promises_all`; proved about in `Promises_proofs` |
| `Completions` | ECMA-262's completions of try statements, without handlers, phases or unwinding | refined by `TryFinally` |
| `TryFinally` | the handler stacks of the VM's frames and the compiler's lowering of jumps | run `TryFinally`; proved about in `TryFinally_proofs` |
| `Coroutine` | the value stack, the frame stack and upvalues under calls, generators, async functions and async generators | run `Coroutine`; proved about in `Threads_proofs` |
| `RequestQueue` | what an async generator promises of its requests | refined by `AsyncGenerator` |
| `AsyncGenerator` | `async_generator.go`: queue, pump, body, awaits | run `AsyncGenerator`; proved about in `AsyncGenerator_proofs` |
| `Worker` | `worker_threads.go`: two threads, the channel and the forwarder between them | run `Worker`; proved about in `Threads_proofs` |
| `Loader` | `requireCtx`, `RunPrecompiled` and the two caches | run `Loader`; proved about in `Loader_proofs` |

How they fit together.  `EventLoop` shows what a loop promises, `KeepAlive` says it; `Timers`, `Worker` (twice) and `Loader` take the loop by that promise.  `Promises` shows that reactions run once and in order; `AsyncGenerator` and `Coroutine` take a reaction job by that.  `AsyncGenerator` has the requests and leaves the frames out, `Coroutine` has the frames and leaves the requests out.

### EventLoop

The JS thread has one control state: `loop` (where `RunLoop`, or the code it runs, is) and `aw` (where a nested `AwaitPromise` is, `"none"` if there is none); `Here` is the inner of the two.  JS code is one of four kinds: the module body before `RunLoop`, a job of the first checkpoint, a task, a job of a later checkpoint.  In JS code (`InCode`) it may start goroutines (`Spawn`), open and close handles of its own, enqueue jobs, post to itself (`SelfPost`), enter AwaitPromise (`AwaitBegin`) and return.

Each goroutine is one asynchronous operation and makes one call of `PostTask`, split where the code gives up atomicity: `BeginPost` is the locked part that counts, `Send`/`SendStopped`/`DropPost` the blocking select after it.  A reference is released inside the task (`defer release()` in fs, crypto, AIP) or after `PostTask` has returned (timers), which is `ref`.  `decActive` is split in the same way: `DecActive` under the lock, `Signal` the send of the token, and the caller can be overtaken in between (`sig`).  `RunLoop`'s exit test is one step because it holds `loopMu`.  Test and close of `stopCh` are two steps, in `Stop` and in the deferred function.

AwaitPromise waits for the task of a goroutine already started or for a pending job; a promise nobody settles would hang by design of the program, not of the loop.

### Timers

`heap`, `due`, `next` and `wake` are the dispatcher's heap, its local batch, the deadline it sleeps to and `fireWake`.  `Schedule` and `Arm` are the two halves of `schedule` around the `wakeFireLoop`, so the dispatcher may run between them.  `Scan` is its locked part; `FireRun` and `FireDone` are `e.run()` and `e.done()`.  An interval is a Ticker (external: it drops a tick nobody took) and a goroutine whose select takes a tick or the stop.  `PostTask` is atomic here: its blocking is `EventLoop`'s subject.

### Aip

A frame carries its opcode, its sequence number and, in place of a payload, the call it belongs to, so that "the answer to my request" can be stated.  Each direction of the connection is a FIFO of `Wire` frames; a writer waits for room, a write over a closed end fails or, if only the peer has closed, may be lost.  `Call`, `Close` and `readLoop` of the client, and `acceptLoop`, `handleConn`, each `processRPC`, `Broadcast` and `Close` of the server are separate actors; `connsMu` is modelled where it is held across a write (`bcast`).  Events delivered to `On` handlers change nothing that is modelled.  A panic in `readLoop` ends the run.

### Promises

JS code is any sequence of creating, resolving, rejecting, `then` (with either, both or no handler: `catch` and `finally` are such calls), `nextTick` and `queueMicrotask`.  Handlers return any promise or plain value, or throw.  Everything runs on one thread, so what interleaves is the order of jobs: `drainJobQueues`'s loops, the unhandled-rejection list taken over and judged one by one, listeners that are JS code again.

### TryFinally

A pc is abstracted to the try statements around it and the part (try, catch, finally block) of each that it is in, which is exactly what the ranges of a `TryEntry` tell apart.  `frames` holds the pc and the `tryStack` of each active call.  The operators have the names of the Go functions: `handleThrow`, `exitTry`, `handleTryExit`, `handleTryExitFinally`, `jumpInsideRegion`; `tryExitJmpJudge` is the compiler's decision whether a break or continue needs `OpTryExitJmp`.  Which statement comes next is the program's choice.  `Completions` keeps only positions and what each finally block will resume; the mapping (`callsBar`) reads them off the handlers.  `ImplementsECMA` is the refinement action by action, and excludes one case by name: `handleThrow` out of a catch block whose statement has a finally block.

### Coroutine

`CoInit`, `CoNext`, `CoSpec` and `coVars` are so named because `Threads_proofs` extends `Worker` too.  `stack` is the VM's value stack, and each cell remembers the body that put it there.  `frames` are `[who, base, ops]`; `body` holds what `saveFrame` keeps, `up` the upvalue of each body's one variable, `said` the value last assigned to it by anyone.  `resume` puts a generator's segment on top of whatever is there; `restoreFrame` of async functions and generators goes back to the saved base, cutting or padding the stack (`Padded`).  If that happens under live frames whose cells it moves, `shifted` is set and the program is followed no further: from there on frames read each other's cells.  `runStep` is enabled whenever the awaited promise may have settled, on an idle stack or under the frames that are in AwaitPromise.

### AsyncGenerator

`requests`, `current`, `state` and `hasState` are the fields; `asked` and `answers` are histories.  `stack` is what is nested on the one thread: `pump()` calls and bodies.  `enqueue` pushes a pump; a yield or an end answers and goes on as a pump, which is Go's tail call.  A body awaits a promise of its own (`outside`) or the answer of a generator with a smaller number (`waiters`; a pipeline of `for await` loops has this shape), and may call `next()`, `return()` and `throw()` of any generator, itself included.  A rejection that the body does not catch ends it (`ResumeFails`).

### Worker

Each loop is a bounded queue of tasks that is over when nothing keeps it alive or it was stopped.  `TerminateTest` and `TerminateClose`, `PortClose` and `PortCloseDone` are test and close of the channel `closed`, which nothing makes atomic.  The forwarder goroutine takes a message (`ForwardTake`, where `PostTask` counts it) and posts it later (`ForwardPost`).  `keep` and `listeners` are two counts, as in the code, where they can differ.  The main thread's own listeners and other references are left out, so that only the worker keeps the process alive.

### Loader

An exports object is the number of the evaluation that made it, or of the entry the program put into `require.cache`.  `stack` nests evaluations, calls of custom loaders, tasks and resumed bodies; an evaluation whose body has returned is in `"await"`, where AwaitPromise resumes other modules' bodies and runs tasks, which may require in turn.  `Delete` and `Inject` are the program's changes to `require.cache`.

## 3. Runs

Every count is of distinct states.  `CHECK_DEADLOCK FALSE` is in every configuration because every modelled system may come to rest: the loop exits, a connection closes, a program has nothing more to do.

| Run | Instance and why it is enough | Shows |
|---|---|---|
| `EventLoop_exit` (67,000) | two goroutines (so one overtakes the other in `decActive` and between count and send), one handle, `Cap = 1` (the channel is full at once), one job, AwaitPromise in module code, first jobs and tasks | `TypeOK`, `ActiveExact`, `NothingLeftBehind`, `WakeupPending`; `ExitsWhenIdle`, `AcceptedTaskRuns` |
| `EventLoop_stop` (104,000) | two goroutines, one self-post, one caller of `Stop`, one job | refinement of `KeepAlive` with its fairness; `StopEndsLoop`, `BlockedPosterFreed` |
| `EventLoop_await_in_job` | one goroutine, AwaitPromise anywhere | **violated**: `ExitsWhenIdle` |
| `Timers` (183,000) | two timers of either kind, delays 0 and 1 (equal and different deadlines), one clock step | `CountExact`, `EndsAfterTimers`, `StartsInOrder`; `ArmedTimerRuns`, `TickerLeavesAfterClear` |
| `Aip_safety` (2.6 million) | two calls under symmetry, sequence numbers modulo 2 (they wrap at the second call), one frame of buffer (writers wait), one broadcast, either side closing | `OwnAnswer`, `ReadLoopNotHeldUp` |
| `Aip_live` (78,000) | one call, two broadcasts that fill the client's side, either side closing | `CallReturns`, `ServerForgetsClient` |
| `Promises_all` (184,000) | four promises, five operations: a `then` chain with an adoption and a late settle fits | `EachReactionOnce`, `CheckpointComplete`, `ReactionRuns`, `SettledForGood` |
| `TryFinally` (24,000) | four try statements and calls in any nesting, two frames, two values (one completion replaces another) | `HandlersMatchPosition`, `ImplementsECMA`, `FinallyBeforeLeaving` |
| `Coroutine` (2.3 million) | one generator, one async generator (which has all an async function has, and yields), calls; three frames, one operand each: a body is resumed under two others and at another depth | `FramesIntact`, `OneVariable` |
| `Worker` (489,000) | channels of one (full at once), three posts (one in each place on the way), two sends, two listeners | `MessagesInOrder`, `MainOutlivesWorker`; `TerminateEnds`, `PosterFreed`, `MessageHandled` |
| `AsyncGenerator` (62,000) | two generators, two requests each (one queued while the other is served), two awaits each (one of its own, one of the other's answer) | `OneBody`, `QueueExact`, refinement of `RequestQueue`; `EveryRequestAnswered` |
| `Loader` (58,000) | three modules, two of them with top-level await, one with a loader of the program's own; three evaluations or injected entries, one change of the cache, one task | `EvaluatedOnce`, `ReturnsFinished`, `RemovedStaysGone`; `EvaluationEnds` |

Every property of a passing run has a mutant: a definition marked `Mutant` beside the one it would replace, a bug such code could have, under which TLC finds the property violated.

### Bounds

`MaxJobs` (jobs enqueued), `MaxId` and `MaxTime` (timers, clock), `SeqMod`, `Wire` and `MaxEvents` (AIP), `MaxPromises` and `MaxOps` (JS operations) are all named constants that appear in guards.  The clock of `Timers` stops at `MaxTime` and no timer is scheduled beyond it, so no deadline lies outside the run.  In `Promises`, `MaxOps` bounds the calls of JS code; returning is never bounded.  `TryFinally`: `MaxDepth`, `MaxCalls`.  `Coroutine`: `MaxOps`, `MaxFrames`, `MaxStack`.  `AsyncGenerator`: `MaxAsked`, `MaxAwaits`.  `Worker`: `MaxPosts`, `MaxSends`, `MaxListeners`, and the capacities, which are parameters of the code.  `Loader`: `MaxExports`, `MaxEdits`, `MaxTasks`.

### Fairness

Weak fairness of each goroutine that can run stands for the Go scheduler; of JS code returning (the code has finitely many operations left); of I/O completing (a started goroutine does post).  Nothing says that anyone calls `Stop`, `Close` or `clear`, that a call times out, or that a select prefers a case.  In AIP, handlers return.  In `Timers`, time passes and `RunLoop` serves its queue, which is what `EventLoop` shows.  In `AsyncGenerator` a body comes to its next yield, await or end, and promises from outside settle; in `Worker` the script returns or throws and tasks end, but nobody has to post or terminate; in `Loader` bodies and tasks end, and a body that is due is resumed (strong fairness: it is due again and again while other evaluations come to wait on top, and the job queue is first in, first out).

## 4. Findings

* `EventLoop_await_in_job`: AwaitPromise drops the idle token (`vm_async.go:63`).  `RunLoop` runs the last task, `decActive` sends the token, a job of the checkpoint awaits a promise, AwaitPromise's select takes the token; `RunLoop` goes back to its select with `active = 0` and no token to come.  `EventLoop_exit` shows that this is the only way: with AwaitPromise kept out of the loop's own jobs the loop always ends.

### Known deviations without a run of their own

The models contain the following behaviours too.  Each formula can be checked with the named configuration (those with a name of their own are defined in the module); each fails.

| Formula | In | Behaviour |
|---|---|---|
| `ClearedNeverStarts` | `Timers` | `entry.stopped` is read only when the entry is popped; a timer cleared after that, or while its callback waits in `taskCh`, still calls back (`timers.go:122-129`, against 380) |
| `CloseNeverPanics` | `Aip_safety` | `readLoop` has looked the channel up, `Close` closes it, `readLoop` sends and panics (`client.go:186-189`, against 111) |
| `ServerCloseDisconnects` | `Aip_safety` | `Accept` returns, `Server.Close` closes and replaces `conns`, the connection is added to the new map and served (`server.go:107-122`, against 88) |
| `AdoptsState` | `Promises_all` | `resolve(q); resolve(1)` fulfills `p` with 1 whatever becomes of `q` (`promise.go:163-177`, against 151-152) |
| `FinallyRuns` | `TryFinally` | an exception thrown in a catch block skips the finally block of the same statement (`vm_exception.go:89-94`, against 137 and `try_finally_semantics_test.go:5-7`) |
| `KeepFollowsListeners` | `Worker` | a `once` listener that has run keeps the worker alive, and `off` of a function that is not registered lets it go (`worker_threads.go:318-335`, against 448-449) |
| `FailedIsForgotten` | `Loader` | after a failed evaluation `require.cache` keeps the exports, so the next `require` returns them, half initialised, instead of failing (`esm.go:97-101`, against `loader.go:401`) |
| `[](\A m \in SelfPosts : post[m] = "send" => Len(taskCh) < Cap \/ stopClosed)` | `EventLoop_stop` | `PostTask` on the JS thread waits on a full channel, which only the JS thread empties; `eventloop.go:43` calls it non-blocking |
| `[][\A t \in Tasks : stopClosed /\ post[t] = "queued" => post'[t] = "queued"]_vars` | `EventLoop_stop` | tasks already posted may start after `Stop`, against `eventloop.go:150` |
| `[]~panicked` | `EventLoop_stop` | `Stop` and the deferred close both find `stopCh` open; the second close panics, against `eventloop.go:85` |
| `[]~crashed` | `Timers` | `setInterval(fn, 0)` reaches `time.NewTicker(0)`, which panics (`timers.go:291`) |
| a one-shot timer that has fired has `~held[i]` | `Timers` | `ref()` after firing takes a reference nothing releases (`timers.go:192-199`, against 207) |
| `Refused` implies that many timers are pending | `Timers`, with `MaxId = 3` | fired timers stay in `s.timers` (`timers.go:263`, against 26) |
| `\A c, d \in Calls : rpc[c] = "handler" /\ rpc[d] = "handler" => c = d` | `Aip_safety` | a JS handler given to `registerMethod` runs on `processRPC`'s goroutine (`aluka_ipc.go:50`, against `eventloop.go:6`) |
| `[]~crashed` | `Worker` | `terminate` and `parentPort.close` both find `closed` open; the second close panics (`worker_threads.go:233-236`, 351-354) |
| a `terminate` ends the worker, also while it loads | `Worker` | before `setStop` there is no function to call, and the worker runs on (`worker_threads.go:46-53`, 409) |
| `[]~shifted` | `Coroutine` | an async function resumed from AwaitPromise under other frames goes back to its own base, and cuts or pads its callers' operands (`async.go:179-184`) |
| `[][\A c \in Generators : body[c].state = "returned" => body'[c].state \in {"returned", "completed"}]_coVars` | `Coroutine` | `return()` of a generator from its own body does not complete it: at its next yield it is suspended without a state, and `next()` begins it again (`generator.go:131-135`, against 130) |
| `OneVariable` for generators too | `Coroutine` | a generator's captured variable stays closed after a yield: body and closures see two copies (`generator.go:196-216`, against `vm_closure.go:66`) |

## 5. Proofs

`EventLoop_proofs` proves, for every set of goroutines, handles and stoppers, every capacity and every bound:

* `TypeCorrect`: `Spec => []TypeOK`
* `ActiveIsExact`: `Spec => []ActiveExact`
* `ExitIsClean`: `Spec => []NothingLeftBehind`
* `QueueConsistent`: `Spec => []QueuedOnce`
* `NoLostWakeup`: `Spec => []WakeupPending`, if no job of the loop awaits a promise (`"job" \notin AwaitIn`); `EventLoop_await_in_job` shows that the assumption is needed.

Assumptions: those the module states about its constants (`CapAssumption`, `JobsAssumption`, `AwaitAssumption`, `ActorsAssumption`: finitely many goroutines, self-posts and handles, with distinct names).  TLC evaluates them in every run.

The argument.  None of the properties is inductive.  `LoopInvariant` establishes their strengthening `IInv`, the conjunction of

* `TypeOK`;
* `QueuedOnce`: the channel holds exactly the tasks in state `queued`, each once (without it, taking the head could start a task that is already running);
* `PhasesAgree`: a goroutine not started holds no reference, and one that has not called `PostTask` has no task under way;
* `ActiveExact`, preserved because each action moves one element into or out of one of the three sets of living things, and `CountPreserved` turns that into plus or minus one;
* `LoopEnding`: past its last exit test the loop is done, the branch that leaves through `stopCh` finds it closed, and only `Stop` or the end of the loop closes it;
* `NothingLeftBehind`, for which a loop done without `Stop` has had count zero at its exit test (`ZeroMeansEmpty`: count zero empties the three sets) and nothing counts afterwards (`NothingNewWhenDone`).

Each has a lemma that every step preserves it (`TypeStep`, `QueueStep`, `PhasesStep`, `StepCounts`, `EndingStep`, `LeftBehindStep`), with a step per action.  `NoLostWakeup` adds `Watched`: from its first `select` on, a loop that would see count zero has the token, or a decrementer that has yet to send it, in front of it; `AwaitPromise` is nested only where `AwaitIn` allows; and the task the loop runs is counted while it runs, so count zero is never reached under it.

`EventLoop_proofs` ends with `LoopKeepsAlive`: `Spec => ImplementsKeepAliveSafely`, that is, `EventLoop` implements `KeepAlive` without its fairness.  The mapping takes `alive` to the set of references held, tasks posted and handles open, `over` to `loopDone`, `stop` to "somebody has called `Stop`".  Lemmas `BeginsOne` and `EndsOne` show that a step that counts begins one thing, and one that discounts ends one; `NothingBegunWhenDone` and `EndingOrNot` cover the rest.  `EventLoop_stop` checks the same refinement with its fairness.

`AsyncGenerator_proofs` proves, for every set of generators (numbers, of which a body awaits smaller ones), every number of requests and awaits:

* `QueueStaysExact`: `Spec => []QueueExact`
* `OneBodyHolds`: `Spec => []OneBody`
* `QueueImplemented`: `Spec => ImplementsRequestQueue`, the refinement of `RequestQueue`
* `InvariantHolds`: `Spec => []IInv`, from which they follow.

Assumptions: `GeneratorsAssumption` and `BoundsAssumption` of the module.  The argument.  `OneBody` is not inductive: it counts places by a set of tagged tuples.  `IInv` has in its stead

* `TypeOK`;
* `Placed`: the body of a generator that serves a request is in exactly one place (on the stack, in one job, in one list of waiters, outside), and that of one that serves none is in none.  It is said by uniqueness of positions, so that each step moves one witness; `Placed` implies `OneBody`;
* `QueueExact`: the queue is the numbers from the one after the current request up to the last one asked (so the head is the next to serve), and a generator with a queue and nothing to do has a pump on the stack, which is why every branch that answers must go on as a pump;
* `StatesAgree`: `current` is set exactly while `state` is `executing`, a completed generator has no frame, and the answers contain an end exactly if the generator is completed.  Without it an answer after the end could come from the body.

The refinement then needs only that each step that answers gives the answer with the next number (`QueueExact`), and after the end the one `RequestQueue` prescribes (`StatesAgree`).

`Promises_proofs` proves, for every number of promises and operations (assumption: `PromiseConstants`):

* `CheckpointIsComplete`: `Spec => []CheckpointComplete`
* `SettlesOnce`: `Spec => SettledForGood`, an action property
* `Inductive`: `Spec => []IInv`.

`CheckpointComplete` speaks of the program between two checkpoints only.  What makes it true on the way is `Tracked`: a rejected promise is handled, reported, in `unhandledQueue`, or in the batch that the flush is judging at the moment (`Then` on a promise in the batch marks it as handled before it is judged); and `Judged`: the flush leaves through `idle` only if no listener ran, and then the queues are as the drain left them, empty.  `Fresh` (a promise is unborn exactly if its number was not given out) keeps a newly created promise from being one that is tracked or settled.  `SettlesOnce` has a step per action: each ends in `Settle` or `Attach`, and `Settle` tests for `pending`.

Its second part builds on this and proves, from the same assumption,

* `ReactionsRunOnce`: `Spec => []EachReactionOnce`.

The property counts sets of places, which no step keeps as they are, so the invariant `Placed` speaks of positions: each derived promise is somewhere (`Somewhere`: in the list of its source, in the job queue, in the history); a list that is not empty belongs to a pending promise (`Held`), jobs and history to settled ones (`Due`, `Done`), so a promise's reactions are all before or all after the move; and within each of the three, and from the history to the queue, the derived promises of one source increase (`HeldInOrder`, `DueInOrder`, `DoneInOrder`, `DoneFirst`), so none is there twice.  Its lemmas follow the moves: `Schedule` (settling moves a list to the end of the queue), `AttachPlaced` (then adds the newest), `Pop` (a job runs).  `OnePlace` turns positions into cardinalities.

`Threads_proofs` is about the two modules in which programs go on beside each other, workers in threads and coroutines on one stack.  Of `Worker` it proves, for every capacity, number of messages and of listeners (assumption: `CapsAssumption`):

* `OrderIsKept`: `Spec => []MessagesInOrder`
* `MainStays`: `Spec => []MainOutlivesWorker`
* `Inductive`: `Spec => []IInv`.

To the worker, `InLine` orders the whole way: messages handled, then the worker's tasks, then the one in the forwarder's hand, then those in the channel, then the one a blocked `postMessage` holds; each transfer moves the least of one place to the end of the place before it.  Back, `Ordered` says that what the main thread has seen or will see is message 1, 2, ... up to the last one posted, then one `exit` or `error` if the worker is gone: without the exact numbers `exit` could be overtaken.  `Referenced` (the reference is held or the worker is gone) gives `MainStays`.

Of `Coroutine` it proves, for every set of generators, async functions and async generators, every set of values and any bounds (assumption: `CoroutineAssumption`, that a call is no coroutine, no generator awaits, there is a value and `MaxOps` is a number):

* `FramesStayIntact`: `CoSpec => []FramesIntact`
* `VariableStaysOne`: `CoSpec => []OneVariable`
* `CoInductive`: `CoSpec => []CoIInv`.

`FramesIntact` says which cells a frame has, `OneVariable` what the closures of a running or suspended body read.  What keeps them so is where the values are:

* `MachineOK`, the types;
* `Alone`: a body runs exactly if it has a frame, and it has one at most, so a body resumed has no frame further down;
* `Saved`: a suspended body's segment holds cells of that body only, one to `MaxOps + 1` of them, so putting it back is a frame of the same body;
* and until `shifted`: `Owned`, each frame ends where the next begins, the last one at the end of the stack, and the cells between are its own; `Kept`, the slot of a body that may await holds what was last said of its variable; `Bound`, an open upvalue belongs to a running body and points at its frame's slot, and of a body that may await the upvalue, once captured, is open exactly while the body runs, and closed it has the value that was last said.  Generators are left out of `Kept` and of the second half of `Bound`: theirs stay closed (section 4).

The lemmas follow the moves of the stack: `FramePushed`, `FramePopped`, `OperandsChanged`, `SlotWritten` say what each does to `Owned` and `Kept`, `SlotsApart` that a write to one frame's slot is none to another's, `Bystander` that a body that neither runs nor is resumed keeps what it has.  `restoreFrame` preserves `Owned` when the saved base is the end of the stack, or no frame is left: then cutting and padding move nobody's cells.  In every other case `shifted` is set, which is the known deviation `[]~shifted` of section 4.

`Aip_proofs` proves, for every set of calls, wire capacity and number of events (assumption: `AipConstants`), under the hypothesis `Few`, no more calls than sequence numbers:

* `AnswersOwnRequest`: `Few => (Spec => []OwnAnswer)`
* `ReadLoopHasRoom`: `Few => (Spec => []ReadLoopNotHeldUp)`
* `Inductive`: `Few => (Spec => []IInv)`.

`Few` is what the 32 bits of the counter buy: with more than 2^32 calls in the life of a client a number is given out twice and the second call takes the first one's place in `pending` (`client.go:73-82`).  The argument follows a number round: `Numbered` (the counter is the number of calls started, until it wraps at the last one; so numbers are distinct), `Wired` (every frame and every `processRPC` carries a call's number with that call), `Matched` (the call registered under a number, looked up under it, and given an answer is the one that number was given to).  For the room in the channel `Once` is needed besides: a call has one request, then one `processRPC`, then one answer, each in one place at a time, so that a second answer never meets a channel that holds the first.

`Loader_proofs` proves, for every set of modules, any of which wait or have a loader of their own, and every bound (assumption: `KindsAssumption`; `MaxEdits` and the other bounds may be anything):

* `ModulesEvaluatedOnce`: `Spec => []EvaluatedOnce`
* `RequireReturnsFinished`: `Spec => []ReturnsFinished`
* `DeletedStaysGone`: `Spec => []RemovedStaysGone`
* `Inductive`: `Spec => []IInv`.

What `require` will return is decided by `require.cache`, what it may return by the stack of evaluations.  `Entered` (every module evaluated so far and left alone has an entry, which names exports of that module, also when its evaluation failed) excludes a second evaluation; `UnderWay` (a body that runs or waits has its evaluation on the stack) makes each entry fit to be returned; `Removed` (what was removed is in no entry and on no evaluation) keeps it away.  `UnderWay` needs `Running`, that a body runs in one place of the stack only: a body resumed by a job would otherwise go on after its evaluation had returned.

`Timers_proofs` proves, for every number of timers, every set of delays and every length of time (assumption: `TimerConstants`):

* `CountIsExact`: `Spec => []CountExact`
* `NoTimerLeftBehind`: `Spec => []EndsAfterTimers`
* `CallbacksInOrder`: `Spec => []StartsInOrder`
* `Inductive`: `Spec => []IInv`.

`CountExact` is preserved by each half of a step alone, because a task is counted when it is posted and the reference is given back after that.  `NoTimerLeftBehind` needs `Tracked`: a one-shot timer that has not run and that nobody cleared is in the queue, or it is with the dispatcher and its reference is held, or the program gave that back by `unref()`.  So a count of zero means there is none.  `CallbacksInOrder` follows a timer's way: `SetInOrder` (deadlines were set in the order of the ids, as long as the clock does not go back), `Line` (callbacks run, then those queued, then the batch the dispatcher took, then the heap: nobody stands behind a timer that was set after it and is due no sooner), `OnTime` (what left the heap was due).  The order in which `Scan` empties the heap is a `CHOOSE` of the increasing enumeration of a set of timers; that there is one (`HeapOrderExists`) is shown by taking a smallest set that has none.  A timer between the two halves of `schedule` has the greatest id (`Given`), so the end of the line is its place.

`TryFinally_proofs` proves, for every set of values, every depth of statements and calls (assumption: `NoneAssumption`, that `None` is no value and no completion):

* `HandlersFollowPosition`: `Spec => []HandlersMatchPosition`
* `NoFinallySkipped`: `Spec => FinallyBeforeLeaving`, an action property
* `InstructionsFollowECMA`: `Spec => ImplementsECMA`, the refinement of `Completions`
* `Inductive`: `Spec => []IInv`.

`IInv` says of each frame that handler `j` stands for statement `j` around the pc (`Matches`): it was entered at the prefix of length `j - 1`, its phase is the part the pc is in, nothing is pending before its finally block, and a jump pending there ends outside of its statement.  Without the last clause a resumed jump could cut the handler stack to a length the position does not have.  Throwing, leaving and resuming cut both sequences to the same length and put one new element there (`Cut`, `Put`), which preserves the clause; how far they cut is the subject of `StaysUpTo`, `ExitDoes`, `ThrowDoes` and `FinallyEndDoes`.  For the refinement `BarCut` and `BarPut` carry the same two moves over to the abstract calls, and `ExitCompletes` and `ThrowCompletes` show that the instructions unwind to the statement that `Completions` names.  The one case the refinement excludes, `DropsFinally`, is the known deviation `FinallyRuns` of section 4.

Every invariant of a passing run, and every action property and refinement in its safety part, is stated by a theorem above.  Only model-checked are the liveness properties (`ExitsWhenIdle`, `AcceptedTaskRuns`, `StopEndsLoop`, `BlockedPosterFreed`, `ArmedTimerRuns`, `TickerLeavesAfterClear`, `CallReturns`, `ServerForgetsClient`, `ReactionRuns`, `TerminateEnds`, `PosterFreed`, `MessageHandled`, `EveryRequestAnswered`, `EvaluationEnds`) and the fairness of `ImplementsKeepAlive`: they rest on `ENABLED`, which the prover does not do.  The remaining limits of the theorems are those of the models: what is left out (section 6), and the deviations of section 4, which the properties exclude by name (`shifted`, `DropsFinally`, the hypothesis `Few`, the condition on `AwaitIn`).

## 6. Not modelled

Of the modelled components: `Wait` (no program calls it), AIP's Ping (no sender), `Emit` and `On` of the AIP client, `captureAsyncContext`, the Promise combinators (built from `then`, with a counter), transfer lists and env data of the workers, the loader's embedded store, hook chains, `data:` URLs and resolution, argument binding and stack growth of calls.  In `Promises` the value a promise settles with is left out; in `Aip`, the encoding of payloads; in `Coroutine`, the values sent and yielded, and try stacks (async bodies save theirs, generators do not: `generator.go:198-203`).

The components marked `not_modelled` in `PROJECT.json` have their reason there: sequential language semantics, which is far beyond a finite instance and has differential tests; thin adapters from Go's I/O to `PostTask`, each an `EventLoop` goroutine; user interface.  Reading them turned up hazards that a test would hardly reach and no model here covers:

* event targets: `dispatchEvent` writes back the table of listeners it read before they ran (`gevent/event.go:142`), so what they add or remove is undone;
* emitters: a `once` listener is removed after it has run, so an `emit` from inside it calls it again, and `off` with the original function does not find the wrapper (`nodeevents/events.go:297-303`);
* message ports: `removeEventListener` compacts the list in place while `deliverMessage` goes over it (`gevent/messagechannel.go:119`), and a message delivered before a listener is there is lost;
* streams: no bound on a readable stream's queue, `enqueue` works after `close`, and `error` answers pending reads with done (`gstream/streams.go:338-380`);
* exceptions: the operand stack is not cut back to the try statement when an exception is caught (`vm_exception.go:97-105`).

## 7. What a next step would be

1. Event targets, emitters and message ports: one module of listener lists that change while an event is delivered, against what the DOM and Node prescribe.
2. Promise combinators, as a counter and a derived promise over `Promises`.
3. Streams: queue, pending reads and writes, close and error in each state.
4. Version ranges of the package manager as operators, against a reference definition over small versions.

Theorems to prove next: action properties that the invariants already imply, such as that a frame below the top keeps its cells in every step of `Coroutine` until it is on top again; that in `Timers` a timer cleared before it leaves the heap never runs; and for `AsyncGenerator` that bodies resume in the order of their awaits.

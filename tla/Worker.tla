------------------------------ MODULE Worker ------------------------------
(* node:worker_threads: a main thread and a worker, each with a VM and an    *)
(* event loop of its own, joined by two channels, the keep-alive count of    *)
(* parentPort's listeners, and terminate().                                  *)
(*                                                                           *)
(* Each loop is taken by what it promises (see KeepAlive and EventLoop): a   *)
(* bounded queue of tasks, and it is over when nothing keeps it alive or it  *)
(* was stopped.  The channel toMain is left out: nobody sends on it.         *)
EXTENDS Naturals, Sequences, SequencesExt

CONSTANTS ToWorkerCap,   \* capacity of toWorker (16 in the code)
          TaskCap,       \* capacity of a loop's task channel
          MaxPosts,      \* bound: messages the main thread posts
          MaxSends,      \* bound: messages the worker posts
          MaxListeners   \* bound: 'message' listeners on parentPort at once

ASSUME CapsAssumption ==
  /\ ToWorkerCap \in Nat \ {0} /\ TaskCap \in Nat \ {0}
  /\ MaxPosts \in Nat /\ MaxSends \in Nat /\ MaxListeners \in Nat

VARIABLES
  main,      \* the main thread: "run", "posting" (blocked in postMessage), "closing", "over"
  mainTasks, \* its task channel: the events that its tasks will emit
  mainRef,   \* the AddRef that newWorkerInstance takes and the worker goroutine releases
  seen,      \* events emitted on the Worker object
  posts, toWorker, closed, stopFn,
  w,         \* the worker thread: "loading", "loop", "task", "sending", "closing", "leaving", "failing", "gone"
  blockedIn, \* what its JavaScript was in when it blocked: "loading" or "task"
  wTasks, wOver, wStop, sends,
  fw,        \* the forwarder goroutine: the message it is posting, none, or Gone
  listeners, \* parentPort's 'message' listeners: [on, once]
  keep,      \* ppKeepAlive: [count, held]
  got,       \* messages that reached a listener of the worker
  crashed    \* a channel was closed twice: the process is gone

mainVars == <<main, mainTasks, mainRef, seen, posts>>
chanVars == <<toWorker, closed, stopFn>>
workerVars == <<w, blockedIn, wTasks, wOver, wStop, sends, fw, listeners, keep, got>>
vars == <<mainVars, chanVars, workerVars, crashed>>

(* Events of the Worker object; an error is followed by exit(1) in its task *)
Message(i) == <<"message", i>>
Error == <<"error">>
Exit == <<"exit">>

Gone == <<0>>        \* a forwarder that has returned: no message has number 0

Main(pc) == main = pc /\ ~crashed
W(pc) == w = pc /\ ~crashed /\ main # "over"      \* the process ends with the main thread
WorkerJS == W("loading") \/ W("task")

(***************************************************************************)
(* Main thread                                                             *)
(***************************************************************************)
TrySendOnly ==                               \* mutant: a plain send, closed is not looked at
  \/ /\ Len(toWorker) < ToWorkerCap
     /\ toWorker' = Append(toWorker, posts') /\ main' = "run"
  \/ /\ Len(toWorker) = ToWorkerCap
     /\ main' = "posting" /\ UNCHANGED toWorker

(* select { toWorker <- msg; <-closed }: either if both are possible *)
TrySend ==
  \/ /\ Len(toWorker) < ToWorkerCap
     /\ toWorker' = Append(toWorker, posts') /\ main' = "run"
  \/ closed /\ main' = "run" /\ UNCHANGED toWorker
  \/ /\ Len(toWorker) = ToWorkerCap /\ ~closed
     /\ main' = "posting" /\ UNCHANGED toWorker

postMessage ==
  /\ Main("run") /\ posts < MaxPosts
  /\ posts' = posts + 1 /\ TrySend
  /\ UNCHANGED <<mainTasks, mainRef, seen, closed, stopFn, workerVars, crashed>>

Unblock ==
  /\ Main("posting") /\ (closed \/ Len(toWorker) < ToWorkerCap)
  /\ posts' = posts /\ TrySend
  /\ UNCHANGED <<mainTasks, mainRef, seen, closed, stopFn, workerVars, crashed>>

(* postMessageToThread: dropped when the channel is full *)
postMessageToThread ==
  /\ Main("run") /\ posts < MaxPosts
  /\ posts' = posts + 1
  /\ toWorker' = IF Len(toWorker) < ToWorkerCap THEN Append(toWorker, posts') ELSE toWorker
  /\ UNCHANGED <<main, mainTasks, mainRef, seen, closed, stopFn, workerVars, crashed>>

(* terminate: closed is tested, and closed in a later step; then the stop    *)
(* function, if the worker has set one by then                               *)
Stop == wStop' = (wStop \/ stopFn)

TerminateTest ==
  /\ Main("run")
  /\ IF closed THEN Stop /\ UNCHANGED main ELSE main' = "closing" /\ UNCHANGED wStop
  /\ UNCHANGED <<mainTasks, mainRef, seen, posts, chanVars, w, blockedIn, wTasks, wOver, sends, fw, listeners, keep, got, crashed>>

TerminateClose ==
  /\ Main("closing")
  /\ main' = "run" /\ closed' = TRUE /\ crashed' = closed /\ Stop
  /\ UNCHANGED <<mainTasks, mainRef, seen, posts, toWorker, stopFn, w, blockedIn, wTasks, wOver, sends, fw, listeners, keep, got>>

MainTask ==
  /\ Main("run") /\ mainTasks # << >>
  /\ seen' = Append(seen, Head(mainTasks)) /\ mainTasks' = Tail(mainTasks)
  /\ UNCHANGED <<main, mainRef, posts, chanVars, workerVars, crashed>>

MainIdle == ~mainRef /\ mainTasks = << >>

MainLoopEnds ==
  /\ Main("run") /\ MainIdle
  /\ main' = "over"
  /\ UNCHANGED <<mainTasks, mainRef, seen, posts, chanVars, workerVars, crashed>>

(***************************************************************************)
(* Forwarder goroutine: toWorker -> PostTask on the worker's loop          *)
(***************************************************************************)
Forwarder == ~crashed /\ main # "over"

(* active was incremented when PostTask found the loop not over *)
ForwardTake ==
  /\ Forwarder /\ fw = << >> /\ toWorker # << >>
  /\ toWorker' = Tail(toWorker)
  /\ fw' = IF wOver THEN << >> ELSE <<Head(toWorker)>>
  /\ UNCHANGED <<mainVars, closed, stopFn, w, blockedIn, wTasks, wOver, wStop, sends, listeners, keep, got, crashed>>

Posting == fw \notin {<< >>, Gone}

ForwardPostOrDrop ==                         \* mutant: a full task channel drops the message
  /\ Forwarder /\ Posting
  /\ fw' = << >>
  /\ wTasks' = IF Len(wTasks) < TaskCap THEN wTasks \o fw ELSE wTasks
  /\ UNCHANGED <<mainVars, chanVars, w, blockedIn, wOver, wStop, sends, listeners, keep, got, crashed>>

ForwardPost ==
  /\ Forwarder /\ Posting
  /\ fw' = << >>
  /\ \/ Len(wTasks) < TaskCap /\ wTasks' = wTasks \o fw
     \/ (wStop \/ wOver) /\ UNCHANGED wTasks
  /\ UNCHANGED <<mainVars, chanVars, w, blockedIn, wOver, wStop, sends, listeners, keep, got, crashed>>

ForwardEnd ==
  /\ Forwarder /\ fw = << >> /\ closed
  /\ fw' = Gone
  /\ UNCHANGED <<mainVars, chanVars, w, blockedIn, wTasks, wOver, wStop, sends, listeners, keep, got, crashed>>

(***************************************************************************)
(* Worker thread: its JavaScript, while it loads and in tasks              *)
(***************************************************************************)
NoChange == UNCHANGED <<mainVars, chanVars, blockedIn, wTasks, wOver, wStop, sends, fw, got, crashed>>

(* parentPort.postMessage: PostTask on the main loop *)
Send ==
  /\ WorkerJS /\ sends < MaxSends
  /\ sends' = sends + 1 /\ w' = "sending" /\ blockedIn' = w
  /\ UNCHANGED <<mainVars, chanVars, wTasks, wOver, wStop, fw, listeners, keep, got, crashed>>

ToMain(x) == Len(mainTasks) < TaskCap /\ mainTasks' = Append(mainTasks, x)

SendDone ==
  /\ W("sending") /\ ToMain(Message(sends))
  /\ w' = blockedIn
  /\ UNCHANGED <<main, mainRef, seen, posts, chanVars, blockedIn, wTasks, wOver, wStop, sends, fw, listeners, keep, got, crashed>>

listenerCount == listeners.on + listeners.once

(* keep.add and keep.remove *)
keepAdd == [count |-> keep.count + 1, held |-> TRUE]
keepRemove == LET n == IF keep.count > 0 THEN keep.count - 1 ELSE 0
              IN  [count |-> n, held |-> keep.held /\ n > 0]

AddListener(kind) ==
  /\ WorkerJS /\ listenerCount < MaxListeners /\ keep.count <= MaxListeners
  /\ listeners' = [listeners EXCEPT ![kind] = @ + 1] /\ keep' = keepAdd
  /\ UNCHANGED w /\ NoChange

(* off(fn): fn may be a function that is not registered; only the last       *)
(* listener's removal touches the count                                      *)
wrapRemove == keep' = IF listenerCount <= 1 THEN keepRemove ELSE keep

RemoveListener ==
  /\ WorkerJS /\ wrapRemove
  /\ \/ \E kind \in {"on", "once"} :
          listeners[kind] > 0 /\ listeners' = [listeners EXCEPT ![kind] = @ - 1]
     \/ UNCHANGED listeners
  /\ UNCHANGED w /\ NoChange

RemoveAllListeners ==
  /\ WorkerJS /\ wrapRemove
  /\ listeners' = [on |-> 0, once |-> 0]
  /\ UNCHANGED w /\ NoChange

(* parentPort.close(): one decrement, then the same test and close *)
PortClose ==
  /\ WorkerJS
  /\ keep' = keepRemove
  /\ IF closed THEN UNCHANGED <<w, blockedIn>> ELSE w' = "closing" /\ blockedIn' = w
  /\ UNCHANGED <<mainVars, chanVars, wTasks, wOver, wStop, sends, fw, listeners, got, crashed>>

PortCloseDone ==
  /\ W("closing")
  /\ w' = blockedIn /\ closed' = TRUE /\ crashed' = closed
  /\ UNCHANGED <<mainVars, toWorker, stopFn, blockedIn, wTasks, wOver, wStop, sends, fw, listeners, keep, got>>

(***************************************************************************)
(* Worker goroutine                                                        *)
(***************************************************************************)
(* The module ran: setStop, then RunLoop *)
Loaded ==
  /\ W("loading")
  /\ w' = "loop" /\ stopFn' = TRUE
  /\ UNCHANGED <<mainVars, toWorker, closed, blockedIn, wTasks, wOver, wStop, sends, fw, listeners, keep, got, crashed>>

LoadFails ==
  /\ W("loading")
  /\ w' = "failing"
  /\ UNCHANGED <<mainVars, chanVars, blockedIn, wTasks, wOver, wStop, sends, fw, listeners, keep, got, crashed>>

(* A task of the worker's loop: EmitEvent(pp, "message") *)
WorkerTask ==
  /\ W("loop") /\ wTasks # << >> /\ ~wOver
  /\ w' = "task" /\ wTasks' = Tail(wTasks)
  /\ got' = IF listenerCount > 0 THEN Append(got, Head(wTasks)) ELSE got
  /\ listeners' = [listeners EXCEPT !.once = 0]
  /\ UNCHANGED <<mainVars, chanVars, blockedIn, wOver, wStop, sends, fw, keep, crashed>>

TaskEnds ==
  /\ W("task") /\ w' = "loop"
  /\ UNCHANGED <<mainVars, chanVars, blockedIn, wTasks, wOver, wStop, sends, fw, listeners, keep, got, crashed>>

WorkerIdle == ~keep.held /\ wTasks = << >> /\ ~Posting

(* RunLoop returns: nothing keeps the loop alive, or it was stopped *)
StopsForIdle == WorkerIdle                   \* mutant: RunLoop does not look at stopCh
StopsFor == WorkerIdle \/ wStop              \* what RunLoop returns for

LoopEnds ==
  /\ W("loop") /\ StopsFor
  /\ w' = "leaving" /\ wOver' = TRUE
  /\ UNCHANGED <<mainVars, chanVars, blockedIn, wTasks, wStop, sends, fw, listeners, keep, got, crashed>>

PostExit ==
  /\ W("leaving") /\ ToMain(Exit)
  /\ w' = "gone"
  /\ UNCHANGED <<main, mainRef, seen, posts, chanVars, blockedIn, wTasks, wOver, wStop, sends, fw, listeners, keep, got, crashed>>

PostErrorNoReturn ==                         \* mutant: the goroutine goes on to the exit event
  /\ W("failing") /\ ToMain(Error)
  /\ w' = "leaving"
  /\ UNCHANGED <<main, mainRef, seen, posts, chanVars, blockedIn, wTasks, wOver, wStop, sends, fw, listeners, keep, got, crashed>>

PostError ==                                 \* one task emits error, then exit(1)
  /\ W("failing") /\ ToMain(Error)
  /\ w' = "gone"
  /\ UNCHANGED <<main, mainRef, seen, posts, chanVars, blockedIn, wTasks, wOver, wStop, sends, fw, listeners, keep, got, crashed>>

ReleaseEarly ==                              \* mutant: released when the loop ends, before the exit task
  /\ W("leaving") /\ mainRef
  /\ mainRef' = FALSE
  /\ UNCHANGED <<main, mainTasks, seen, posts, chanVars, workerVars, crashed>>

Release ==                                   \* defer release()
  /\ W("gone") /\ mainRef
  /\ mainRef' = FALSE
  /\ UNCHANGED <<main, mainTasks, seen, posts, chanVars, workerVars, crashed>>

Ended == (main = "over" \/ crashed) /\ UNCHANGED vars

Init ==
  /\ main = "run" /\ mainTasks = << >> /\ mainRef = TRUE /\ seen = << >> /\ posts = 0
  /\ toWorker = << >> /\ closed = FALSE /\ stopFn = FALSE
  /\ w = "loading" /\ blockedIn = "loading" /\ wTasks = << >> /\ wOver = FALSE /\ wStop = FALSE
  /\ sends = 0 /\ fw = << >> /\ listeners = [on |-> 0, once |-> 0]
  /\ keep = [count |-> 0, held |-> FALSE] /\ got = << >> /\ crashed = FALSE

Next ==
  \/ postMessage \/ Unblock \/ postMessageToThread \/ TerminateTest \/ TerminateClose
  \/ MainTask \/ MainLoopEnds
  \/ ForwardTake \/ ForwardPost \/ ForwardEnd
  \/ Send \/ SendDone \/ RemoveListener \/ RemoveAllListeners \/ PortClose \/ PortCloseDone
  \/ \E kind \in {"on", "once"} : AddListener(kind)
  \/ Loaded \/ LoadFails \/ WorkerTask \/ TaskEnds \/ LoopEnds \/ PostExit \/ PostError \/ Release
  \/ Ended

Spec == Init /\ [][Next]_vars

(* Threads are scheduled; the worker's script does end, one way or the other *)
Fairness ==
  /\ WF_vars(MainTask) /\ WF_vars(Unblock) /\ WF_vars(TerminateClose)
  /\ WF_vars(SendDone) /\ WF_vars(PortCloseDone) /\ WF_vars(TaskEnds) /\ WF_vars(Loaded \/ LoadFails)
  /\ WF_vars(ForwardTake) /\ WF_vars(ForwardPost) /\ WF_vars(WorkerTask) /\ WF_vars(LoopEnds) /\ WF_vars(PostExit) /\ WF_vars(PostError) /\ WF_vars(Release)

FairSpec == Spec /\ Fairness
-----------------------------------------------------------------------------
(***************************************************************************)
(* Properties                                                              *)
(***************************************************************************)
Events == {Message(i) : i \in 1..MaxSends} \cup {Error, Exit}

TypeOK ==
  /\ main \in {"run", "posting", "closing", "over"}
  /\ w \in {"loading", "loop", "task", "sending", "closing", "leaving", "failing", "gone"}
  /\ Len(mainTasks) <= TaskCap /\ \A i \in DOMAIN mainTasks : mainTasks[i] \in Events
  /\ Len(toWorker) <= ToWorkerCap /\ Len(wTasks) <= TaskCap
  /\ keep.held <=> keep.count > 0

(* What the Worker object has emitted, or will emit from the tasks posted *)
Delivered == seen \o mainTasks

(* "A message is certain to arrive before the exit event": the events are    *)
(* the messages in the order they were posted, all of them, and then one     *)
(* exit or error, with which the worker's thread is done.                    *)
EventsInOrder ==
  LET n == Len(Delivered)
      over == n > 0 /\ Last(Delivered) \in {Error, Exit}
      messages == IF over THEN n - 1 ELSE n
      inFlight == IF w = "sending" THEN 1 ELSE 0
  IN  /\ \A i \in 1..messages : Delivered[i] = Message(i)
      /\ messages = sends - inFlight
      /\ over <=> w = "gone"

(* What the main thread posts reaches the worker's listeners in its order,   *)
(* each message at most once                                                 *)
PostsInOrder == \A i, j \in DOMAIN got : i < j => got[i] < got[j]

(* Both directions of the channel between the threads keep their order       *)
MessagesInOrder == TypeOK /\ EventsInOrder /\ PostsInOrder

(* The process does not end before the worker's exit event has been emitted: *)
(* the reference is given back only after the exit task was posted.          *)
MainOutlivesWorker == main = "over" => w = "gone" /\ mainTasks = << >> /\ Last(seen) \in {Error, Exit}

(* parentPort's listeners alone decide whether the port keeps the worker     *)
(* alive ("with listeners the worker stays alive, without it may exit",      *)
(* worker_threads.go:446).  The count misses removals and once listeners.    *)
KeepFollowsListeners == (w = "loop" /\ wTasks = << >> /\ ~closed) => (keep.held <=> listenerCount > 0)

(* Once terminate has found the stop function, the worker ends and its exit  *)
(* event is emitted, whatever its script is doing and however full the       *)
(* channels are, unless the two closers of the channel collide               *)
TerminateEnds == wStop ~> (crashed \/ \E i \in DOMAIN seen : seen[i] = Exit)

(* A message on its way is handled: the chain of channel, forwarder and task *)
(* queue loses none while a counted listener holds the worker, unless the    *)
(* port is closed or the module fails to load                                *)
OnItsWay(m) == \E q \in {toWorker, fw, wTasks} : \E i \in DOMAIN q : q[i] = m
MessageHandled ==
  \A m \in 1..MaxPosts :
    (OnItsWay(m) /\ keep.held)
      ~> ((\E i \in DOMAIN got : got[i] = m) \/ ~keep.held \/ listeners.on = 0 \/ closed \/ w \in {"failing", "gone"} \/ crashed)

(* The main thread does not stay in postMessage for good once the worker has *)
(* been told to stop or the port was closed                                  *)
PosterFreed == (main = "posting" /\ closed) ~> (main # "posting" \/ crashed)
=============================================================================

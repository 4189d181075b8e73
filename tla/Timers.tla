------------------------------- MODULE Timers -------------------------------
(***************************************************************************)
(* setTimeout, setInterval, clear* and Timeout.ref/unref of                *)
(* src/internal/runtime/globals/gtimers/timers.go: JS code schedules and   *)
(* clears on the JS thread; one goroutine dispatches all one-shot timers   *)
(* from a heap (startFireLoop); each interval has a Ticker goroutine.      *)
(*                                                                         *)
(* The event loop appears as what EventLoop shows of it: a count of what   *)
(* keeps it alive, a FIFO of posted callbacks, and an end once the count   *)
(* is zero.  PostTask is one step here; a full channel is EventLoop's.     *)
(***************************************************************************)
EXTENDS Integers, Sequences, FiniteSets

CONSTANTS
    Delays,    \* delays, in ticks, that JS code asks for
    MaxId,     \* bound: timers scheduled in one behaviour
    MaxTime,   \* bound: last value of the clock
    MaxTimers, \* TimerConfig.MaxTimers, 0 for no limit
    Kinds      \* "once" (setTimeout, setImmediate) and/or "interval"

ASSUME TimerConstants ==
    /\ Delays \subseteq Nat /\ MaxId \in Nat /\ MaxTime \in Nat /\ MaxTimers \in Nat
    /\ Kinds \subseteq {"once", "interval"}

Ids == 1..MaxId   \* handed out in order, so an id is also fireSeq's order

VARIABLES
    now,      \* the clock
    nextID,   \* the next timer id
    kind,     \* per timer: "none" before it is scheduled
    delay,    \* per timer: the delay asked for
    deadline, \* per timer: when it is due (interval: when its Ticker ticks next)
    stopped,  \* per timer: entry.stopped, or the stopped channel of an interval
    held,     \* per timer: its handle holds a reference (release # nil)
    timers,   \* the ids in s.timers
    heap,     \* the ids in s.fireHeap
    arming,   \* the id schedule is about to push, 0 if none
    wake,     \* fireWake holds a token
    fire,     \* control state of the dispatcher
    due,      \* its batch: popped entries not yet posted and released
    next,     \* the deadline it sleeps to, -1 for none and while it is awake
    tick,     \* per interval: its Ticker's channel holds a tick
    ticker,   \* per interval: "on" while its goroutine runs
    active,   \* the event loop's count of what keeps it alive
    queue,    \* callbacks posted to the JS thread, by id
    js,       \* "module", "idle", or "callback"
    running,  \* the id whose callback runs, 0 if none
    ran,      \* history: one-shot ids in the order their callbacks started
    cleared,  \* history: ids a clear call found in s.timers
    unrefd,   \* history: ids whose reference JS gave back and did not take again
    ended,    \* the event loop has ended
    crashed   \* NewTicker panicked

setVars == <<nextID, kind, delay, deadline, arming>>
fireVars == <<fire, due, next>>
tickVars == <<tick, ticker>>
jsVars == <<js, running, ran>>
histVars == <<cleared, unrefd>>
endVars == <<ended, crashed>>
vars == <<now, nextID, kind, delay, deadline, stopped, held, timers, heap, arming, wake,
          fire, due, next, tick, ticker, active, queue, js, running, ran, cleared, unrefd, ended, crashed>>

TypeOK ==
    /\ now \in 0..MaxTime /\ nextID \in 1..MaxId + 2
    /\ kind \in [Ids -> {"none", "once", "interval"}]
    /\ delay \in [Ids -> Nat] /\ deadline \in [Ids -> Nat]
    /\ stopped \in [Ids -> BOOLEAN] /\ held \in [Ids -> BOOLEAN]
    /\ timers \subseteq Ids /\ heap \subseteq Ids /\ arming \in Ids \cup {0}
    /\ wake \in BOOLEAN /\ fire \in {"scan", "run", "done", "sleep"}
    /\ due \in Seq(Ids) /\ next \in Nat \cup {-1}
    /\ tick \in [Ids -> BOOLEAN] /\ ticker \in [Ids -> {"off", "on"}]
    /\ active \in Nat /\ queue \in Seq(Ids)
    /\ js \in {"module", "idle", "callback"} /\ running \in Ids \cup {0}
    /\ ran \in Seq(Ids) /\ cleared \subseteq Ids /\ unrefd \subseteq Ids /\ ended \in BOOLEAN /\ crashed \in BOOLEAN

Init ==
    /\ now = 0 /\ nextID = 1
    /\ kind = [i \in Ids |-> "none"]
    /\ delay = [i \in Ids |-> 0] /\ deadline = [i \in Ids |-> 0]
    /\ stopped = [i \in Ids |-> FALSE] /\ held = [i \in Ids |-> FALSE]
    /\ timers = {} /\ heap = {} /\ arming = 0
    /\ wake = FALSE /\ fire = "scan" /\ due = <<>> /\ next = -1
    /\ tick = [i \in Ids |-> FALSE] /\ ticker = [i \in Ids |-> "off"]
    /\ active = 0 /\ queue = <<>>
    /\ js = "module" /\ running = 0 /\ ran = <<>> /\ cleared = {} /\ unrefd = {}
    /\ ended = FALSE /\ crashed = FALSE

-----------------------------------------------------------------------------
(* timerHandle: 0 or 1 reference, and the loop's count of them.             *)

Acquire(i) ==
    IF held[i] THEN UNCHANGED <<held, active>>
    ELSE held' = [held EXCEPT ![i] = TRUE] /\ active' = active + 1

\* unref and done: give the reference back if it is still held.
Release(i) ==
    IF held[i] THEN held' = [held EXCEPT ![i] = FALSE] /\ active' = active - 1
    ELSE UNCHANGED <<held, active>>

\* Mutant: the callback is counted only while it runs.
PostUncounted(i) ==
    IF ended THEN UNCHANGED <<active, queue>>
    ELSE queue' = Append(queue, i) /\ UNCHANGED active

\* PostTask of timer i's callback: counted until it has run.
Post(i) ==
    IF ended THEN UNCHANGED <<active, queue>>
    ELSE active' = active + 1 /\ queue' = Append(queue, i)

-----------------------------------------------------------------------------
(* The JS thread.                                                           *)

InCode == ~crashed /\ js # "idle" /\ arming = 0

Refused == MaxTimers > 0 /\ Cardinality(timers) >= MaxTimers

\* schedule: a refused timer still uses up its id.
Refuse ==
    /\ InCode /\ nextID <= MaxId + 1 /\ Refused
    /\ nextID' = nextID + 1
    /\ UNCHANGED <<now, kind, delay, deadline, arming, stopped, held, timers, heap, wake>>
    /\ UNCHANGED <<fireVars, tickVars, active, queue, jsVars, histVars, endVars>>

\* schedule up to the deadline of the entry, or the start of the Ticker.
Schedule(k, d) ==
    LET i == nextID IN
    /\ InCode /\ i <= MaxId /\ ~Refused /\ now + d <= MaxTime
    /\ nextID' = i + 1
    /\ kind' = [kind EXCEPT ![i] = k]
    /\ delay' = [delay EXCEPT ![i] = d]
    /\ deadline' = [deadline EXCEPT ![i] = now + d]
    /\ Acquire(i)
    /\ IF k = "once"
       THEN arming' = i /\ UNCHANGED <<ticker, timers>>
       ELSE /\ d > 0
            /\ ticker' = [ticker EXCEPT ![i] = "on"]
            /\ timers' = timers \cup {i} /\ UNCHANGED arming
    /\ UNCHANGED <<now, stopped, heap, wake, fireVars, tick, queue, jsVars, histVars, endVars>>

\* NewTicker panics on a delay that is not positive; 0 is not ruled out before.
TickerPanics ==
    /\ InCode /\ nextID <= MaxId /\ ~Refused
    /\ "interval" \in Kinds /\ 0 \in Delays
    /\ nextID' = nextID + 1
    /\ Acquire(nextID)
    /\ crashed' = TRUE
    /\ UNCHANGED <<now, kind, delay, deadline, arming, stopped, timers, heap, wake>>
    /\ UNCHANGED <<fireVars, tickVars, queue, jsVars, histVars, ended>>

\* Mutant: the dispatcher is not told of the new entry.
ArmSilently ==
    /\ arming # 0
    /\ heap' = heap \cup {arming}
    /\ timers' = timers \cup {arming}
    /\ arming' = 0
    /\ UNCHANGED <<now, nextID, kind, delay, deadline, stopped, held, wake>>
    /\ UNCHANGED <<fireVars, tickVars, active, queue, jsVars, histVars, endVars>>

\* schedule pushes the entry, wakes the dispatcher and registers the timer.
Arm ==
    /\ arming # 0
    /\ heap' = heap \cup {arming}
    /\ wake' = TRUE
    /\ timers' = timers \cup {arming}
    /\ arming' = 0
    /\ UNCHANGED <<now, nextID, kind, delay, deadline, stopped, held>>
    /\ UNCHANGED <<fireVars, tickVars, active, queue, jsVars, histVars, endVars>>

\* clearTimeout, clearInterval: stopFn of a registered timer.
Clear(i) ==
    /\ InCode /\ i \in timers
    /\ timers' = timers \ {i}
    /\ stopped' = [stopped EXCEPT ![i] = TRUE]
    /\ Release(i)
    /\ cleared' = cleared \cup {i}
    /\ UNCHANGED <<now, setVars, heap, wake, fireVars, tickVars, queue, jsVars, unrefd, endVars>>

\* Timeout.unref and Timeout.ref.
Unref(i) ==
    /\ InCode /\ kind[i] # "none" /\ held[i]
    /\ Release(i)
    /\ unrefd' = unrefd \cup {i}
    /\ UNCHANGED <<now, setVars, stopped, timers, heap, wake, fireVars, tickVars>>
    /\ UNCHANGED <<queue, jsVars, cleared, endVars>>

Ref(i) ==
    /\ InCode /\ kind[i] # "none" /\ ~held[i]
    /\ Acquire(i)
    /\ unrefd' = unrefd \ {i}
    /\ UNCHANGED <<now, setVars, stopped, timers, heap, wake, fireVars, tickVars>>
    /\ UNCHANGED <<queue, jsVars, cleared, endVars>>

\* Mutant: the count is not lowered for a callback that has run.
ReturnUncounted ==
    /\ InCode
    /\ js' = "idle" /\ running' = 0
    /\ UNCHANGED <<now, setVars, stopped, held, timers, heap, wake, fireVars, tickVars>>
    /\ UNCHANGED <<active, queue, ran, histVars, endVars>>

\* The module body returns and RunLoop starts, or a callback returns.
Return ==
    /\ InCode
    /\ js' = "idle" /\ running' = 0
    /\ active' = IF js = "callback" THEN active - 1 ELSE active
    /\ UNCHANGED <<now, setVars, stopped, held, timers, heap, wake, fireVars, tickVars>>
    /\ UNCHANGED <<queue, ran, histVars, endVars>>

\* RunLoop takes the next posted callback and calls it.
RunCallback ==
    /\ ~crashed /\ js = "idle" /\ ~ended /\ queue # <<>>
    /\ js' = "callback" /\ running' = Head(queue)
    /\ queue' = Tail(queue)
    /\ ran' = IF kind[Head(queue)] = "once" THEN Append(ran, Head(queue)) ELSE ran
    /\ UNCHANGED <<now, setVars, stopped, held, timers, heap, wake, fireVars, tickVars>>
    /\ UNCHANGED <<active, histVars, endVars>>

EndLoop ==
    /\ ~crashed /\ js = "idle" /\ ~ended /\ active = 0
    /\ ended' = TRUE
    /\ UNCHANGED <<now, setVars, stopped, held, timers, heap, wake, fireVars, tickVars>>
    /\ UNCHANGED <<active, queue, jsVars, histVars, crashed>>

-----------------------------------------------------------------------------
(* startFireLoop's goroutine.                                               *)

\* Mutant: among equal deadlines the newest entry comes first.
BeforeNewest(i, j) == deadline[i] < deadline[j] \/ (deadline[i] = deadline[j] /\ i > j)

\* fireHeap.Less: by deadline, then by sequence number.
Before(i, j) == deadline[i] < deadline[j] \/ (deadline[i] = deadline[j] /\ i < j)

\* The order in which heap.Pop returns the entries of S.
InHeapOrder(S) ==
    CHOOSE s \in [1..Cardinality(S) -> S] : \A m, n \in 1..Cardinality(S) : m < n => Before(s[m], s[n])

\* Under the lock: pop everything due by t, keep what is not stopped.
ScanUpTo(t) ==
    LET popped == {i \in heap : deadline[i] <= t}
        rest == heap \ popped
    IN  /\ ~crashed /\ fire = "scan"
        /\ heap' = rest
        /\ due' = InHeapOrder({i \in popped : ~stopped[i]})
        /\ fire' = IF due' = <<>> THEN "sleep" ELSE "run"
        /\ next' = IF due' # <<>> \/ rest = {} THEN -1 ELSE deadline[Head(InHeapOrder(rest))]
    /\ UNCHANGED <<now, setVars, stopped, held, timers, wake, tickVars>>
    /\ UNCHANGED <<active, queue, jsVars, histVars, endVars>>

Scan == ScanUpTo(now)

\* e.run()
FireRun ==
    /\ ~crashed /\ fire = "run"
    /\ Post(Head(due))
    /\ fire' = "done"
    /\ UNCHANGED <<now, setVars, stopped, held, timers, heap, wake, due, next, tickVars>>
    /\ UNCHANGED <<jsVars, histVars, endVars>>

\* e.done()
FireDone ==
    /\ ~crashed /\ fire = "done"
    /\ Release(Head(due))
    /\ due' = Tail(due)
    /\ fire' = IF due' = <<>> THEN "scan" ELSE "run"
    /\ UNCHANGED <<now, setVars, stopped, timers, heap, wake, next, tickVars>>
    /\ UNCHANGED <<queue, jsVars, histVars, endVars>>

\* The sleep ends on a token or when the deadline it was given has come.
WakeUp ==
    /\ ~crashed /\ fire = "sleep"
    /\ \/ wake /\ wake' = FALSE
       \/ next # -1 /\ next <= now /\ UNCHANGED wake
    /\ fire' = "scan" /\ next' = -1
    /\ UNCHANGED <<now, setVars, stopped, held, timers, heap, due, tickVars>>
    /\ UNCHANGED <<active, queue, jsVars, histVars, endVars>>

Dispatcher == Scan \/ FireRun \/ FireDone \/ WakeUp

-----------------------------------------------------------------------------
(* An interval's Ticker and goroutine, and the clock.                       *)

\* The runtime's Ticker drops a tick nobody has taken.
TickerTicks(i) ==
    /\ ~crashed /\ ticker[i] = "on" /\ ~stopped[i] /\ deadline[i] <= now
    /\ tick' = [tick EXCEPT ![i] = TRUE]
    /\ deadline' = [deadline EXCEPT ![i] = @ + delay[i]]
    /\ UNCHANGED <<now, nextID, kind, delay, arming, stopped, held, timers, heap, wake>>
    /\ UNCHANGED <<fireVars, ticker, active, queue, jsVars, histVars, endVars>>

\* Its select takes a tick or the stop, whichever is ready.
TickPost(i) ==
    /\ ~crashed /\ ticker[i] = "on" /\ tick[i]
    /\ tick' = [tick EXCEPT ![i] = FALSE]
    /\ Post(i)
    /\ UNCHANGED <<now, setVars, stopped, held, timers, heap, wake, fireVars, ticker>>
    /\ UNCHANGED <<jsVars, histVars, endVars>>

\* Mutant: the goroutine waits for ticks only (for range ticker.C).
TickerStays(i) == FALSE /\ UNCHANGED vars

TickerExit(i) ==
    /\ ~crashed /\ ticker[i] = "on" /\ stopped[i]
    /\ ticker' = [ticker EXCEPT ![i] = "off"]
    /\ UNCHANGED <<now, setVars, stopped, held, timers, heap, wake, fireVars, tick>>
    /\ UNCHANGED <<active, queue, jsVars, histVars, endVars>>

Tick ==
    /\ ~crashed /\ now < MaxTime /\ ~ended
    /\ now' = now + 1
    /\ UNCHANGED <<setVars, stopped, held, timers, heap, wake, fireVars, tickVars>>
    /\ UNCHANGED <<active, queue, jsVars, histVars, endVars>>

JsCode ==
    \/ Refuse
    \/ \E k \in Kinds, d \in Delays : Schedule(k, d)
    \/ TickerPanics
    \/ Arm
    \/ \E i \in Ids : Clear(i) \/ Unref(i) \/ Ref(i)

Next ==
    \/ JsCode \/ Return \/ RunCallback \/ EndLoop
    \/ Dispatcher
    \/ \E i \in Ids : TickerTicks(i) \/ TickPost(i) \/ TickerExit(i)
    \/ Tick

(***************************************************************************)
(* Fairness: time passes, goroutines that can run do, JS code returns and  *)
(* RunLoop serves its queue (EventLoop).  Scheduling and clearing is up to *)
(* the program.                                                            *)
(***************************************************************************)
Fairness ==
    /\ WF_vars(Arm) /\ WF_vars(Return) /\ WF_vars(RunCallback) /\ WF_vars(EndLoop)
    /\ WF_vars(Dispatcher) /\ WF_vars(Tick)
    /\ \A i \in Ids : WF_vars(TickerTicks(i)) /\ WF_vars(TickPost(i)) /\ WF_vars(TickerExit(i))

Spec == Init /\ [][Next]_vars

FairSpec == Spec /\ Fairness

-----------------------------------------------------------------------------
(* Properties.                                                              *)

Pending(i) == i = arming \/ i \in heap \/ \E n \in 1..Len(due) : due[n] = i

\* The loop's count is the references held plus the callbacks posted and not
\* yet finished, whatever ref, unref, clear, firing and done interleave.
CountExact ==
    /\ TypeOK
    /\ active = Cardinality({i \in Ids : held[i]}) + Len(queue) + (IF js = "callback" THEN 1 ELSE 0)

\* When the loop ends, every one-shot timer that JS neither cleared nor left
\* unref'd has run: its callback is posted before its reference is released
\* (timers.go:129-130), so nothing falls into the gap between the two.
EndsAfterTimers ==
    ended => \A i \in Ids :
        kind[i] = "once" => i \in cleared \cup unrefd \/ \E n \in 1..Len(ran) : ran[n] = i

\* Of two one-shot timers the one registered first, with no longer a delay,
\* starts first: the other neither precedes it nor starts while it waits.
OlderFirst ==
    \A n \in 1..Len(ran), i \in Ids :
        LET j == ran[n]
            OlderAndShorter == i < j /\ delay[i] <= delay[j]
        IN  kind[i] = "once" /\ OlderAndShorter =>
                /\ ~Pending(i)
                /\ \A m \in n + 1..Len(ran) : ran[m] # i

\* One-shot callbacks start at most once each, never before their deadline,
\* and in the order of deadline and registration (timers.go:7-9).
StartsInOrder ==
    /\ \A m, n \in 1..Len(ran) : ran[m] = ran[n] => m = n
    /\ \A n \in 1..Len(ran) : deadline[ran[n]] <= now
    /\ OlderFirst

\* A timer in the heap runs, unless JS clears it, the loop ends (it was unref'd)
\* or NewTicker panicked: the dispatcher does not sleep through it.
ArmedTimerRuns ==
    \A i \in Ids : i \in heap ~> (\E n \in 1..Len(ran) : ran[n] = i) \/ stopped[i] \/ ended \/ crashed

\* Clearing an interval ends its goroutine: it does not stay blocked on a
\* Ticker that will never tick again (timers.go:292-293).
TickerLeavesAfterClear == \A i \in Ids : stopped[i] ~> ticker[i] = "off" \/ crashed

\* Clearing cancels: a callback does not start after its timer was cleared
\* (timers.go:380, "clear cancels the timer", Node semantics).
ClearedNeverStarts ==
    [][\A i \in cleared : Len(ran') > Len(ran) => ran'[Len(ran')] # i]_vars
=============================================================================

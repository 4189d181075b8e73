------------------------------ MODULE Promises ------------------------------
(***************************************************************************)
(* Promises and the job queues of src/internal/engine/interpreter:         *)
(* promise.go (settling, then, adoption, unhandled rejections) and         *)
(* microtask.go (the checkpoint drainJobQueues runs after every task).     *)
(* Everything runs on the JS thread; what interleaves are the jobs.        *)
(*                                                                         *)
(* JS code is any sequence of calls of at most MaxOps in a behaviour.  A   *)
(* promise is a number, given out in order of creation; settled values are *)
(* left out, whether a promise is fulfilled or rejected is kept.  The      *)
(* promise that Resolve's internal Then derives is left out: nothing can   *)
(* observe it.                                                             *)
(***************************************************************************)
EXTENDS Naturals, Sequences, SequencesExt, FiniteSets

CONSTANTS
    MaxPromises, \* bound: promises created in one behaviour
    MaxOps       \* bound: operations JS code performs in one behaviour

ASSUME PromiseConstants == MaxPromises \in Nat /\ MaxOps \in Nat

Ids == 1..MaxPromises

\* A reaction: whether it has the handler for each outcome, the promise it
\* derives (0: none), and for an adoption the promise that adopts (0: none).
\* A callback of queueMicrotask is a reaction that derives nothing.
Reactions == [f : BOOLEAN, r : BOOLEAN, derived : Ids \cup {0}, adopter : Ids \cup {0}]
Callback == [f |-> TRUE, r |-> TRUE, derived |-> 0, adopter |-> 0]
Adoption(p) == [f |-> TRUE, r |-> TRUE, derived |-> 0, adopter |-> p]

Outcomes == {"fulfilled", "rejected"}

\* A microtask runs a reaction for an outcome.
Job(reaction, outcome) == [reaction |-> reaction, outcome |-> outcome]
Jobs == [reaction : Reactions, outcome : Outcomes]

VARIABLES
    state,      \* per promise: "none" before it is created
    reactions,  \* per promise: reactions waiting for it to settle
    hadHandler, \* promises something was attached to
    reported,   \* promises unhandledRejection was dispatched for
    made,       \* promises created so far
    nextTicks,  \* length of nextTickQueue
    microtasks, \* microtaskQueue
    unhandled,  \* unhandledQueue
    judging,    \* flushPendingUnhandled's list, what is left of it
    dispatched, \* it has dispatched an event
    pc,         \* control state of the JS thread
    back,       \* where it goes on when the JS code it runs returns
    settles,    \* the promise the return settles, 0 for none
    ops,        \* operations performed so far
    source,     \* history: the promise each one was derived from, 0 if none
    followed,   \* history: the promise each one was first resolved with, 0 if none
    ran         \* history: derived promises in the order their reactions ran

heapVars == <<state, reactions, hadHandler, unhandled>>
flushVars == <<judging, dispatched, reported>>
runVars == <<pc, back, settles>>
histVars == <<source, followed, ran>>
vars == <<heapVars, flushVars, made, nextTicks, microtasks, runVars, ops, histVars>>

TypeOK ==
    /\ state \in [Ids -> {"none", "pending"} \cup Outcomes]
    /\ reactions \in [Ids -> Seq(Reactions)]
    /\ hadHandler \subseteq Ids /\ reported \subseteq Ids /\ made \in 0..MaxPromises
    /\ nextTicks \in Nat /\ microtasks \in Seq(Jobs)
    /\ unhandled \in Seq(Ids) /\ judging \in Seq(Ids) /\ dispatched \in BOOLEAN
    /\ pc \in {"code", "outer", "tick", "micro", "flush", "idle"}
    /\ back \in {"outer", "tick", "micro", "flush"}
    /\ settles \in Ids \cup {0} /\ ops \in 0..MaxOps
    /\ source \in [Ids -> Ids \cup {0}] /\ followed \in [Ids -> Ids \cup {0}]
    /\ ran \in Seq(Ids)

Init ==
    /\ state = [p \in Ids |-> "none"] /\ reactions = [p \in Ids |-> <<>>]
    /\ hadHandler = {} /\ reported = {} /\ made = 0
    /\ nextTicks = 0 /\ microtasks = <<>>
    /\ unhandled = <<>> /\ judging = <<>> /\ dispatched = FALSE
    /\ pc = "code" /\ back = "outer" /\ settles = 0 /\ ops = 0
    /\ source = [p \in Ids |-> 0] /\ followed = [p \in Ids |-> 0] /\ ran = <<>>

-----------------------------------------------------------------------------
(* Settling and attaching.  q is microtaskQueue as it stands before; what   *)
(* these operators do not prime, their callers leave alone.                 *)

\* triggerReactions
Trigger(p, outcome, q) ==
    q \o [n \in 1..Len(reactions[p]) |-> Job(reactions[p][n], outcome)]

\* Mutant: a settled promise can be settled again.
SettleAgain(p, outcome, q) ==
    /\ state' = [state EXCEPT ![p] = outcome]
    /\ reactions' = [reactions EXCEPT ![p] = <<>>]
    /\ microtasks' = Trigger(p, outcome, q)
    /\ unhandled' = IF outcome = "rejected" /\ p \notin hadHandler
                    THEN Append(unhandled, p) ELSE unhandled

\* Mutant: the list of reactions is not cleared when they are scheduled.
SettleKeeping(p, outcome, q) ==
    IF state[p] # "pending"
    THEN microtasks' = q /\ UNCHANGED <<state, reactions, unhandled>>
    ELSE /\ state' = [state EXCEPT ![p] = outcome]
         /\ microtasks' = Trigger(p, outcome, q)
         /\ unhandled' = IF outcome = "rejected" /\ p \notin hadHandler
                         THEN Append(unhandled, p) ELSE unhandled
         /\ UNCHANGED reactions

\* Fulfill and Reject: once; a rejection nobody handles is tracked.
Settle(p, outcome, q) ==
    IF state[p] # "pending"
    THEN microtasks' = q /\ UNCHANGED <<state, reactions, unhandled>>
    ELSE /\ state' = [state EXCEPT ![p] = outcome]
         /\ reactions' = [reactions EXCEPT ![p] = <<>>]
         /\ microtasks' = Trigger(p, outcome, q)
         /\ unhandled' = IF outcome = "rejected" /\ p \notin hadHandler
                         THEN Append(unhandled, p) ELSE unhandled

\* Mutant: then waits for p even when p has settled.
AttachWaiting(p, reaction) ==
    /\ hadHandler' = hadHandler \cup {p}
    /\ reactions' = [reactions EXCEPT ![p] = Append(@, reaction)] /\ UNCHANGED microtasks

\* Then: wait for p, or be scheduled at once if it has settled.
Attach(p, reaction) ==
    /\ hadHandler' = hadHandler \cup {p}
    /\ IF state[p] = "pending"
       THEN reactions' = [reactions EXCEPT ![p] = Append(@, reaction)] /\ UNCHANGED microtasks
       ELSE microtasks' = Append(microtasks, Job(reaction, state[p])) /\ UNCHANGED reactions

\* Resolve with x: a promise's number, or 0 for any other value.
Resolve(p, x) ==
    IF state[p] = "pending" /\ x # 0 /\ x # p
    THEN /\ Attach(x, Adoption(p))
         /\ followed' = [followed EXCEPT ![p] = IF @ = 0 THEN x ELSE @]
         /\ UNCHANGED <<state, unhandled>>
    ELSE /\ Settle(p, IF x = p THEN "rejected" ELSE "fulfilled", microtasks)
         /\ UNCHANGED <<hadHandler, followed>>

-----------------------------------------------------------------------------
(* What JS code can do.                                                     *)

Created == 1..made
Code == pc = "code" /\ ops < MaxOps /\ ops' = ops + 1

\* new Promise(executor), Promise.withResolvers()
Create ==
    /\ Code /\ made < MaxPromises
    /\ made' = made + 1
    /\ state' = [state EXCEPT ![made'] = "pending"]
    /\ UNCHANGED <<reactions, hadHandler, unhandled, flushVars, nextTicks, microtasks, runVars, histVars>>

\* The resolve and reject functions of p; a derived promise has none.
CallResolve(p, x) ==
    /\ Code /\ source[p] = 0
    /\ Resolve(p, x)
    /\ UNCHANGED <<flushVars, made, nextTicks, runVars, source, ran>>

CallReject(p) ==
    /\ Code /\ source[p] = 0
    /\ Settle(p, "rejected", microtasks)
    /\ UNCHANGED <<hadHandler, flushVars, made, nextTicks, runVars, histVars>>

\* p.then with either, both or no handler; catch and finally are such calls.
CallThen(p, f, r) ==
    /\ Code /\ made < MaxPromises
    /\ made' = made + 1
    /\ state' = [state EXCEPT ![made'] = "pending"]
    /\ source' = [source EXCEPT ![made'] = p]
    /\ Attach(p, [f |-> f, r |-> r, derived |-> made', adopter |-> 0])
    /\ UNCHANGED <<unhandled, flushVars, nextTicks, runVars, followed, ran>>

CallNextTick ==
    /\ Code
    /\ nextTicks' = nextTicks + 1
    /\ UNCHANGED <<heapVars, flushVars, made, microtasks, runVars, histVars>>

CallQueueMicrotask ==
    /\ Code
    /\ microtasks' = Append(microtasks, Job(Callback, "fulfilled"))
    /\ UNCHANGED <<heapVars, flushVars, made, nextTicks, runVars, histVars>>

Goto(to) == pc' = to /\ UNCHANGED <<back, settles>>
Enter(from, p) == pc' = "code" /\ back' = from /\ settles' = p

\* A handler returns x, or throws, and its derived promise settles.
Return(x) ==
    /\ pc = "code" /\ settles # 0
    /\ Resolve(settles, x)
    /\ Goto(back)
    /\ UNCHANGED <<flushVars, made, nextTicks, ops, source, ran>>

Throw ==
    /\ pc = "code" /\ settles # 0
    /\ Settle(settles, "rejected", microtasks)
    /\ Goto(back)
    /\ UNCHANGED <<hadHandler, flushVars, made, nextTicks, ops, histVars>>

\* A task, nextTick job, microtask callback or listener returns.
Leave ==
    /\ pc = "code" /\ settles = 0
    /\ Goto(back)
    /\ UNCHANGED <<heapVars, flushVars, made, nextTicks, microtasks, ops, histVars>>

-----------------------------------------------------------------------------
(* drainJobQueues.                                                          *)

\* The inner loop's condition; once both queues are empty the tracked
\* rejections are taken over for judging.
Outer ==
    /\ pc = "outer"
    /\ IF nextTicks > 0 \/ microtasks # <<>>
       THEN Goto("tick") /\ UNCHANGED <<judging, unhandled, dispatched>>
       ELSE /\ judging' = unhandled /\ unhandled' = <<>> /\ dispatched' = FALSE
            /\ Goto("flush")
    /\ UNCHANGED <<state, reactions, hadHandler, reported, made, nextTicks, microtasks, ops, histVars>>

\* drainQueue of each queue in turn, until it is empty.
RunTick ==
    /\ pc = "tick" /\ nextTicks > 0
    /\ nextTicks' = nextTicks - 1
    /\ Enter("tick", 0)
    /\ UNCHANGED <<heapVars, flushVars, made, microtasks, ops, histVars>>

TicksDone ==
    /\ pc = "tick" /\ nextTicks = 0
    /\ Goto("micro")
    /\ UNCHANGED <<heapVars, flushVars, made, nextTicks, microtasks, ops, histVars>>

\* promiseReaction.run: an adoption, a passthrough, or a call of the handler.
RunJob ==
    LET job == Head(microtasks)
        r == job.reaction
        hasHandler == IF job.outcome = "fulfilled" THEN r.f ELSE r.r
    IN  /\ pc = "micro" /\ microtasks # <<>>
        /\ IF r.adopter # 0
           THEN Settle(r.adopter, job.outcome, Tail(microtasks)) /\ Goto("micro")
           ELSE IF ~hasHandler
           THEN Settle(r.derived, job.outcome, Tail(microtasks)) /\ Goto("micro")
           ELSE /\ microtasks' = Tail(microtasks)
                /\ Enter("micro", r.derived)
                /\ UNCHANGED <<state, reactions, unhandled>>
        /\ ran' = IF r.derived # 0 THEN Append(ran, r.derived) ELSE ran
        /\ UNCHANGED <<hadHandler, flushVars, made, nextTicks, ops, source, followed>>

JobsDone ==
    /\ pc = "micro" /\ microtasks = <<>>
    /\ Goto("outer")
    /\ UNCHANGED <<heapVars, flushVars, made, nextTicks, microtasks, ops, histVars>>

\* Mutant: the queue is emptied after the listeners have run.
FlushLate ==
    /\ pc = "flush" /\ judging = <<>>
    /\ unhandled' = <<>>
    /\ Goto(IF dispatched THEN "outer" ELSE "idle")
    /\ UNCHANGED <<state, reactions, hadHandler, flushVars, made, nextTicks, microtasks, ops, histVars>>

FlushDone ==
    /\ pc = "flush" /\ judging = <<>>
    /\ Goto(IF dispatched THEN "outer" ELSE "idle")
    /\ UNCHANGED <<heapVars, flushVars, made, nextTicks, microtasks, ops, histVars>>

\* Judge a rejection: dispatch the event unless it is handled by now.  The
\* listener is JS code.
Judge ==
    LET p == Head(judging) IN
    /\ pc = "flush" /\ judging # <<>>
    /\ judging' = Tail(judging)
    /\ IF p \in hadHandler \cup reported
       THEN Goto("flush") /\ UNCHANGED <<reported, dispatched>>
       ELSE reported' = reported \cup {p} /\ dispatched' = TRUE /\ Enter("flush", 0)
    /\ UNCHANGED <<heapVars, made, nextTicks, microtasks, ops, histVars>>

\* The event loop runs the next task.
RunTask ==
    /\ pc = "idle" /\ ops < MaxOps
    /\ Enter("outer", 0)
    /\ UNCHANGED <<heapVars, flushVars, made, nextTicks, microtasks, ops, histVars>>

JsCode ==
    \/ Create \/ CallNextTick \/ CallQueueMicrotask
    \/ \E p \in Created :
        \/ \E x \in Created \cup {0} : CallResolve(p, x)
        \/ CallReject(p)
        \/ \E f, r \in BOOLEAN : CallThen(p, f, r)

\* Code returns to the checkpoint, and the checkpoint goes on.
Step ==
    \/ \E x \in Created \cup {0} : Return(x)
    \/ Throw \/ Leave
    \/ Outer \/ RunTick \/ TicksDone \/ RunJob \/ JobsDone \/ Judge \/ FlushDone

Next == JsCode \/ Step \/ RunTask

(***************************************************************************)
(* Fairness: JS code returns.  What it does before that is up to it.       *)
(***************************************************************************)
Spec == Init /\ [][Next]_vars

FairSpec == Spec /\ WF_vars(Step)

-----------------------------------------------------------------------------
(* Properties.                                                              *)

\* The reactions that stand for derived promise d: waiting, or scheduled.
Waiting(d) == UNION {{<<p, n>> : n \in {m \in 1..Len(reactions[p]) : reactions[p][m].derived = d}} : p \in Ids}
Scheduled(d) == {n \in 1..Len(microtasks) : microtasks[n].reaction.derived = d}
RanAt(d) == {n \in 1..Len(ran) : ran[n] = d}

\* No reaction is lost or run twice: each then call's reaction waits for its
\* promise, or is scheduled, or has run, exactly one of them and once; it waits
\* only while its promise is pending; and the reactions to one promise run in
\* the order they were attached.
EachReactionOnce ==
    /\ TypeOK
    /\ \A d \in Created : source[d] # 0 =>
        /\ Cardinality(Waiting(d)) + Cardinality(Scheduled(d)) + Cardinality(RanAt(d)) = 1
        /\ Waiting(d) # {} => state[source[d]] = "pending"
    /\ \A m, n \in 1..Len(ran) : m < n /\ source[ran[m]] = source[ran[n]] => ran[m] < ran[n]

\* A promise that rejects passes it on or has it reported: when the checkpoint
\* is over every rejection without a handler has been dispatched, and nothing is
\* left in any queue for the next task to trip over (microtask.go:74-79).
CheckpointComplete ==
    pc = "idle" =>
        /\ nextTicks = 0 /\ microtasks = <<>> /\ unhandled = <<>>
        /\ \A p \in Created : state[p] = "rejected" => p \in hadHandler \cup reported

\* What a promise settled to stays: a late resolve, reject, adoption or handler
\* result changes nothing.
SettledForGood ==
    [][\A p \in Ids : state[p] \in Outcomes => state'[p] = state[p]]_vars

\* Every reaction to a settled promise runs.
ReactionRuns ==
    \A d \in Ids : source[d] # 0 /\ state[source[d]] \in Outcomes ~> RanAt(d) # {}

\* A promise resolved with another adopts its state (promise.go:151-152).
AdoptsState ==
    \A p \in Created : followed[p] # 0 /\ state[p] \in Outcomes => state[followed[p]] = state[p]
=============================================================================

-------------------------- MODULE AsyncGenerator --------------------------
(* Async generators: the queue of requests made by next(), return() and      *)
(* throw(), the body that serves them one at a time, and the awaits that     *)
(* interrupt it.  A body awaits promises of its own or the answers of other  *)
(* generators (a pipeline of for-await loops); it may also call next() on    *)
(* any generator, itself included, while it runs.                            *)
(*                                                                           *)
(* Everything runs on one thread: `stack` is what is nested at the moment, a *)
(* pump() or the body it started, with the caller's entries below.  It is    *)
(* empty in the code of the program's own tasks and jobs.                    *)
EXTENDS Naturals, Sequences

CONSTANTS Generators, \* numbers: a body awaits the answers of smaller ones
          MaxAsked,   \* bound: requests per generator
          MaxAwaits   \* bound: awaits per generator

ASSUME GeneratorsAssumption == Generators \subseteq Nat
ASSUME BoundsAssumption == MaxAsked \in Nat /\ MaxAwaits \in Nat

VARIABLES
  asked, answers,  \* history: requests made and answers given (see RequestQueue)
  requests,        \* per generator the queue
  current,         \* the request being served, 0 for nil
  state, hasState,
  awaits,          \* awaits executed so far
  outside,         \* generators that wait for a promise of their own
  waiters,         \* per generator and request, who waits for its answer
  jobs,            \* resumptions queued: [gen, throw]
  stack

vars == <<asked, answers, requests, current, state, hasState, awaits, outside, waiters, jobs, stack>>
awaitVars == <<awaits, outside, waiters>>

Kinds == {"next", "return", "throw"}

Requests == 1..MaxAsked

Init ==
  /\ asked = [g \in Generators |-> << >>]
  /\ answers = [g \in Generators |-> << >>]
  /\ requests = [g \in Generators |-> << >>]
  /\ current = [g \in Generators |-> 0]
  /\ state = [g \in Generators |-> "suspended"]
  /\ hasState = [g \in Generators |-> FALSE]
  /\ awaits = [g \in Generators |-> 0]
  /\ outside = {}
  /\ waiters = [g \in Generators |-> [r \in Requests |-> << >>]]
  /\ jobs = << >> /\ stack = << >>

-----------------------------------------------------------------------------
(* The stack.  Its top is its first element.                                *)
Entry(g, at) == [gen |-> g, at |-> at]
Top(g, at) == stack # << >> /\ Head(stack) = Entry(g, at)
Replace(g, at) == stack' = <<Entry(g, at)>> \o Tail(stack)
Pop == stack' = Tail(stack)

InCode == stack # << >> => Head(stack).at = "body"

(* The request's promise is settled: who awaits it is resumed by a job.     *)
Reactions(ws, rejected) == [i \in DOMAIN ws |-> [gen |-> ws[i], throw |-> rejected]]

Answer(g, r, res) ==
  /\ answers' = [answers EXCEPT ![g] = Append(@, [req |-> r, res |-> res])]
  /\ jobs' = jobs \o Reactions(waiters[g][r], res = "rejected")

-----------------------------------------------------------------------------
(* enqueue and pump                                                         *)
Ask(g, kind) ==
  /\ InCode /\ Len(asked[g]) < MaxAsked
  /\ asked' = [asked EXCEPT ![g] = Append(@, kind)]
  /\ requests' = [requests EXCEPT ![g] = Append(@, Len(asked[g]) + 1)]
  /\ stack' = <<Entry(g, "pump")>> \o stack
  /\ UNCHANGED <<answers, current, state, hasState, awaitVars, jobs>>

\* Mutant: pump() does not look whether a request is being served.
ServesAlways(g) == requests[g] # << >>

Serves(g) == current[g] = 0 /\ requests[g] # << >>

PumpEnds(g) ==
  /\ Top(g, "pump") /\ ~Serves(g)
  /\ Pop
  /\ UNCHANGED <<asked, answers, requests, current, state, hasState, awaitVars, jobs>>

Request(g) == Head(requests[g])
Kind(g) == asked[g][Request(g)]
Take(g) == Top(g, "pump") /\ Serves(g) /\ requests' = [requests EXCEPT ![g] = Tail(@)]

PumpCompleted(g) ==
  /\ Take(g) /\ state[g] = "completed"
  /\ Answer(g, Request(g), IF Kind(g) = "throw" THEN "rejected" ELSE "done")
  /\ UNCHANGED <<asked, current, state, hasState, awaitVars, stack>>

(* complete and fail: the frame is dropped, the request answered, and pump   *)
(* goes on                                                                   *)
\* Mutant: the generator is left suspended.
EndsSuspended(g, r, res) ==
  /\ state' = [state EXCEPT ![g] = "suspended"]
  /\ hasState' = [hasState EXCEPT ![g] = FALSE]
  /\ current' = [current EXCEPT ![g] = 0]
  /\ Answer(g, r, res)

Ends(g, r, res) ==
  /\ state' = [state EXCEPT ![g] = "completed"]
  /\ hasState' = [hasState EXCEPT ![g] = FALSE]
  /\ current' = [current EXCEPT ![g] = 0]
  /\ Answer(g, r, res)

(* return() of a generator that is not completed: the body is not resumed *)
PumpReturn(g) ==
  /\ Take(g) /\ state[g] # "completed" /\ Kind(g) = "return"
  /\ Ends(g, Request(g), "done")
  /\ UNCHANGED <<asked, awaitVars, stack>>

(* throw(): before the body began, or with no handler for it *)
PumpThrow(g) ==
  /\ Take(g) /\ state[g] # "completed" /\ Kind(g) = "throw"
  /\ Ends(g, Request(g), "rejected")
  /\ UNCHANGED <<asked, awaitVars, stack>>

(* next(), or a throw() that the body catches: runStep *)
PumpRuns(g) ==
  /\ Take(g) /\ state[g] # "completed"
  /\ (Kind(g) = "throw" /\ hasState[g]) \/ Kind(g) = "next"
  /\ current' = [current EXCEPT ![g] = Request(g)]
  /\ state' = [state EXCEPT ![g] = "executing"]
  /\ hasState' = [hasState EXCEPT ![g] = TRUE]
  /\ Replace(g, "body")
  /\ UNCHANGED <<asked, answers, awaitVars, jobs>>

-----------------------------------------------------------------------------
(* The body, up to its next yield, await, return or uncaught throw          *)
\* Mutant: a yield does not pump.
YieldQuietly(g) ==
  /\ Top(g, "body")
  /\ state' = [state EXCEPT ![g] = "suspended"]
  /\ current' = [current EXCEPT ![g] = 0]
  /\ Answer(g, current[g], "yield")
  /\ Pop
  /\ UNCHANGED <<asked, requests, hasState, awaitVars>>

Yield(g) ==
  /\ Top(g, "body")
  /\ state' = [state EXCEPT ![g] = "suspended"]
  /\ current' = [current EXCEPT ![g] = 0]
  /\ Answer(g, current[g], "yield")
  /\ Replace(g, "pump")
  /\ UNCHANGED <<asked, requests, hasState, awaitVars>>

Finish(g, res) ==
  /\ Top(g, "body")
  /\ Ends(g, current[g], res)
  /\ Replace(g, "pump")
  /\ UNCHANGED <<asked, requests, awaitVars>>

AwaitOutside(g) ==
  /\ Top(g, "body") /\ awaits[g] < MaxAwaits
  /\ awaits' = [awaits EXCEPT ![g] = @ + 1]
  /\ outside' = outside \cup {g}
  /\ Pop
  /\ UNCHANGED <<asked, answers, requests, current, state, hasState, waiters, jobs>>

\* Mutant: an answer already given resumes nobody.
AwaitAnswerForever(g, h, r) ==
  /\ Top(g, "body") /\ awaits[g] < MaxAwaits
  /\ h < g /\ r \in DOMAIN asked[h]
  /\ awaits' = [awaits EXCEPT ![g] = @ + 1]
  /\ waiters' = [waiters EXCEPT ![h][r] = Append(@, g)]
  /\ Pop
  /\ UNCHANGED <<asked, answers, requests, current, state, hasState, outside, jobs>>

(* The answer of another generator: Then adds a reaction, or a job at once   *)
(* if there is an answer already                                             *)
AwaitAnswer(g, h, r) ==
  /\ Top(g, "body") /\ awaits[g] < MaxAwaits
  /\ h < g /\ r \in DOMAIN asked[h]
  /\ awaits' = [awaits EXCEPT ![g] = @ + 1]
  /\ IF r \in DOMAIN answers[h]
     THEN jobs' = Append(jobs, [gen |-> g, throw |-> answers[h][r].res = "rejected"]) /\ UNCHANGED waiters
     ELSE waiters' = [waiters EXCEPT ![h][r] = Append(@, g)] /\ UNCHANGED jobs
  /\ Pop
  /\ UNCHANGED <<asked, answers, requests, current, state, hasState, outside>>

Settle(g, throw) ==
  /\ stack = << >> /\ g \in outside
  /\ outside' = outside \ {g}
  /\ jobs' = Append(jobs, [gen |-> g, throw |-> throw])
  /\ UNCHANGED <<asked, answers, requests, current, state, hasState, awaits, waiters, stack>>

(* A resumption: the body goes on (after a rejection in a handler), ...      *)
Resume(g) ==
  /\ stack = << >> /\ jobs # << >> /\ Head(jobs).gen = g
  /\ jobs' = Tail(jobs)
  /\ stack' = <<Entry(g, "body")>>
  /\ UNCHANGED <<asked, answers, requests, current, state, hasState, awaitVars>>

(* ... or the rejection ends it *)
ResumeFails(g) ==
  /\ stack = << >> /\ jobs # << >> /\ Head(jobs) = [gen |-> g, throw |-> TRUE]
  /\ LET r == current[g]
     IN  /\ state' = [state EXCEPT ![g] = "completed"]
         /\ hasState' = [hasState EXCEPT ![g] = FALSE]
         /\ current' = [current EXCEPT ![g] = 0]
         /\ answers' = [answers EXCEPT ![g] = Append(@, [req |-> r, res |-> "rejected"])]
         /\ jobs' = Tail(jobs) \o Reactions(waiters[g][r], TRUE)
  /\ stack' = <<Entry(g, "pump")>>
  /\ UNCHANGED <<asked, requests, awaitVars>>

-----------------------------------------------------------------------------
Pump(g) == PumpEnds(g) \/ PumpCompleted(g) \/ PumpReturn(g) \/ PumpThrow(g) \/ PumpRuns(g)
Body(g) ==
  \/ Yield(g) \/ AwaitOutside(g)
  \/ \E res \in {"done", "rejected"} : Finish(g, res)
  \/ \E h \in Generators, r \in Requests : AwaitAnswer(g, h, r)
Job(g) == Resume(g) \/ ResumeFails(g)

Next ==
  \/ \E g \in Generators, kind \in Kinds : Ask(g, kind)
  \/ \E g \in Generators : Pump(g) \/ Body(g) \/ Job(g)
  \/ \E g \in Generators, throw \in BOOLEAN : Settle(g, throw)

Spec == Init /\ [][Next]_vars

(* The thread runs on; a body comes to its next yield, await or end; the     *)
(* promises it awaits settle                                                 *)
Fairness ==
  \A g \in Generators :
    /\ WF_vars(Pump(g)) /\ WF_vars(Body(g)) /\ WF_vars(Job(g))
    /\ WF_vars(\E throw \in BOOLEAN : Settle(g, throw))

FairSpec == Spec /\ Fairness
-----------------------------------------------------------------------------
(* Properties                                                               *)

Queue == INSTANCE RequestQueue

TypeOK ==
  /\ asked \in [Generators -> Seq(Kinds)] /\ \A g \in Generators : Len(asked[g]) <= MaxAsked
  /\ answers \in [Generators -> Seq([req : Requests, res : Queue!Results])]
  /\ requests \in [Generators -> Seq(Requests)] /\ current \in [Generators -> Requests \cup {0}]
  /\ state \in [Generators -> {"suspended", "executing", "completed"}]
  /\ hasState \in [Generators -> BOOLEAN] /\ awaits \in [Generators -> 0..MaxAwaits]
  /\ outside \subseteq Generators
  /\ waiters \in [Generators -> [Requests -> Seq(Generators)]]
  /\ jobs \in Seq([gen : Generators, throw : BOOLEAN])
  /\ stack \in Seq([gen : Generators, at : {"pump", "body"}])

\* A body runs for one request at a time: it is on the stack, waiting for a
\* promise, or about to be resumed, exactly once while a request is served,
\* and otherwise not at all.  A generator that calls itself, or that is called
\* by the one it waits for, does not start its body again (async_generator.go:91).
Runs(g) == {i \in DOMAIN stack : stack[i] = Entry(g, "body")}
Resumptions(g) == {i \in DOMAIN jobs : jobs[i].gen = g}
WaitsFor(g) ==
  {x \in Generators \X Requests :
     /\ x[2] \notin DOMAIN answers[x[1]]
     /\ \E i \in DOMAIN waiters[x[1]][x[2]] : waiters[x[1]][x[2]][i] = g}
OneBody ==
  /\ TypeOK
  /\ \A g \in Generators :
       LET placed == {<<"run", i>> : i \in Runs(g)} \cup {<<"job", i>> : i \in Resumptions(g)}
                       \cup {<<"wait", x>> : x \in WaitsFor(g)} \cup {<<"outside", h>> : h \in outside \cap {g}}
       IN  IF current[g] = 0 THEN placed = {} ELSE \E p \in placed : placed = {p}

\* The queue holds the requests not yet served, in order, and no generator
\* sits idle in front of a request.
Served(g) == Len(answers[g]) + (IF current[g] = 0 THEN 0 ELSE 1)
QueueExact ==
  \A g \in Generators :
    /\ current[g] # 0 => current[g] = Served(g)
    /\ Len(asked[g]) = Served(g) + Len(requests[g])
    /\ \A i \in DOMAIN requests[g] : requests[g][i] = Served(g) + i
    /\ current[g] = 0 /\ requests[g] # << >> => \E i \in DOMAIN stack : stack[i] = Entry(g, "pump")

\* Answers come in order, one per request, and none from a body that is over.
ImplementsRequestQueue == Queue!Spec

\* Every request is answered, whoever called whom and whatever was awaited.
EveryRequestAnswered ==
  \A g \in Generators, r \in Requests : r <= Len(asked[g]) ~> r <= Len(answers[g])
=============================================================================

-------------------------- MODULE Promises_proofs --------------------------
(***************************************************************************)
(* Proofs about Promises for any number of promises and operations: what a *)
(* promise settled to stays, and a checkpoint that is over has left no job *)
(* and no unreported rejection behind.                                     *)
(***************************************************************************)
EXTENDS Promises, FiniteSetTheorems, TLAPS

-----------------------------------------------------------------------------
(* The inductive invariant                                                  *)

\* A reaction adopts, or settles a derived promise, or has both handlers.
Usable == {r \in Reactions : r.adopter # 0 \/ r.derived # 0 \/ (r.f /\ r.r)}
UsableJobs == [reaction : Usable, outcome : Outcomes]

HeapOK ==
    /\ state \in [Ids -> {"none", "pending"} \cup Outcomes]
    /\ reactions \in [Ids -> Seq(Usable)]
    /\ microtasks \in Seq(UsableJobs)
    /\ unhandled \in Seq(Ids)

ControlOK ==
    /\ judging \in Seq(Ids)
    /\ pc \in {"code", "outer", "tick", "micro", "flush", "idle"}
    /\ back \in {"outer", "tick", "micro", "flush"}
    /\ settles \in Ids \cup {0}
    /\ nextTicks \in Nat /\ made \in 0..MaxPromises

\* Promises are created in order.
Fresh == \A p \in Ids : state[p] = "none" <=> p > made

\* A rejection nobody handles is reported, tracked, or about to be judged.
In(p, s) == \E n \in 1..Len(s) : s[n] = p
Tracked ==
    \A p \in Ids : state[p] = "rejected" =>
        p \in hadHandler \/ p \in reported \/ In(p, unhandled) \/ In(p, judging)

\* Rejections are judged in the flush and its listeners only; until a listener
\* has run the flush finds the queues as the drain left them: empty.
Empty == nextTicks = 0 /\ microtasks = <<>> /\ unhandled = <<>>
Flushing == pc = "flush" \/ (pc = "code" /\ back = "flush")
Judged ==
    /\ ~Flushing => judging = <<>>
    /\ pc = "flush" => dispatched \/ Empty
    /\ pc = "code" /\ back = "flush" => dispatched
    /\ pc = "idle" => Empty

\* Every step leaves a settled promise as it is.
Kept == \A p \in Ids : state[p] \in Outcomes => state'[p] = state[p]

IInv == HeapOK /\ ControlOK /\ Fresh /\ Tracked /\ Judged

-----------------------------------------------------------------------------
(* Settling and attaching                                                   *)

LEMMA AppendKeeps ==
    ASSUME NEW S, NEW s \in Seq(S), NEW e \in S
    PROVE  /\ Append(s, e) \in Seq(S)
           /\ \A p : In(p, s) => In(p, Append(s, e))
           /\ In(e, Append(s, e))
<1>1. /\ Append(s, e) \in Seq(S) /\ Len(Append(s, e)) = Len(s) + 1 /\ Len(s) \in Nat
      /\ Append(s, e)[Len(s) + 1] = e
      /\ \A n \in 1..Len(s) : Append(s, e)[n] = s[n]
    OBVIOUS
<1>2. Len(s) + 1 \in 1..Len(Append(s, e)) /\ \A n \in 1..Len(s) : n \in 1..Len(Append(s, e))
    BY <1>1
<1>3. QED
    BY <1>1, <1>2 DEF In

\* Scheduling the reactions of a promise.
LEMMA TriggerType ==
    ASSUME HeapOK, NEW p \in Ids, NEW o \in Outcomes, NEW q \in Seq(UsableJobs)
    PROVE  Trigger(p, o, q) \in Seq(UsableJobs)
<1> DEFINE js == [n \in 1..Len(reactions[p]) |-> Job(reactions[p][n], o)]
<1>1. reactions[p] \in Seq(Usable)
    BY DEF HeapOK
<1>2. \A n \in 1..Len(reactions[p]) : Job(reactions[p][n], o) \in UsableJobs
    BY <1>1 DEF Job, UsableJobs
<1>3. js \in Seq(UsableJobs)
    BY <1>1, <1>2
<1>4. q \o js \in Seq(UsableJobs)
    BY <1>3
<1>5. QED
    BY <1>4 DEF Trigger

\* What a call of Fulfill or Reject leaves, whatever the promise's state was.
Settled(s, ms, u) ==
    /\ s \in [Ids -> {"none", "pending"} \cup Outcomes]
    /\ ms \in Seq(UsableJobs)
    /\ u \in Seq(Ids)
    /\ \A p \in Ids : s[p] # state[p] => state[p] = "pending" /\ s[p] \in Outcomes
    /\ \A p \in Ids : In(p, unhandled) => In(p, u)
    /\ \A p \in Ids : s[p] = "rejected" /\ state[p] # "rejected" => p \in hadHandler \/ In(p, u)

LEMMA SettleKeeps ==
    ASSUME HeapOK, NEW p \in Ids, NEW o \in Outcomes, NEW q \in Seq(UsableJobs), Settle(p, o, q)
    PROVE  Settled(state', microtasks', unhandled') /\ reactions' \in [Ids -> Seq(Usable)]
<1>1. CASE state[p] # "pending"
    BY <1>1 DEF Settle, Settled, HeapOK, Outcomes
<1>2. CASE state[p] = "pending"
    <2>1. /\ state' = [state EXCEPT ![p] = o]
          /\ reactions' = [reactions EXCEPT ![p] = <<>>]
          /\ microtasks' = Trigger(p, o, q)
          /\ unhandled' = IF o = "rejected" /\ p \notin hadHandler
                          THEN Append(unhandled, p) ELSE unhandled
        BY <1>2 DEF Settle
    <2>2. state' \in [Ids -> {"none", "pending"} \cup Outcomes]
        BY <2>1 DEF HeapOK
    <2>3. microtasks' \in Seq(UsableJobs)
        BY <2>1, TriggerType
    <2>4. unhandled \in Seq(Ids)
        BY DEF HeapOK
    <2>5. unhandled' \in Seq(Ids) /\ \A x \in Ids : In(x, unhandled) => In(x, unhandled')
        BY <2>1, <2>4, AppendKeeps
    <2>6. \A x \in Ids : state'[x] # state[x] => state[x] = "pending" /\ state'[x] \in Outcomes
        BY <1>2, <2>1 DEF HeapOK
    <2>7. \A x \in Ids : state'[x] = "rejected" /\ state[x] # "rejected" => x \in hadHandler \/ In(x, unhandled')
        <3>1. SUFFICES ASSUME NEW x \in Ids, state'[x] = "rejected", state[x] # "rejected", x \notin hadHandler
                       PROVE  In(x, unhandled')
            OBVIOUS
        <3>2. x = p /\ o = "rejected"
            BY <2>1, <3>1 DEF HeapOK
        <3>3. unhandled' = Append(unhandled, p)
            BY <2>1, <3>1, <3>2
        <3>4. QED
            BY <2>4, <3>2, <3>3, AppendKeeps
    <2>8. reactions' \in [Ids -> Seq(Usable)]
        <3>1. <<>> \in Seq(Usable)
            OBVIOUS
        <3>2. QED
            BY <2>1, <3>1 DEF HeapOK
    <2>9. QED
        BY <2>2, <2>3, <2>5, <2>6, <2>7, <2>8 DEF Settled
<1>3. QED
    BY <1>1, <1>2

\* Then: one usable reaction more, waiting or scheduled.
LEMMA AttachKeeps ==
    ASSUME HeapOK, NEW p \in Ids, NEW r \in Usable, Attach(p, r), state[p] # "none"
    PROVE  /\ reactions' \in [Ids -> Seq(Usable)] /\ microtasks' \in Seq(UsableJobs)
           /\ hadHandler \subseteq hadHandler'
<1>1. CASE state[p] = "pending"
    <2>1. reactions[p] \in Seq(Usable)
        BY DEF HeapOK
    <2>2. Append(reactions[p], r) \in Seq(Usable)
        BY <2>1, AppendKeeps
    <2>3. reactions' = [reactions EXCEPT ![p] = Append(reactions[p], r)] /\ microtasks' = microtasks
        BY <1>1 DEF Attach
    <2>4. QED
        BY <2>2, <2>3 DEF Attach, HeapOK
<1>2. CASE state[p] # "pending"
    <2>1. state[p] \in Outcomes
        BY <1>2 DEF HeapOK
    <2>2. Job(r, state[p]) \in UsableJobs
        BY <2>1 DEF Job, UsableJobs
    <2>3. microtasks' = Append(microtasks, Job(r, state[p])) /\ reactions' = reactions
        BY <1>2 DEF Attach
    <2>4. Append(microtasks, Job(r, state[p])) \in Seq(UsableJobs)
        BY <2>2, AppendKeeps DEF HeapOK
    <2>5. QED
        BY <2>3, <2>4 DEF Attach, HeapOK
<1>3. QED
    BY <1>1, <1>2

\* Resolve: an adoption, or the promise settles.
LEMMA ResolveKeeps ==
    ASSUME HeapOK, NEW p \in Ids, NEW x \in Ids \cup {0}, Resolve(p, x), x # 0 => state[x] # "none"
    PROVE  /\ Settled(state', microtasks', unhandled') /\ reactions' \in [Ids -> Seq(Usable)]
           /\ hadHandler \subseteq hadHandler'
<1>1. CASE state[p] = "pending" /\ x # 0 /\ x # p
    <2>1. Attach(x, Adoption(p)) /\ state' = state /\ unhandled' = unhandled
        BY <1>1 DEF Resolve
    <2>2. x \in Ids /\ p # 0
        BY <1>1 DEF Ids
    <2>3. Adoption(p) \in Usable
        BY <2>2 DEF Adoption, Usable, Reactions
    <2>4. reactions' \in [Ids -> Seq(Usable)] /\ microtasks' \in Seq(UsableJobs) /\ hadHandler \subseteq hadHandler'
        BY <1>1, <2>1, <2>2, <2>3, AttachKeeps
    <2>5. QED
        BY <2>1, <2>4 DEF Settled, HeapOK
<1>2. CASE ~(state[p] = "pending" /\ x # 0 /\ x # p)
    <2>1. PICK o \in Outcomes : Settle(p, o, microtasks)
        BY <1>2 DEF Resolve, Outcomes
    <2>2. hadHandler' = hadHandler
        BY <1>2 DEF Resolve
    <2>3. QED
        BY <2>1, <2>2, SettleKeeps DEF HeapOK
<1>3. QED
    BY <1>1, <1>2

-----------------------------------------------------------------------------
(* One action at a time                                                     *)

\* A step that settles and attaches, and creates no promise.
LEMMA HeapStep ==
    ASSUME IInv, Settled(state', microtasks', unhandled'), reactions' \in [Ids -> Seq(Usable)],
           hadHandler \subseteq hadHandler', reported' = reported, judging' = judging, made' = made
    PROVE  HeapOK' /\ Fresh' /\ Tracked' /\ Kept
<1>1. HeapOK'
    BY DEF HeapOK, Settled
<1>2. Fresh'
    BY DEF IInv, HeapOK, Fresh, Settled, Outcomes
<1>3. Tracked'
    BY DEF IInv, Tracked, Settled
<1>4. Kept
    BY DEF Kept, Settled, Outcomes
<1>5. QED
    BY <1>1, <1>2, <1>3, <1>4

\* A step that leaves the promises alone and moves no rejection.
LEMMA ControlStep ==
    ASSUME IInv, UNCHANGED heapVars, microtasks' \in Seq(UsableJobs), UNCHANGED <<reported, judging, made>>
    PROVE  HeapOK' /\ Fresh' /\ Tracked' /\ Kept
BY DEF IInv, HeapOK, Fresh, Tracked, heapVars, In, Kept

\* A new promise, pending.
LEMMA NewPromise ==
    ASSUME IInv, made < MaxPromises, made' = made + 1, state' = [state EXCEPT ![made'] = "pending"]
    PROVE  /\ made' \in Ids /\ made' \in 0..MaxPromises
           /\ state' \in [Ids -> {"none", "pending"} \cup Outcomes]
           /\ Fresh'
           /\ \A p \in Ids : state'[p] = "rejected" => state[p] = "rejected"
           /\ Kept
<1>1. made \in 0..MaxPromises /\ state \in [Ids -> {"none", "pending"} \cup Outcomes] /\ Fresh
    BY DEF IInv, HeapOK, ControlOK
<1>2. made' \in Ids /\ made' \in 0..MaxPromises
    BY <1>1, PromiseConstants DEF Ids
<1>3. state' \in [Ids -> {"none", "pending"} \cup Outcomes]
    BY <1>1
<1>4. \A p \in Ids : state'[p] = IF p = made' THEN "pending" ELSE state[p]
    BY <1>1
<1>5. \A p \in Ids : p > made' <=> p > made /\ p # made'
    BY <1>1, PromiseConstants DEF Ids
<1>6. Fresh'
    <2>1. ~(made' > made')
        BY <1>2, PromiseConstants
    <2>2. QED
        BY <1>1, <1>4, <1>5, <2>1 DEF Fresh
<1>7. Kept
    <2>1. state[made'] = "none"
        BY <1>1, <1>2, PromiseConstants DEF Fresh
    <2>2. QED
        BY <1>4, <2>1 DEF Kept, Outcomes
<1>8. QED
    BY <1>2, <1>3, <1>4, <1>6, <1>7

LEMMA InitHolds == Init => IInv
<1> SUFFICES ASSUME Init PROVE IInv
    OBVIOUS
<1> USE DEF Init
<1>1. HeapOK
    BY DEF HeapOK
<1>2. ControlOK
    BY PromiseConstants DEF ControlOK
<1>3. Fresh
    BY DEF Fresh, Ids
<1>4. Tracked
    BY DEF Tracked
<1>5. Judged
    BY DEF Judged, Flushing
<1>6. QED
    BY <1>1, <1>2, <1>3, <1>4, <1>5 DEF IInv

\* JS code creates, settles, attaches and queues.
LEMMA JsCodeKeeps == IInv /\ JsCode => IInv' /\ Kept
<1> SUFFICES ASSUME IInv, JsCode PROVE IInv' /\ Kept
    OBVIOUS
<1>0. /\ pc = "code" /\ HeapOK /\ ControlOK
      /\ made \in 0..MaxPromises /\ \A p \in Created : p \in Ids /\ state[p] # "none"
    <2>1. pc = "code"
        BY DEF JsCode, Create, CallNextTick, CallQueueMicrotask, CallResolve, CallReject, CallThen, Code
    <2>2. \A p \in Created : p \in Ids /\ state[p] # "none"
        BY PromiseConstants DEF IInv, ControlOK, Fresh, Created, Ids
    <2>3. QED
        BY <2>1, <2>2 DEF IInv, ControlOK
\* None of them moves the control, and only Create and then create.
<1>1. UNCHANGED <<pc, back, settles, judging, dispatched, reported>> /\ nextTicks' \in Nat
    <2>1. UNCHANGED runVars /\ UNCHANGED flushVars /\ nextTicks' \in {nextTicks, nextTicks + 1}
        <3>1. CASE Create
            BY <3>1 DEF Create
        <3>2. CASE CallNextTick
            BY <3>2 DEF CallNextTick
        <3>3. CASE CallQueueMicrotask
            BY <3>3 DEF CallQueueMicrotask
        <3>4. ASSUME NEW p \in Created, NEW x \in Created \cup {0}, CallResolve(p, x)
              PROVE  UNCHANGED runVars /\ UNCHANGED flushVars /\ nextTicks' \in {nextTicks, nextTicks + 1}
            BY <3>4 DEF CallResolve
        <3>5. ASSUME NEW p \in Created, CallReject(p)
              PROVE  UNCHANGED runVars /\ UNCHANGED flushVars /\ nextTicks' \in {nextTicks, nextTicks + 1}
            BY <3>5 DEF CallReject
        <3>6. ASSUME NEW p \in Created, NEW f \in BOOLEAN, NEW r \in BOOLEAN, CallThen(p, f, r)
              PROVE  UNCHANGED runVars /\ UNCHANGED flushVars /\ nextTicks' \in {nextTicks, nextTicks + 1}
            BY <3>6 DEF CallThen
        <3>7. QED
            BY <3>1, <3>2, <3>3, <3>4, <3>5, <3>6 DEF JsCode
    <2>2. QED
        BY <1>0, <2>1 DEF runVars, flushVars, ControlOK
<1>2. Judged'
    BY <1>0, <1>1 DEF IInv, Judged, Flushing
<1>3. made' \in 0..MaxPromises => ControlOK'
    BY <1>0, <1>1 DEF ControlOK
<1>4. CASE Create
    <2>1. /\ made < MaxPromises /\ made' = made + 1 /\ state' = [state EXCEPT ![made'] = "pending"]
          /\ UNCHANGED <<reactions, hadHandler, unhandled, microtasks>>
        BY <1>4 DEF Create
    <2>2. /\ made' \in 0..MaxPromises /\ state' \in [Ids -> {"none", "pending"} \cup Outcomes] /\ Fresh'
          /\ \A p \in Ids : state'[p] = "rejected" => state[p] = "rejected"
          /\ Kept
        BY <2>1, NewPromise
    <2>3. HeapOK'
        BY <1>0, <2>1, <2>2 DEF HeapOK
    <2>4. Tracked'
        BY <1>1, <2>1, <2>2 DEF IInv, Tracked, In
    <2>5. QED
        BY <1>2, <1>3, <2>2, <2>3, <2>4 DEF IInv
<1>5. ASSUME NEW p \in Created, NEW x \in Created \cup {0}, CallResolve(p, x) PROVE IInv' /\ Kept
    <2>1. Resolve(p, x) /\ made' = made
        BY <1>5 DEF CallResolve
    <2>2. x \in Ids \cup {0} /\ (x # 0 => state[x] # "none")
        BY <1>0
    <2>3. /\ Settled(state', microtasks', unhandled') /\ reactions' \in [Ids -> Seq(Usable)]
          /\ hadHandler \subseteq hadHandler'
        BY <1>0, <2>1, <2>2, ResolveKeeps
    <2>4. HeapOK' /\ Fresh' /\ Tracked' /\ Kept
        BY <1>1, <2>1, <2>3, HeapStep
    <2>5. QED
        BY <1>0, <1>2, <1>3, <2>1, <2>4 DEF IInv
<1>6. ASSUME NEW p \in Created, CallReject(p) PROVE IInv' /\ Kept
    <2>1. Settle(p, "rejected", microtasks) /\ made' = made /\ hadHandler' = hadHandler
        BY <1>6 DEF CallReject
    <2>2. Settled(state', microtasks', unhandled') /\ reactions' \in [Ids -> Seq(Usable)]
        <3>1. microtasks \in Seq(UsableJobs) /\ "rejected" \in Outcomes
            BY <1>0 DEF HeapOK, Outcomes
        <3>2. QED
            BY <1>0, <2>1, <3>1, SettleKeeps
    <2>3. HeapOK' /\ Fresh' /\ Tracked' /\ Kept
        BY <1>1, <2>1, <2>2, HeapStep
    <2>4. QED
        BY <1>0, <1>2, <1>3, <2>1, <2>3 DEF IInv
<1>7. ASSUME NEW p \in Created, NEW f \in BOOLEAN, NEW r \in BOOLEAN, CallThen(p, f, r) PROVE IInv' /\ Kept
    <2> DEFINE e == [f |-> f, r |-> r, derived |-> made', adopter |-> 0]
    <2>1. /\ made < MaxPromises /\ made' = made + 1 /\ state' = [state EXCEPT ![made'] = "pending"]
          /\ Attach(p, e) /\ unhandled' = unhandled
        BY <1>7 DEF CallThen
    <2>2. /\ made' \in Ids /\ made' \in 0..MaxPromises
          /\ state' \in [Ids -> {"none", "pending"} \cup Outcomes] /\ Fresh'
          /\ \A q \in Ids : state'[q] = "rejected" => state[q] = "rejected"
          /\ Kept
        BY <2>1, NewPromise
    <2>3. e \in Usable
        BY <2>2 DEF Usable, Reactions, Ids
    <2>4. /\ reactions' \in [Ids -> Seq(Usable)] /\ microtasks' \in Seq(UsableJobs)
          /\ hadHandler \subseteq hadHandler'
        BY <1>0, <2>1, <2>3, AttachKeeps
    <2>5. HeapOK'
        BY <1>0, <2>1, <2>2, <2>4 DEF HeapOK
    <2>6. Tracked'
        BY <1>1, <2>1, <2>2, <2>4 DEF IInv, Tracked, In
    <2>7. QED
        BY <1>2, <1>3, <2>2, <2>5, <2>6 DEF IInv
<1>8. CASE CallNextTick
    <2>1. UNCHANGED heapVars /\ microtasks' = microtasks /\ made' = made
        BY <1>8 DEF CallNextTick
    <2>2. HeapOK' /\ Fresh' /\ Tracked' /\ Kept
        BY <1>0, <1>1, <2>1, ControlStep DEF HeapOK
    <2>3. QED
        BY <1>0, <1>2, <1>3, <2>1, <2>2 DEF IInv
<1>9. CASE CallQueueMicrotask
    <2>1. UNCHANGED heapVars /\ made' = made /\ microtasks' = Append(microtasks, Job(Callback, "fulfilled"))
        BY <1>9 DEF CallQueueMicrotask
    <2>2. Job(Callback, "fulfilled") \in UsableJobs
        BY DEF Job, Callback, UsableJobs, Usable, Reactions, Outcomes
    <2>3. microtasks' \in Seq(UsableJobs)
        BY <1>0, <2>1, <2>2, AppendKeeps DEF HeapOK
    <2>4. HeapOK' /\ Fresh' /\ Tracked' /\ Kept
        BY <1>1, <2>1, <2>3, ControlStep
    <2>5. QED
        BY <1>0, <1>2, <1>3, <2>1, <2>4 DEF IInv
<1>10. QED
    BY <1>4, <1>5, <1>6, <1>7, <1>8, <1>9 DEF JsCode

\* A handler returns or throws, and the checkpoint goes on where it was.
LEMMA HandlerEnds ==
    ASSUME IInv, pc = "code", settles \in Ids, Goto(back), UNCHANGED <<flushVars, made, nextTicks>>,
           HeapOK' /\ Fresh' /\ Tracked' /\ Kept
    PROVE  IInv'
<1>1. ControlOK'
    BY DEF IInv, ControlOK, Goto, flushVars
<1>2. Judged'
    <2>1. pc' = back /\ back' = back /\ judging' = judging /\ dispatched' = dispatched
        BY DEF Goto, flushVars
    <2>2. back \in {"outer", "tick", "micro", "flush"} /\ Judged
        BY DEF IInv, ControlOK
    <2>3. QED
        BY <2>1, <2>2 DEF Judged, Flushing
<1>3. QED
    BY <1>1, <1>2 DEF IInv

\* The checkpoint: each queue in turn, then the flush.
LEMMA StepKeeps == IInv /\ Step => IInv' /\ Kept
<1> SUFFICES ASSUME IInv, Step PROVE IInv' /\ Kept
    OBVIOUS
<1>0. HeapOK /\ ControlOK /\ Fresh /\ Tracked /\ Judged
    BY DEF IInv
<1>1. ASSUME NEW x \in Created \cup {0}, Return(x) PROVE IInv' /\ Kept
    <2>1. /\ pc = "code" /\ settles \in Ids /\ Resolve(settles, x)
          /\ Goto(back) /\ UNCHANGED <<flushVars, made, nextTicks>>
        BY <1>0, <1>1 DEF Return, ControlOK
    <2>2. x \in Ids \cup {0} /\ (x # 0 => state[x] # "none")
        BY <1>0, PromiseConstants DEF ControlOK, Fresh, Created, Ids
    <2>3. /\ Settled(state', microtasks', unhandled') /\ reactions' \in [Ids -> Seq(Usable)]
          /\ hadHandler \subseteq hadHandler'
        BY <1>0, <2>1, <2>2, ResolveKeeps
    <2>4. reported' = reported /\ judging' = judging /\ made' = made
        BY <2>1 DEF flushVars
    <2>5. HeapOK' /\ Fresh' /\ Tracked' /\ Kept
        BY <2>3, <2>4, HeapStep
    <2>6. QED
        BY <2>1, <2>5, HandlerEnds
<1>2. CASE Throw
    <2>1. /\ pc = "code" /\ settles \in Ids /\ Settle(settles, "rejected", microtasks) /\ hadHandler' = hadHandler
          /\ Goto(back) /\ UNCHANGED <<flushVars, made, nextTicks>>
        BY <1>0, <1>2 DEF Throw, ControlOK
    <2>2. microtasks \in Seq(UsableJobs) /\ "rejected" \in Outcomes
        BY <1>0 DEF HeapOK, Outcomes
    <2>3. Settled(state', microtasks', unhandled') /\ reactions' \in [Ids -> Seq(Usable)]
        BY <1>0, <2>1, <2>2, SettleKeeps
    <2>4. reported' = reported /\ judging' = judging /\ made' = made
        BY <2>1 DEF flushVars
    <2>5. HeapOK' /\ Fresh' /\ Tracked' /\ Kept
        BY <2>1, <2>3, <2>4, HeapStep
    <2>6. QED
        BY <2>1, <2>5, HandlerEnds
<1>3. CASE RunJob
    <2> DEFINE job == Head(microtasks)
               r == job.reaction
    <2>1. /\ pc = "micro" /\ microtasks # <<>> /\ Tail(microtasks) \in Seq(UsableJobs)
          /\ r \in Usable /\ job.outcome \in Outcomes
        <3>1. pc = "micro" /\ microtasks # <<>>
            BY <1>3 DEF RunJob
        <3>2. Tail(microtasks) \in Seq(UsableJobs) /\ job \in UsableJobs
            BY <1>0, <3>1 DEF HeapOK
        <3>3. QED
            BY <3>1, <3>2 DEF UsableJobs
    <2>2. /\ r.adopter \in Ids \cup {0} /\ r.derived \in Ids \cup {0} /\ r.f \in BOOLEAN /\ r.r \in BOOLEAN
          /\ r.adopter # 0 \/ r.derived # 0 \/ (r.f /\ r.r)
        BY <2>1 DEF Usable, Reactions
    <2>3. UNCHANGED <<hadHandler, flushVars, made, nextTicks>>
        BY <1>3 DEF RunJob
    <2>4. reported' = reported /\ judging' = judging /\ made' = made /\ dispatched' = dispatched
        BY <2>3 DEF flushVars
    <2>5. \/ \E p \in Ids : Settle(p, job.outcome, Tail(microtasks)) /\ Goto("micro")
          \/ microtasks' = Tail(microtasks) /\ Enter("micro", r.derived) /\ UNCHANGED <<state, reactions, unhandled>>
        <3>1. CASE r.adopter # 0
            <4>1. r.adopter \in Ids
                BY <2>2, <3>1
            <4>2. Settle(r.adopter, job.outcome, Tail(microtasks)) /\ Goto("micro")
                BY <1>3, <3>1 DEF RunJob
            <4>3. QED
                BY <4>1, <4>2
        <3>2. CASE r.adopter = 0 /\ ~(IF job.outcome = "fulfilled" THEN r.f ELSE r.r)
            <4>1. r.derived \in Ids
                BY <2>2, <3>2
            <4>2. Settle(r.derived, job.outcome, Tail(microtasks)) /\ Goto("micro")
                BY <1>3, <3>2 DEF RunJob
            <4>3. QED
                BY <4>1, <4>2
        <3>3. CASE r.adopter = 0 /\ (IF job.outcome = "fulfilled" THEN r.f ELSE r.r)
            BY <1>3, <3>3 DEF RunJob
        <3>4. QED
            BY <3>1, <3>2, <3>3
    <2>6. Settled(state', microtasks', unhandled') /\ reactions' \in [Ids -> Seq(Usable)]
        <3>1. ASSUME NEW p \in Ids, Settle(p, job.outcome, Tail(microtasks))
              PROVE  Settled(state', microtasks', unhandled') /\ reactions' \in [Ids -> Seq(Usable)]
            BY <1>0, <2>1, <3>1, SettleKeeps
        <3>2. CASE microtasks' = Tail(microtasks) /\ UNCHANGED <<state, reactions, unhandled>>
            BY <1>0, <2>1, <3>2 DEF Settled, HeapOK
        <3>3. QED
            BY <2>5, <3>1, <3>2
    <2>7. HeapOK' /\ Fresh' /\ Tracked' /\ Kept
        BY <2>3, <2>4, <2>6, HeapStep
    <2>8. \/ pc' = "micro" /\ back' = back /\ settles' = settles
          \/ pc' = "code" /\ back' = "micro" /\ settles' = r.derived
        BY <2>5 DEF Goto, Enter
    <2>9. ControlOK'
        BY <1>0, <2>2, <2>3, <2>4, <2>8 DEF ControlOK
    <2>10. Judged'
        BY <1>0, <2>1, <2>4, <2>8 DEF Judged, Flushing
    <2>11. QED
        BY <2>7, <2>9, <2>10 DEF IInv
<1>4. CASE Outer
    <2>1. CASE nextTicks > 0 \/ microtasks # <<>>
        <3>1. /\ pc = "outer" /\ Goto("tick") /\ UNCHANGED heapVars
              /\ UNCHANGED <<judging, dispatched, reported, made, nextTicks, microtasks>>
            BY <1>4, <2>1 DEF Outer, heapVars
        <3>2. HeapOK' /\ Fresh' /\ Tracked' /\ Kept
            BY <1>0, <3>1, ControlStep DEF HeapOK
        <3>3. ControlOK' /\ Judged'
            BY <1>0, <3>1 DEF ControlOK, Judged, Flushing, Goto
        <3>4. QED
            BY <3>2, <3>3 DEF IInv
    <2>2. CASE nextTicks = 0 /\ microtasks = <<>>
        <3>1. /\ pc = "outer" /\ judging' = unhandled /\ unhandled' = <<>> /\ dispatched' = FALSE /\ Goto("flush")
              /\ UNCHANGED <<state, reactions, hadHandler, reported, made, nextTicks, microtasks>>
            BY <1>4, <2>2 DEF Outer
        <3>2. judging = <<>>
            BY <1>0, <3>1 DEF Judged, Flushing
        <3>3. HeapOK' /\ Fresh' /\ Kept
            BY <1>0, <3>1 DEF HeapOK, Fresh, Kept
        <3>4. Tracked'
            BY <1>0, <3>1, <3>2 DEF Tracked, In
        <3>5. ControlOK'
            BY <1>0, <3>1 DEF ControlOK, HeapOK, Goto
        <3>6. Judged'
            BY <2>2, <3>1 DEF Judged, Flushing, Empty, Goto
        <3>7. QED
            BY <3>3, <3>4, <3>5, <3>6 DEF IInv
    <2>3. QED
        BY <1>0, <2>1, <2>2 DEF ControlOK
<1>5. CASE RunTick
    <2>1. /\ pc = "tick" /\ nextTicks > 0 /\ nextTicks' = nextTicks - 1 /\ Enter("tick", 0)
          /\ UNCHANGED heapVars /\ UNCHANGED <<judging, dispatched, reported, made, microtasks>>
        BY <1>5 DEF RunTick, flushVars
    <2>2. HeapOK' /\ Fresh' /\ Tracked' /\ Kept
        BY <1>0, <2>1, ControlStep DEF HeapOK
    <2>3. ControlOK' /\ Judged'
        BY <1>0, <2>1 DEF ControlOK, Judged, Flushing, Enter
    <2>4. QED
        BY <2>2, <2>3 DEF IInv
<1>6. CASE TicksDone \/ JobsDone \/ FlushDone \/ Leave
    <2>1. UNCHANGED heapVars /\ UNCHANGED <<judging, dispatched, reported, made, nextTicks, microtasks, back, settles>>
        BY <1>6 DEF TicksDone, JobsDone, FlushDone, Leave, flushVars, Goto
    <2>2. HeapOK' /\ Fresh' /\ Tracked' /\ Kept
        BY <1>0, <2>1, ControlStep DEF HeapOK
    <2>3. \/ pc = "tick" /\ pc' = "micro"
          \/ pc = "micro" /\ pc' = "outer"
          \/ pc = "flush" /\ judging = <<>> /\ pc' = IF dispatched THEN "outer" ELSE "idle"
          \/ pc = "code" /\ pc' = back
        BY <1>6 DEF TicksDone, JobsDone, FlushDone, Leave, Goto
    <2>4. ControlOK'
        BY <1>0, <2>1, <2>3 DEF ControlOK
    <2>5. Judged'
        BY <1>0, <2>1, <2>3 DEF ControlOK, Judged, Flushing, Empty, heapVars
    <2>6. QED
        BY <2>2, <2>4, <2>5 DEF IInv
<1>7. CASE Judge
    <2> DEFINE p == Head(judging)
    <2>1. /\ pc = "flush" /\ judging # <<>> /\ judging' = Tail(judging) /\ UNCHANGED heapVars
          /\ UNCHANGED <<made, nextTicks, microtasks>>
        BY <1>7 DEF Judge
    <2>2. \/ p \in hadHandler \cup reported /\ Goto("flush") /\ reported' = reported /\ dispatched' = dispatched
          \/ reported' = reported \cup {p} /\ dispatched' = TRUE /\ Enter("flush", 0)
        BY <1>7 DEF Judge
    <2>3. /\ Tail(judging) \in Seq(Ids)
          /\ \A x \in Ids : In(x, judging) => x = p \/ In(x, Tail(judging))
        <3>1. judging \in Seq(Ids)
            BY <1>0 DEF ControlOK
        <3>2. ASSUME NEW x \in Ids, In(x, judging), x # p PROVE In(x, Tail(judging))
            <4>1. PICK n \in 1..Len(judging) : judging[n] = x
                BY <3>2 DEF In
            <4>2. n # 1
                BY <2>1, <3>1, <3>2, <4>1
            <4>3. n - 1 \in 1..Len(Tail(judging)) /\ Tail(judging)[n - 1] = judging[n]
                BY <2>1, <3>1, <4>2
            <4>4. QED
                BY <4>1, <4>3 DEF In
        <3>3. QED
            BY <2>1, <3>1, <3>2
    <2>4. HeapOK' /\ Fresh' /\ Kept
        BY <1>0, <2>1 DEF HeapOK, Fresh, heapVars, Kept
    <2>5. p \in hadHandler \/ p \in reported'
        BY <2>2
    <2>6. reported \subseteq reported'
        BY <2>2
    <2>7. Tracked'
        BY <1>0, <2>1, <2>3, <2>5, <2>6 DEF Tracked, heapVars
    <2>8. ControlOK' /\ Judged'
        BY <1>0, <2>1, <2>2, <2>3 DEF ControlOK, Judged, Flushing, Empty, Goto, Enter, heapVars
    <2>9. QED
        BY <2>4, <2>7, <2>8 DEF IInv
<1>8. QED
    BY <1>1, <1>2, <1>3, <1>4, <1>5, <1>6, <1>7 DEF Step

LEMMA RunTaskKeeps == IInv /\ RunTask => IInv' /\ Kept
<1> SUFFICES ASSUME IInv, RunTask PROVE IInv' /\ Kept
    OBVIOUS
<1>1. /\ pc = "idle" /\ Enter("outer", 0) /\ UNCHANGED heapVars
      /\ UNCHANGED <<judging, dispatched, reported, made, nextTicks, microtasks>>
    BY DEF RunTask, flushVars
<1>2. HeapOK' /\ Fresh' /\ Tracked' /\ Kept
    BY <1>1, ControlStep DEF IInv, HeapOK
<1>3. ControlOK' /\ Judged'
    BY <1>1 DEF IInv, ControlOK, Judged, Flushing, Enter
<1>4. QED
    BY <1>2, <1>3 DEF IInv

LEMMA StutterKeeps == IInv /\ UNCHANGED vars => IInv' /\ Kept
BY DEF Kept, IInv, vars, heapVars, flushVars, runVars, HeapOK, ControlOK, Fresh, Tracked, In, Judged, Flushing, Empty

\* The queues and the promises are well formed, and every rejection is
\* accounted for, in every state of drainJobQueues and the code it runs.
THEOREM Inductive == Spec => []IInv
<1>1. IInv /\ [Next]_vars => IInv'
    BY JsCodeKeeps, StepKeeps, RunTaskKeeps, StutterKeeps DEF Next
<1>2. QED
    BY InitHolds, <1>1, PTL DEF Spec

-----------------------------------------------------------------------------
(* What follows                                                             *)

\* When drainJobQueues returns to the event loop nothing is queued, and every
\* rejection without a handler has been reported (microtask.go:74-79).
THEOREM CheckpointIsComplete == Spec => []CheckpointComplete
<1>1. IInv => CheckpointComplete
    <2> SUFFICES ASSUME IInv, pc = "idle"
                 PROVE  Empty /\ \A p \in Created : state[p] = "rejected" => p \in hadHandler \cup reported
        BY DEF CheckpointComplete, Empty
    <2>1. Empty /\ judging = <<>>
        BY DEF IInv, Judged, Flushing
    <2>2. \A p \in Created : p \in Ids
        BY PromiseConstants DEF IInv, ControlOK, Created, Ids
    <2>3. QED
        BY <2>1, <2>2 DEF IInv, Tracked, In, Empty
<1>2. QED
    BY Inductive, <1>1, PTL

\* Fulfill and Reject settle a promise once; no later call, adoption, handler
\* or passthrough changes what it settled to.
THEOREM SettlesOnce == Spec => SettledForGood
<1>1. IInv /\ [Next]_vars => Kept
    BY JsCodeKeeps, StepKeeps, RunTaskKeeps, StutterKeeps DEF Next
<1>2. Kept => [\A p \in Ids : state[p] \in Outcomes => state'[p] = state[p]]_vars
    BY DEF Kept
<1>3. QED
    BY Inductive, <1>1, <1>2, PTL DEF Spec, SettledForGood

-----------------------------------------------------------------------------
(***************************************************************************)
(* No reaction is lost, run twice or overtaken, for any number of promises *)
(* and operations.                                                         *)
(***************************************************************************)
-----------------------------------------------------------------------------
(* The inductive invariant.  A promise derived by then is named by its      *)
(* place: the list of its source, the job queue, or the history of jobs     *)
(* run.  Places are compared by position, since a set of them cannot say    *)
(* that a step moved one.                                                   *)

Derived(q, n) == q[n].reaction.derived
SettledIn(st, src, d) == src[d] \in Ids /\ st[src[d]] \in Outcomes

\* Reactions wait for a pending promise, in the order of the then calls.
Held(st, rs, src) ==
    \A p \in Ids : \A n \in 1..Len(rs[p]) :
        /\ st[p] = "pending"
        /\ rs[p][n].derived # 0 => src[rs[p][n].derived] = p
HeldInOrder(rs) ==
    \A p \in Ids : \A m, n \in 1..Len(rs[p]) :
        m < n /\ rs[p][m].derived # 0 /\ rs[p][n].derived # 0 => rs[p][m].derived < rs[p][n].derived

\* Jobs are those of settled promises, each promise's in order, after those
\* that have run.
Due(st, q, src) == \A n \in 1..Len(q) : Derived(q, n) # 0 => SettledIn(st, src, Derived(q, n))
DueInOrder(q, src) ==
    \A m, n \in 1..Len(q) :
        m < n /\ Derived(q, m) # 0 /\ Derived(q, n) # 0 /\ src[Derived(q, m)] = src[Derived(q, n)]
            => Derived(q, m) < Derived(q, n)
Done(st, rn, src) == \A n \in 1..Len(rn) : SettledIn(st, src, rn[n])
DoneInOrder(rn, src) ==
    \A m, n \in 1..Len(rn) : m < n /\ src[rn[m]] = src[rn[n]] => rn[m] < rn[n]
DoneFirst(rn, q, src) ==
    \A m \in 1..Len(rn), n \in 1..Len(q) :
        Derived(q, n) # 0 /\ src[rn[m]] = src[Derived(q, n)] => rn[m] < Derived(q, n)

\* Every derived promise has its place.
Somewhere(rs, q, rn, src) ==
    \A d \in Ids : src[d] # 0 =>
        \/ \E n \in 1..Len(rs[src[d]]) : rs[src[d]][n].derived = d
        \/ \E n \in 1..Len(q) : Derived(q, n) = d
        \/ \E n \in 1..Len(rn) : rn[n] = d

Placed(st, rs, q, rn, src) ==
    /\ Held(st, rs, src) /\ HeldInOrder(rs)
    /\ Due(st, q, src) /\ DueInOrder(q, src)
    /\ Done(st, rn, src) /\ DoneInOrder(rn, src) /\ DoneFirst(rn, q, src)
    /\ Somewhere(rs, q, rn, src)

\* Only promises that exist are derived.
Born == \A d \in Ids : source[d] # 0 => state[d] # "none"

HistoryOK == source \in [Ids -> Ids \cup {0}] /\ ran \in Seq(Ids)
MarksOK ==
    /\ hadHandler \subseteq Ids /\ reported \subseteq Ids /\ dispatched \in BOOLEAN
    /\ ops \in 0..MaxOps /\ followed \in [Ids -> Ids \cup {0}]
RInv == IInv /\ HistoryOK /\ MarksOK /\ Born /\ Placed(state, reactions, microtasks, ran, source)

-----------------------------------------------------------------------------
(* Moves                                                                    *)

LEMMA Concatenation ==
    ASSUME NEW S, NEW s \in Seq(S), NEW u \in Seq(S)
    PROVE  /\ Len(s \o u) = Len(s) + Len(u) /\ Len(s) \in Nat /\ Len(u) \in Nat
           /\ \A n \in 1..Len(s) : n \in 1..Len(s \o u) /\ (s \o u)[n] = s[n]
           /\ \A n \in 1..Len(u) : Len(s) + n \in 1..Len(s \o u) /\ (s \o u)[Len(s) + n] = u[n]
           /\ \A n \in 1..Len(s \o u) : n \in 1..Len(s) \/ (n - Len(s) \in 1..Len(u) /\ n > Len(s))
OBVIOUS

\* The head of the job queue runs.
LEMMA Pop ==
    ASSUME HeapOK, HistoryOK, microtasks # <<>>,
           Placed(state, reactions, microtasks, ran, source),
           NEW rn, rn = IF Derived(microtasks, 1) # 0 THEN Append(ran, Derived(microtasks, 1)) ELSE ran
    PROVE  rn \in Seq(Ids) /\ Placed(state, reactions, Tail(microtasks), rn, source)
<1> DEFINE t == Tail(microtasks)
           h == Derived(microtasks, 1)
<1>1. /\ microtasks \in Seq(UsableJobs) /\ t \in Seq(UsableJobs)
      /\ Len(microtasks) \in Nat /\ 1 \in 1..Len(microtasks) /\ Len(t) = Len(microtasks) - 1
      /\ \A n \in 1..Len(t) : n + 1 \in 1..Len(microtasks) /\ t[n] = microtasks[n + 1]
      /\ \A n \in 1..Len(microtasks) : n # 1 => n - 1 \in 1..Len(t) /\ t[n - 1] = microtasks[n]
    BY DEF HeapOK
<1>2. \A n \in 1..Len(t) : Derived(t, n) = Derived(microtasks, n + 1)
    BY <1>1 DEF Derived
<1>3. \A n \in 1..Len(microtasks) : Derived(microtasks, n) \in Ids \cup {0}
    <2> SUFFICES ASSUME NEW n \in 1..Len(microtasks) PROVE microtasks[n].reaction.derived \in Ids \cup {0}
        BY DEF Derived
    <2>1. microtasks[n] \in UsableJobs
        BY <1>1
    <2>2. QED
        BY <2>1 DEF UsableJobs, Usable, Reactions
<1>4. /\ rn \in Seq(Ids) /\ Len(ran) \in Nat
      /\ \A n \in 1..Len(ran) : n \in 1..Len(rn) /\ rn[n] = ran[n]
      /\ \A n \in 1..Len(rn) : n \in 1..Len(ran) \/ (n = Len(ran) + 1 /\ rn[n] = h /\ h # 0)
      /\ h # 0 => Len(ran) + 1 \in 1..Len(rn) /\ rn[Len(ran) + 1] = h
    <2>1. h \in Ids \cup {0} /\ ran \in Seq(Ids)
        BY <1>1, <1>3 DEF HistoryOK
    <2>2. CASE h # 0
        BY <2>1, <2>2
    <2>3. CASE h = 0
        BY <2>1, <2>3
    <2>4. QED
        BY <2>2, <2>3
<1> USE DEF Placed
<1>5. Due(state, t, source)
    BY <1>1, <1>2 DEF Due
<1>6. DueInOrder(t, source)
    <2> SUFFICES ASSUME NEW m \in 1..Len(t), NEW n \in 1..Len(t), m < n, Derived(t, m) # 0, Derived(t, n) # 0,
                        source[Derived(t, m)] = source[Derived(t, n)]
                 PROVE  Derived(t, m) < Derived(t, n)
        BY DEF DueInOrder
    <2>1. m + 1 \in 1..Len(microtasks) /\ n + 1 \in 1..Len(microtasks) /\ m + 1 < n + 1
        BY <1>1
    <2>2. QED
        BY <1>2, <2>1 DEF DueInOrder
<1>7. Done(state, rn, source)
    BY <1>1, <1>4 DEF Due, Done
<1>8. DoneInOrder(rn, source)
    <2> SUFFICES ASSUME NEW m \in 1..Len(rn), NEW n \in 1..Len(rn), m < n, source[rn[m]] = source[rn[n]]
                 PROVE  rn[m] < rn[n]
        BY DEF DoneInOrder
    <2>1. m \in 1..Len(ran) /\ rn[m] = ran[m]
        BY <1>4
    <2>2. CASE n \in 1..Len(ran)
        BY <1>4, <2>1, <2>2 DEF DoneInOrder
    <2>3. CASE rn[n] = h /\ h # 0
        BY <1>1, <2>1, <2>3 DEF DoneFirst
    <2>4. QED
        BY <1>4, <2>2, <2>3
<1>9. DoneFirst(rn, t, source)
    <2> SUFFICES ASSUME NEW m \in 1..Len(rn), NEW n \in 1..Len(t), Derived(t, n) # 0,
                        source[rn[m]] = source[Derived(t, n)]
                 PROVE  rn[m] < Derived(t, n)
        BY DEF DoneFirst
    <2>1. n + 1 \in 1..Len(microtasks) /\ 1 < n + 1 /\ Derived(t, n) = Derived(microtasks, n + 1)
        BY <1>1, <1>2
    <2>2. CASE m \in 1..Len(ran)
        BY <1>4, <2>1, <2>2 DEF DoneFirst
    <2>3. CASE rn[m] = h /\ h # 0
        BY <1>1, <2>1, <2>3 DEF DueInOrder
    <2>4. QED
        BY <1>4, <2>2, <2>3
<1>10. Somewhere(reactions, t, rn, source)
    <2> SUFFICES ASSUME NEW d \in Ids, source[d] # 0,
                        ~ \E n \in 1..Len(reactions[source[d]]) : reactions[source[d]][n].derived = d
                 PROVE  (\E n \in 1..Len(t) : Derived(t, n) = d) \/ (\E n \in 1..Len(rn) : rn[n] = d)
        BY DEF Somewhere
    <2>1. CASE \E n \in 1..Len(microtasks) : Derived(microtasks, n) = d
        <3>1. PICK n \in 1..Len(microtasks) : Derived(microtasks, n) = d
            BY <2>1
        <3>2. CASE n = 1
            <4>1. h = d /\ h # 0
                BY <3>1, <3>2 DEF Ids
            <4>2. QED
                BY <1>4, <4>1
        <3>3. CASE n # 1
            <4>1. n - 1 \in 1..Len(t) /\ Derived(t, n - 1) = d
                BY <1>1, <3>1, <3>3 DEF Derived
            <4>2. QED
                BY <4>1
        <3>4. QED
            BY <3>2, <3>3
    <2>2. CASE \E n \in 1..Len(ran) : ran[n] = d
        BY <1>4, <2>2
    <2>3. QED
        BY <2>1, <2>2 DEF Somewhere
<1>11. QED
    BY <1>4, <1>5, <1>6, <1>7, <1>8, <1>9, <1>10

\* A promise settles and its reactions are scheduled.
LEMMA Schedule ==
    ASSUME HeapOK, HistoryOK, NEW p \in Ids, state[p] = "pending", NEW o \in Outcomes,
           NEW q \in Seq(UsableJobs), NEW rn \in Seq(Ids), Placed(state, reactions, q, rn, source)
    PROVE  Placed([state EXCEPT ![p] = o], [reactions EXCEPT ![p] = <<>>], Trigger(p, o, q), rn, source)
<1> DEFINE st == [state EXCEPT ![p] = o]
           rs == [reactions EXCEPT ![p] = <<>>]
           js == [n \in 1..Len(reactions[p]) |-> Job(reactions[p][n], o)]
           t == Trigger(p, o, q)
           L == Len(q)
<1>1. reactions[p] \in Seq(Usable) /\ Len(reactions[p]) \in Nat /\ L \in Nat
    BY DEF HeapOK
<1>2. js \in Seq(UsableJobs)
    <2>1. \A n \in 1..Len(reactions[p]) : Job(reactions[p][n], o) \in UsableJobs
        BY <1>1 DEF Job, UsableJobs
    <2>2. QED
        BY <1>1, <2>1
<1>3. Len(js) = Len(reactions[p]) /\ \A n \in 1..Len(reactions[p]) : js[n] = Job(reactions[p][n], o)
    BY <1>1
<1>4. /\ t = q \o js /\ Len(t) = L + Len(reactions[p])
      /\ \A n \in 1..L : n \in 1..Len(t) /\ t[n] = q[n]
      /\ \A n \in 1..Len(reactions[p]) : L + n \in 1..Len(t) /\ t[L + n] = js[n]
      /\ \A n \in 1..Len(t) : n \in 1..L \/ (n - L \in 1..Len(reactions[p]) /\ n > L)
    <2>1. t = q \o js
        BY DEF Trigger
    <2> HIDE DEF js
    <2>2. QED
        <3>1. /\ Len(q \o js) = L + Len(js)
              /\ \A n \in 1..L : n \in 1..Len(q \o js) /\ (q \o js)[n] = q[n]
              /\ \A n \in 1..Len(js) : L + n \in 1..Len(q \o js) /\ (q \o js)[L + n] = js[n]
              /\ \A n \in 1..Len(q \o js) : n \in 1..L \/ (n - L \in 1..Len(js) /\ n > L)
            BY <1>2, Concatenation
        <3>2. QED
            BY <1>3, <2>1, <3>1
<1>5. /\ \A n \in 1..L : Derived(t, n) = Derived(q, n)
      /\ \A n \in 1..Len(reactions[p]) : Derived(t, L + n) = reactions[p][n].derived
    BY <1>3, <1>4 DEF Derived, Job
<1>6. \A n \in 1..Len(t) : n \notin 1..L =>
        /\ n - L \in 1..Len(reactions[p]) /\ n > L
        /\ Derived(t, n) = reactions[p][n - L].derived
    <2> SUFFICES ASSUME NEW n \in 1..Len(t), n \notin 1..L
                 PROVE  /\ n - L \in 1..Len(reactions[p]) /\ n > L
                        /\ Derived(t, n) = reactions[p][n - L].derived
        OBVIOUS
    <2>1. n - L \in 1..Len(reactions[p]) /\ n > L
        BY <1>4
    <2>2. n = L + (n - L)
        BY <1>1
    <2>3. QED
        BY <1>5, <2>1, <2>2
<1>7. /\ \A x \in Ids : st[x] = IF x = p THEN o ELSE state[x]
      /\ \A x \in Ids : x # p => rs[x] = reactions[x]
      /\ rs[p] = <<>>
    BY DEF HeapOK
<1>8. L = Len(q) /\ o # "pending" /\ "pending" \notin Outcomes
    BY DEF Ids, Outcomes
<1> HIDE DEF st, rs, js, t, L
<1> USE DEF Placed
\* What is new in the queue comes from p, and nothing else in it does.
<1>9. \A n \in 1..Len(t) : Derived(t, n) # 0 =>
        IF n \in 1..L THEN SettledIn(state, source, Derived(t, n)) ELSE source[Derived(t, n)] = p
    BY <1>5, <1>6, <1>8 DEF Due, Held
<1>10. \A d : SettledIn(state, source, d) => source[d] # p /\ SettledIn(st, source, d)
    BY <1>7, <1>8 DEF SettledIn
<1>11. Held(st, rs, source) /\ HeldInOrder(rs)
    <2>1. \A x \in Ids : \A n \in 1..Len(rs[x]) : x # p
        BY <1>7
    <2>2. QED
        BY <1>7, <2>1 DEF Held, HeldInOrder
<1>12. Due(st, t, source)
    BY <1>7, <1>9, <1>10 DEF Due, SettledIn
<1>13. DueInOrder(t, source)
    <2> SUFFICES ASSUME NEW m \in 1..Len(t), NEW n \in 1..Len(t), m < n, Derived(t, m) # 0, Derived(t, n) # 0,
                        source[Derived(t, m)] = source[Derived(t, n)]
                 PROVE  Derived(t, m) < Derived(t, n)
        BY DEF DueInOrder
    <2>1. CASE m \in 1..L /\ n \in 1..L
        BY <1>5, <1>8, <2>1 DEF DueInOrder
    <2>2. CASE m \notin 1..L /\ n \notin 1..L
        <3>1. m - L < n - L
            BY <1>1, <1>4
        <3>2. QED
            BY <1>6, <2>2, <3>1 DEF HeldInOrder
    <2>3. CASE ~(m \in 1..L <=> n \in 1..L)
        BY <1>9, <1>10, <2>3
    <2>4. QED
        BY <2>1, <2>2, <2>3
<1>14. Done(st, rn, source) /\ DoneInOrder(rn, source)
    BY <1>10 DEF Done
<1>15. DoneFirst(rn, t, source)
    <2> SUFFICES ASSUME NEW m \in 1..Len(rn), NEW n \in 1..Len(t), Derived(t, n) # 0,
                        source[rn[m]] = source[Derived(t, n)]
                 PROVE  rn[m] < Derived(t, n)
        BY DEF DoneFirst
    <2>1. CASE n \in 1..L
        BY <1>5, <1>8, <2>1 DEF DoneFirst
    <2>2. CASE n \notin 1..L
        BY <1>9, <1>10, <2>2 DEF Done
    <2>3. QED
        BY <2>1, <2>2
<1>16. Somewhere(rs, t, rn, source)
    <2> SUFFICES ASSUME NEW d \in Ids, source[d] # 0, ~ \E n \in 1..Len(rn) : rn[n] = d
                 PROVE  \/ \E n \in 1..Len(rs[source[d]]) : rs[source[d]][n].derived = d
                        \/ \E n \in 1..Len(t) : Derived(t, n) = d
        BY DEF Somewhere
    <2>0. source[d] \in Ids
        BY DEF HistoryOK
    <2>1. CASE \E n \in 1..L : Derived(q, n) = d
        BY <1>4, <1>5, <2>1
    <2>2. CASE \E n \in 1..Len(reactions[source[d]]) : reactions[source[d]][n].derived = d
        <3>1. CASE source[d] = p
            BY <1>4, <1>5, <2>2, <3>1
        <3>2. CASE source[d] # p
            BY <1>7, <2>0, <2>2, <3>2
        <3>3. QED
            BY <3>1, <3>2
    <2>3. QED
        BY <2>1, <2>2 DEF Somewhere, L
<1>17. QED
    BY <1>11, <1>12, <1>13, <1>14, <1>15, <1>16 DEF st, rs, t

LEMMA SettlePlaced ==
    ASSUME HeapOK, HistoryOK, NEW p \in Ids, NEW o \in Outcomes, NEW q \in Seq(UsableJobs), Settle(p, o, q),
           ran' \in Seq(Ids), Placed(state, reactions, q, ran', source), source' = source
    PROVE  Placed(state', reactions', microtasks', ran', source')
<1>1. CASE state[p] # "pending"
    BY <1>1 DEF Settle
<1>2. CASE state[p] = "pending"
    <2>1. /\ state' = [state EXCEPT ![p] = o] /\ reactions' = [reactions EXCEPT ![p] = <<>>]
          /\ microtasks' = Trigger(p, o, q)
        BY <1>2 DEF Settle
    <2>2. Placed([state EXCEPT ![p] = o], [reactions EXCEPT ![p] = <<>>], Trigger(p, o, q), ran', source)
        BY <1>2, Schedule
    <2>3. QED
        BY <2>1, <2>2
<1>3. QED
    BY <1>1, <1>2

\* Then: the new reaction, if it derives a promise, derives the newest one.
Extends(r, p, src) ==
    /\ r.derived = 0 => src = source
    /\ r.derived # 0 =>
        /\ source[r.derived] = 0 /\ \A d \in Ids : source[d] # 0 => d < r.derived
        /\ src = [source EXCEPT ![r.derived] = p]

LEMMA AttachPlaced ==
    ASSUME HeapOK, HistoryOK, NEW p \in Ids, NEW r \in Usable, NEW src, Attach(p, r), state[p] # "none",
           Extends(r, p, src), Placed(state, reactions, microtasks, ran, source)
    PROVE  Placed(state, reactions', microtasks', ran, src)
<1> DEFINE e == r.derived
<1>1. e \in Ids \cup {0} /\ 0 \notin Ids
    BY DEF Usable, Reactions, Ids
<1>2. /\ \A d \in Ids : source[d] # 0 => src[d] = source[d] /\ (e # 0 => d < e)
      /\ \A d \in Ids : src[d] # 0 => source[d] # 0 \/ d = e
      /\ e # 0 => src[e] = p
    BY <1>1 DEF Extends, HistoryOK
<1> HIDE DEF e
<1> USE DEF Placed
\* The derived promises there were keep their sources and are older.
<1>3. \A x \in Ids : \A n \in 1..Len(reactions[x]) :
        LET d == reactions[x][n].derived IN d # 0 => src[d] = x /\ source[d] = x /\ (e # 0 => d < e)
    <2> SUFFICES ASSUME NEW x \in Ids, NEW n \in 1..Len(reactions[x]), reactions[x][n].derived # 0
                 PROVE  LET d == reactions[x][n].derived IN src[d] = x /\ source[d] = x /\ (e # 0 => d < e)
        OBVIOUS
    <2>1. reactions[x] \in Seq(Usable)
        BY DEF HeapOK
    <2>2. reactions[x][n] \in Usable
        BY <2>1
    <2>3. reactions[x][n].derived \in Ids
        BY <2>2 DEF Usable, Reactions
    <2>4. source[reactions[x][n].derived] = x /\ x # 0
        BY <1>1 DEF Held
    <2>5. QED
        BY <1>2, <2>3, <2>4
<1>4. \A n \in 1..Len(microtasks) :
        LET d == Derived(microtasks, n) IN
        d # 0 => SettledIn(state, source, d) /\ src[d] = source[d] /\ (e # 0 => d < e)
    <2> SUFFICES ASSUME NEW n \in 1..Len(microtasks), Derived(microtasks, n) # 0
                 PROVE  LET d == Derived(microtasks, n) IN
                        SettledIn(state, source, d) /\ src[d] = source[d] /\ (e # 0 => d < e)
        OBVIOUS
    <2>1. microtasks[n] \in UsableJobs
        BY DEF HeapOK
    <2>2. Derived(microtasks, n) \in Ids
        BY <2>1 DEF Derived, UsableJobs, Usable, Reactions
    <2>3. SettledIn(state, source, Derived(microtasks, n))
        BY DEF Due
    <2>4. source[Derived(microtasks, n)] # 0
        BY <1>1, <2>3 DEF SettledIn
    <2>5. QED
        BY <1>2, <2>2, <2>3, <2>4
<1>5. \A n \in 1..Len(ran) :
        ran[n] \in Ids /\ SettledIn(state, source, ran[n]) /\ src[ran[n]] = source[ran[n]] /\ (e # 0 => ran[n] < e)
    <2> SUFFICES ASSUME NEW n \in 1..Len(ran)
                 PROVE  /\ ran[n] \in Ids /\ SettledIn(state, source, ran[n]) /\ src[ran[n]] = source[ran[n]]
                        /\ e # 0 => ran[n] < e
        OBVIOUS
    <2>1. ran[n] \in Ids
        BY DEF HistoryOK
    <2>2. SettledIn(state, source, ran[n])
        BY DEF Done
    <2>3. source[ran[n]] # 0
        BY <1>1, <2>2 DEF SettledIn
    <2>4. QED
        BY <1>2, <2>1, <2>2, <2>3
<1>6. Done(state, ran, src) /\ DoneInOrder(ran, src)
    BY <1>5 DEF Done, DoneInOrder, SettledIn
<1>7. CASE state[p] = "pending"
    <2> DEFINE rs == [reactions EXCEPT ![p] = Append(reactions[p], r)]
               L == Len(reactions[p])
    <2>1. reactions' = rs /\ microtasks' = microtasks
        BY <1>7 DEF Attach
    <2>2. L = Len(reactions[p]) /\ L \in Nat /\ reactions[p] \in Seq(Usable)
        BY DEF HeapOK
    <2>3. /\ \A x \in Ids : x # p => rs[x] = reactions[x]
          /\ Len(rs[p]) = L + 1 /\ rs[p][L + 1] = r /\ \A n \in 1..L : rs[p][n] = reactions[p][n]
        <3>1. rs[p] = Append(reactions[p], r) /\ \A x \in Ids : x # p => rs[x] = reactions[x]
            BY DEF HeapOK
        <3>2. QED
            BY <2>2, <3>1
    <2> HIDE DEF rs, L
    <2>4. \A n \in 1..Len(rs[p]) : n \in 1..L \/ n = L + 1
        BY <2>2, <2>3
    <2>5. Held(state, rs, src)
        <3> SUFFICES ASSUME NEW x \in Ids, NEW n \in 1..Len(rs[x])
                     PROVE  state[x] = "pending" /\ (rs[x][n].derived # 0 => src[rs[x][n].derived] = x)
            BY DEF Held
        <3>1. CASE x # p
            BY <1>3, <2>3, <3>1 DEF Held
        <3>2. CASE x = p /\ n \in 1..L
            BY <1>3, <1>7, <2>2, <2>3, <3>2
        <3>3. CASE x = p /\ n = L + 1
            BY <1>2, <1>7, <2>3, <3>3 DEF e
        <3>4. QED
            BY <2>4, <3>1, <3>2, <3>3
    <2>6. HeldInOrder(rs)
        <3> SUFFICES ASSUME NEW x \in Ids, NEW m \in 1..Len(rs[x]), NEW n \in 1..Len(rs[x]), m < n,
                            rs[x][m].derived # 0, rs[x][n].derived # 0
                     PROVE  rs[x][m].derived < rs[x][n].derived
            BY DEF HeldInOrder
        <3>1. CASE x # p
            BY <2>3, <3>1 DEF HeldInOrder
        <3>2. CASE x = p /\ m \in 1..L /\ n \in 1..L
            BY <2>2, <2>3, <3>2 DEF HeldInOrder
        <3>3. CASE x = p /\ m \in 1..L /\ n = L + 1
            BY <1>3, <2>2, <2>3, <3>3 DEF e
        <3>4. CASE x = p /\ m = L + 1
            BY <2>2, <2>3, <3>4
        <3>5. QED
            BY <2>4, <3>1, <3>2, <3>3, <3>4
    <2>7. Due(state, microtasks, src) /\ DueInOrder(microtasks, src) /\ DoneFirst(ran, microtasks, src)
        BY <1>4, <1>5 DEF Due, DueInOrder, DoneFirst, SettledIn
    <2>8. Somewhere(rs, microtasks, ran, src)
        <3> SUFFICES ASSUME NEW d \in Ids, src[d] # 0
                     PROVE  \/ \E n \in 1..Len(rs[src[d]]) : rs[src[d]][n].derived = d
                            \/ \E n \in 1..Len(microtasks) : Derived(microtasks, n) = d
                            \/ \E n \in 1..Len(ran) : ran[n] = d
            BY DEF Somewhere
        <3>1. CASE d = e
            <4>1. L + 1 \in 1..Len(rs[p]) /\ src[d] = p /\ rs[p][L + 1].derived = d
                BY <1>1, <1>2, <2>2, <2>3, <3>1 DEF e
            <4>2. QED
                BY <4>1
        <3>2. CASE source[d] # 0
            <4>1. src[d] = source[d] /\ source[d] \in Ids
                BY <1>2, <3>2 DEF HistoryOK
            <4>2. CASE \E n \in 1..Len(reactions[source[d]]) : reactions[source[d]][n].derived = d
                <5>1. PICK n \in 1..Len(reactions[source[d]]) : reactions[source[d]][n].derived = d
                    BY <4>2
                <5>2. n \in 1..Len(rs[source[d]]) /\ rs[source[d]][n].derived = d
                    BY <2>2, <2>3, <4>1, <5>1
                <5>3. QED
                    BY <4>1, <5>2
            <4>3. QED
                BY <3>2, <4>2 DEF Somewhere
        <3>3. QED
            BY <1>2, <3>1, <3>2
    <2>9. QED
        BY <1>6, <2>1, <2>5, <2>6, <2>7, <2>8
<1>8. CASE state[p] # "pending"
    <2> DEFINE q == Append(microtasks, Job(r, state[p]))
               L == Len(microtasks)
    <2>1. reactions' = reactions /\ microtasks' = q /\ state[p] \in Outcomes
        BY <1>8 DEF Attach, HeapOK
    <2>2. L = Len(microtasks) /\ L \in Nat /\ microtasks \in Seq(UsableJobs)
        BY DEF HeapOK
    <2>3. /\ Len(q) = L + 1 /\ Derived(q, L + 1) = e
          /\ \A n \in 1..L : Derived(q, n) = Derived(microtasks, n)
        BY <2>2 DEF Derived, Job, e
    <2> HIDE DEF q, L
    <2>4. \A n \in 1..Len(q) : n \in 1..L \/ n = L + 1
        BY <2>2, <2>3
    <2>5. e # 0 => SettledIn(state, src, e)
        BY <1>2, <2>1 DEF SettledIn
    <2>6. Held(state, reactions, src) /\ HeldInOrder(reactions)
        BY <1>3 DEF Held
    <2>7. Due(state, q, src)
        BY <1>4, <2>2, <2>3, <2>4, <2>5 DEF Due, SettledIn
    <2>8. DueInOrder(q, src)
        <3> SUFFICES ASSUME NEW m \in 1..Len(q), NEW n \in 1..Len(q), m < n, Derived(q, m) # 0, Derived(q, n) # 0,
                            src[Derived(q, m)] = src[Derived(q, n)]
                     PROVE  Derived(q, m) < Derived(q, n)
            BY DEF DueInOrder
        <3>1. CASE m \in 1..L /\ n \in 1..L
            BY <1>4, <2>2, <2>3, <3>1 DEF DueInOrder
        <3>2. CASE m \in 1..L /\ n = L + 1
            BY <1>4, <2>2, <2>3, <3>2
        <3>3. CASE m = L + 1
            BY <2>2, <2>3, <3>3
        <3>4. QED
            BY <2>4, <3>1, <3>2, <3>3
    <2>9. DoneFirst(ran, q, src)
        <3> SUFFICES ASSUME NEW m \in 1..Len(ran), NEW n \in 1..Len(q), Derived(q, n) # 0,
                            src[ran[m]] = src[Derived(q, n)]
                     PROVE  ran[m] < Derived(q, n)
            BY DEF DoneFirst
        <3>1. CASE n \in 1..L
            BY <1>4, <1>5, <2>2, <2>3, <3>1 DEF DoneFirst
        <3>2. CASE n = L + 1
            BY <1>5, <2>3, <3>2
        <3>3. QED
            BY <2>4, <3>1, <3>2
    <2>10. Somewhere(reactions, q, ran, src)
        <3> SUFFICES ASSUME NEW d \in Ids, src[d] # 0
                     PROVE  \/ \E n \in 1..Len(reactions[src[d]]) : reactions[src[d]][n].derived = d
                            \/ \E n \in 1..Len(q) : Derived(q, n) = d
                            \/ \E n \in 1..Len(ran) : ran[n] = d
            BY DEF Somewhere
        <3>1. CASE d = e
            <4>1. L + 1 \in 1..Len(q) /\ Derived(q, L + 1) = d
                BY <2>2, <2>3, <3>1
            <4>2. QED
                BY <4>1
        <3>2. CASE source[d] # 0
            <4>1. src[d] = source[d]
                BY <1>2, <3>2
            <4>2. CASE \E n \in 1..Len(microtasks) : Derived(microtasks, n) = d
                <5>1. PICK n \in 1..Len(microtasks) : Derived(microtasks, n) = d
                    BY <4>2
                <5>2. n \in 1..Len(q) /\ Derived(q, n) = d
                    BY <2>2, <2>3, <5>1
                <5>3. QED
                    BY <5>2
            <4>3. QED
                BY <3>2, <4>1, <4>2 DEF Somewhere
        <3>3. QED
            BY <1>2, <3>1, <3>2
    <2>11. QED
        BY <1>6, <2>1, <2>6, <2>7, <2>8, <2>9, <2>10
<1>9. QED
    BY <1>7, <1>8

\* A new promise has no reactions and derives from nothing yet.
LEMMA BirthPlaced ==
    ASSUME HeapOK, NEW d \in Ids, state[d] = "none", NEW rs, NEW q, NEW rn, NEW src,
           Placed(state, rs, q, rn, src)
    PROVE  Placed([state EXCEPT ![d] = "pending"], rs, q, rn, src)
<1> DEFINE st == [state EXCEPT ![d] = "pending"]
<1>1. \A x \in Ids : state[x] # "none" => st[x] = state[x]
    BY DEF HeapOK
<1> HIDE DEF st
<1> USE DEF Placed
<1>2. Held(st, rs, src)
    BY <1>1 DEF Held
<1>3. Due(st, q, src) /\ Done(st, rn, src)
    BY <1>1 DEF Due, Done, SettledIn, Outcomes
<1>4. QED
    BY <1>2, <1>3 DEF st

LEMMA ResolvePlaced ==
    ASSUME HeapOK, HistoryOK, NEW p \in Ids, NEW x \in Ids \cup {0}, Resolve(p, x), x # 0 => state[x] # "none",
           Placed(state, reactions, microtasks, ran, source), UNCHANGED <<source, ran>>
    PROVE  Placed(state', reactions', microtasks', ran', source')
<1>1. CASE state[p] = "pending" /\ x # 0 /\ x # p
    <2>1. Attach(x, Adoption(p)) /\ state' = state /\ x \in Ids
        BY <1>1 DEF Resolve
    <2>2. Adoption(p) \in Usable /\ Adoption(p).derived = 0
        BY DEF Adoption, Usable, Reactions, Ids
    <2>3. Extends(Adoption(p), x, source)
        BY <2>2 DEF Extends
    <2>4. Placed(state, reactions', microtasks', ran, source)
        BY <1>1, <2>1, <2>2, <2>3, AttachPlaced
    <2>5. QED
        BY <2>1, <2>4
<1>2. CASE ~(state[p] = "pending" /\ x # 0 /\ x # p)
    <2>1. PICK o \in Outcomes : Settle(p, o, microtasks)
        BY <1>2 DEF Resolve, Outcomes
    <2>2. microtasks \in Seq(UsableJobs) /\ ran' \in Seq(Ids)
        BY DEF HeapOK, HistoryOK
    <2>3. QED
        BY <2>1, <2>2, SettlePlaced
<1>3. QED
    BY <1>1, <1>2

\* queueMicrotask: a job that derives nothing.
LEMMA CallbackPlaced ==
    ASSUME HeapOK, HistoryOK, Placed(state, reactions, microtasks, ran, source)
    PROVE  Placed(state, reactions, Append(microtasks, Job(Callback, "fulfilled")), ran, source)
<1> DEFINE q == Append(microtasks, Job(Callback, "fulfilled"))
           L == Len(microtasks)
<1>1. L = Len(microtasks) /\ L \in Nat /\ microtasks \in Seq(UsableJobs)
    BY DEF HeapOK
<1>2. /\ Len(q) = L + 1 /\ Derived(q, L + 1) = 0
      /\ \A n \in 1..L : n \in 1..Len(q) /\ Derived(q, n) = Derived(microtasks, n)
    BY <1>1 DEF Derived, Job, Callback
<1> HIDE DEF q, L
<1>3. \A n \in 1..Len(q) : Derived(q, n) # 0 =>
        n \in 1..Len(microtasks) /\ Derived(q, n) = Derived(microtasks, n)
    BY <1>1, <1>2
<1> USE DEF Placed
<1>4. Due(state, q, source)
    BY <1>3 DEF Due
<1>5. DueInOrder(q, source)
    BY <1>3 DEF DueInOrder
<1>6. DoneFirst(ran, q, source)
    BY <1>3 DEF DoneFirst
<1>7. Somewhere(reactions, q, ran, source)
    BY <1>1, <1>2 DEF Somewhere
<1>8. QED
    BY <1>4, <1>5, <1>6, <1>7 DEF q

-----------------------------------------------------------------------------
(* One action at a time                                                     *)

\* No step unmakes a promise.
LEMMA BornKept ==
    ASSUME IInv, IInv', Born, HistoryOK, source' = source, made' \in {made, made + 1}
    PROVE  Born'
BY PromiseConstants DEF IInv, ControlOK, Fresh, Born, Ids

LEMMA CodeFacts ==
    ASSUME IInv
    PROVE  /\ \A p \in Created : p \in Ids /\ state[p] # "none"
           /\ \A x \in Created \cup {0} : x \in Ids \cup {0} /\ (x # 0 => state[x] # "none")
           /\ microtasks \in Seq(UsableJobs) /\ HeapOK /\ made \in 0..MaxPromises
           /\ settles # 0 => settles \in Ids
BY PromiseConstants DEF IInv, HeapOK, ControlOK, Fresh, Created, Ids

\* The history and the places of reactions.
LEMMA JsCodePlaced ==
    ASSUME RInv, IInv', JsCode
    PROVE  HistoryOK' /\ Born' /\ Placed(state', reactions', microtasks', ran', source')
<1> USE CodeFacts DEF RInv
<1>1. ASSUME UNCHANGED <<source, ran>>, made' \in {made, made + 1}
      PROVE  HistoryOK' /\ Born' /\ ran' \in Seq(Ids)
    BY <1>1, BornKept DEF HistoryOK
<1>2. CASE Create
    <2>1. /\ state' = [state EXCEPT ![made + 1] = "pending"] /\ made < MaxPromises /\ made' = made + 1
          /\ UNCHANGED <<reactions, microtasks, ran, source>>
        BY <1>2 DEF Create, histVars
    <2>2. made + 1 \in Ids /\ state[made + 1] = "none"
        BY <2>1, PromiseConstants DEF IInv, Fresh, Ids
    <2>3. Placed([state EXCEPT ![made + 1] = "pending"], reactions, microtasks, ran, source)
        BY <2>2, BirthPlaced
    <2>4. QED
        BY <1>1, <2>1, <2>3
<1>3. ASSUME NEW p \in Created, NEW x \in Created \cup {0}, CallResolve(p, x)
      PROVE  HistoryOK' /\ Born' /\ Placed(state', reactions', microtasks', ran', source')
    <2>1. Resolve(p, x) /\ UNCHANGED <<source, ran>> /\ made' = made
        BY <1>3 DEF CallResolve
    <2>2. Placed(state', reactions', microtasks', ran', source')
        BY <2>1, ResolvePlaced
    <2>3. QED
        BY <1>1, <2>1, <2>2
<1>4. ASSUME NEW p \in Created, CallReject(p)
      PROVE  HistoryOK' /\ Born' /\ Placed(state', reactions', microtasks', ran', source')
    <2>1. Settle(p, "rejected", microtasks) /\ UNCHANGED <<source, ran>> /\ made' = made
        BY <1>4 DEF CallReject, histVars
    <2>2. HistoryOK' /\ Born' /\ ran' \in Seq(Ids)
        BY <1>1, <2>1
    <2>3. Placed(state', reactions', microtasks', ran', source')
        BY <2>1, <2>2, SettlePlaced DEF Outcomes
    <2>4. QED
        BY <2>2, <2>3
<1>5. ASSUME NEW p \in Created, NEW f \in BOOLEAN, NEW r \in BOOLEAN, CallThen(p, f, r)
      PROVE  HistoryOK' /\ Born' /\ Placed(state', reactions', microtasks', ran', source')
    <2> DEFINE e == [f |-> f, r |-> r, derived |-> made + 1, adopter |-> 0]
    <2>1. /\ state' = [state EXCEPT ![made + 1] = "pending"] /\ made < MaxPromises /\ made' = made + 1
          /\ source' = [source EXCEPT ![made + 1] = p] /\ Attach(p, e) /\ ran' = ran
        BY <1>5 DEF CallThen
    <2>2. made + 1 \in Ids /\ state[made + 1] = "none" /\ made + 1 # 0 /\ p \in Ids /\ state[p] # "none"
        BY <2>1, PromiseConstants DEF IInv, Fresh, Ids
    <2>3. e \in Usable
        BY <2>2 DEF Usable, Reactions
    <2>4. Extends(e, p, source')
        <3>1. source[made + 1] = 0
            BY <2>2 DEF Born
        <3>2. \A d \in Ids : source[d] # 0 => d < made + 1
            BY PromiseConstants DEF IInv, Fresh, Born, Ids
        <3>3. QED
            BY <2>1, <2>2, <3>1, <3>2 DEF Extends
    <2>5. Placed(state, reactions', microtasks', ran, source')
        BY <2>1, <2>2, <2>3, <2>4, AttachPlaced
    <2>6. Placed([state EXCEPT ![made + 1] = "pending"], reactions', microtasks', ran, source')
        BY <2>2, <2>5, BirthPlaced
    <2>7. HistoryOK'
        BY <2>1, <2>2 DEF HistoryOK
    <2>8. Born'
        BY <2>1, <2>2 DEF Born, HeapOK, HistoryOK
    <2>9. QED
        BY <2>1, <2>6, <2>7, <2>8
<1>6. CASE CallNextTick
    <2>1. UNCHANGED <<state, reactions, microtasks, source, ran, made>>
        BY <1>6 DEF CallNextTick, heapVars, histVars
    <2>2. QED
        BY <1>1, <2>1
<1>7. CASE CallQueueMicrotask
    <2>1. UNCHANGED <<state, reactions, source, ran, made>> /\ microtasks' = Append(microtasks, Job(Callback, "fulfilled"))
        BY <1>7 DEF CallQueueMicrotask, heapVars, histVars
    <2>2. Placed(state, reactions, Append(microtasks, Job(Callback, "fulfilled")), ran, source)
        BY CallbackPlaced
    <2>3. QED
        BY <1>1, <2>1, <2>2
<1>8. QED
    BY <1>2, <1>3, <1>4, <1>5, <1>6, <1>7 DEF JsCode

LEMMA CheckpointPlaced ==
    ASSUME RInv, IInv', Step \/ RunTask \/ UNCHANGED vars
    PROVE  HistoryOK' /\ Born' /\ Placed(state', reactions', microtasks', ran', source')
<1> USE CodeFacts DEF RInv
<1>1. ASSUME source' = source, made' = made PROVE Born'
    BY <1>1, BornKept
<1>2. ASSUME NEW x \in Created \cup {0}, Return(x)
      PROVE  HistoryOK' /\ Born' /\ Placed(state', reactions', microtasks', ran', source')
    <2>1. settles \in Ids /\ Resolve(settles, x) /\ UNCHANGED <<source, ran>> /\ made' = made
        BY <1>2 DEF Return
    <2>2. Placed(state', reactions', microtasks', ran', source')
        BY <2>1, ResolvePlaced
    <2>3. QED
        BY <1>1, <2>1, <2>2 DEF HistoryOK
<1>3. CASE Throw
    <2>1. settles \in Ids /\ Settle(settles, "rejected", microtasks) /\ UNCHANGED <<source, ran>> /\ made' = made
        BY <1>3 DEF Throw, histVars
    <2>2. ran' \in Seq(Ids)
        BY <2>1 DEF HistoryOK
    <2>3. Placed(state', reactions', microtasks', ran', source')
        BY <2>1, <2>2, SettlePlaced DEF Outcomes
    <2>4. QED
        BY <1>1, <2>1, <2>3 DEF HistoryOK
<1>4. CASE RunJob
    <2> DEFINE job == Head(microtasks)
               r == job.reaction
    <2>1. /\ microtasks # <<>> /\ Tail(microtasks) \in Seq(UsableJobs)
          /\ job = microtasks[1] /\ job \in UsableJobs
        <3>1. microtasks # <<>>
            BY <1>4 DEF RunJob
        <3>2. QED
            BY <3>1
    <2>2. /\ ran' = IF r.derived # 0 THEN Append(ran, r.derived) ELSE ran
          /\ source' = source /\ made' = made
        BY <1>4 DEF RunJob
    <2>3. ran' = IF Derived(microtasks, 1) # 0 THEN Append(ran, Derived(microtasks, 1)) ELSE ran
        BY <2>1, <2>2 DEF Derived
    <2>4. ran' \in Seq(Ids) /\ Placed(state, reactions, Tail(microtasks), ran', source)
        BY <2>1, <2>3, Pop
    <2>5. \/ \E p \in Ids : Settle(p, job.outcome, Tail(microtasks))
          \/ microtasks' = Tail(microtasks) /\ UNCHANGED <<state, reactions>>
        <3>1. /\ r.adopter \in Ids \cup {0} /\ r.derived \in Ids \cup {0}
              /\ r.adopter # 0 \/ r.derived # 0 \/ (r.f /\ r.r)
            BY <2>1 DEF UsableJobs, Usable, Reactions
        <3>2. CASE r.adopter # 0
            <4>1. r.adopter \in Ids /\ Settle(r.adopter, job.outcome, Tail(microtasks))
                BY <1>4, <3>1, <3>2 DEF RunJob
            <4>2. QED
                BY <4>1
        <3>3. CASE r.adopter = 0 /\ ~(IF job.outcome = "fulfilled" THEN r.f ELSE r.r)
            <4>1. r.derived \in Ids /\ Settle(r.derived, job.outcome, Tail(microtasks))
                BY <1>4, <3>1, <3>3 DEF RunJob
            <4>2. QED
                BY <4>1
        <3>4. CASE r.adopter = 0 /\ (IF job.outcome = "fulfilled" THEN r.f ELSE r.r)
            BY <1>4, <3>4 DEF RunJob
        <3>5. QED
            BY <3>2, <3>3, <3>4
    <2>6. job.outcome \in Outcomes
        BY <2>1 DEF UsableJobs
    <2>7. Placed(state', reactions', microtasks', ran', source')
        <3>1. ASSUME NEW p \in Ids, Settle(p, job.outcome, Tail(microtasks))
              PROVE  Placed(state', reactions', microtasks', ran', source')
            BY <2>1, <2>2, <2>4, <2>6, <3>1, SettlePlaced
        <3>2. CASE microtasks' = Tail(microtasks) /\ UNCHANGED <<state, reactions>>
            BY <2>2, <2>4, <3>2
        <3>3. QED
            BY <2>5, <3>1, <3>2
    <2>8. QED
        BY <1>1, <2>2, <2>4, <2>7 DEF HistoryOK
<1>5. CASE Leave \/ Outer \/ RunTick \/ TicksDone \/ JobsDone \/ Judge \/ FlushDone \/ RunTask \/ UNCHANGED vars
    <2>1. UNCHANGED <<state, reactions, microtasks, ran, source, made>>
        BY <1>5 DEF Leave, Outer, RunTick, TicksDone, JobsDone, Judge, FlushDone, RunTask, vars, heapVars, histVars
    <2>2. QED
        BY <1>1, <2>1 DEF HistoryOK
<1>6. QED
    BY <1>2, <1>3, <1>4, <1>5 DEF Step

\* Marks and counts.
LEMMA MarksStep == RInv /\ [Next]_vars => MarksOK'
<1> SUFFICES ASSUME RInv, [Next]_vars PROVE MarksOK'
    OBVIOUS
<1> USE DEF RInv, MarksOK
<1>0. \A x \in Created \cup {0} : x \in Ids \cup {0}
    BY CodeFacts
<1>1. ASSUME NEW p \in Ids, NEW x \in Created \cup {0}, Resolve(p, x)
      PROVE  hadHandler' \subseteq Ids /\ followed' \in [Ids -> Ids \cup {0}]
    BY <1>0, <1>1 DEF Resolve, Attach
<1>2. ASSUME NEW p \in Created, NEW x \in Created \cup {0}, CallResolve(p, x) PROVE MarksOK'
    <2>1. p \in Ids
        BY CodeFacts
    <2>2. QED
        BY <1>1, <1>2, <2>1, PromiseConstants DEF CallResolve, Code, flushVars
<1>3. ASSUME NEW p \in Created, NEW f \in BOOLEAN, NEW r \in BOOLEAN, CallThen(p, f, r) PROVE MarksOK'
    <2>1. p \in Ids
        BY CodeFacts
    <2>2. QED
        BY <1>3, <2>1, PromiseConstants DEF CallThen, Attach, Code, flushVars
<1>4. ASSUME NEW p \in Created, CallReject(p) PROVE MarksOK'
    BY <1>4, PromiseConstants DEF CallReject, Code, flushVars, histVars
<1>5. CASE Create \/ CallNextTick \/ CallQueueMicrotask
    BY <1>5, PromiseConstants DEF Create, CallNextTick, CallQueueMicrotask, Code, heapVars, flushVars, histVars
<1>6. ASSUME NEW x \in Created \cup {0}, Return(x) PROVE MarksOK'
    <2>1. settles \in Ids
        BY <1>6, CodeFacts DEF Return
    <2>2. QED
        BY <1>1, <1>6, <2>1 DEF Return, flushVars
<1>7. CASE Judge
    <2>1. Head(judging) \in Ids
        BY <1>7 DEF Judge, IInv, ControlOK
    <2>2. QED
        BY <1>7, <2>1 DEF Judge, heapVars, histVars
<1>8. CASE Throw \/ RunJob \/ Outer
    BY <1>8 DEF Throw, RunJob, Outer, flushVars, histVars
<1>9. CASE Leave \/ RunTick \/ TicksDone \/ JobsDone \/ FlushDone \/ RunTask \/ UNCHANGED vars
    BY <1>9 DEF Leave, RunTick, TicksDone, JobsDone, FlushDone, RunTask, vars, heapVars, flushVars, histVars
<1>10. QED
    BY <1>2, <1>3, <1>4, <1>5, <1>6, <1>7, <1>8, <1>9 DEF Next, JsCode, Step

LEMMA ReactionsInvariant == Spec => []RInv
<1>1. Init => RInv
    <2> SUFFICES ASSUME Init PROVE RInv
        OBVIOUS
    <2>1. HistoryOK /\ MarksOK /\ Born
        <3>1. HistoryOK
            BY DEF Init, HistoryOK
        <3>2. MarksOK
            <4>1. 0 \in 0..MaxOps
                BY PromiseConstants
            <4>2. followed \in [Ids -> Ids \cup {0}]
                BY DEF Init
            <4>3. QED
                BY <4>1, <4>2 DEF Init, MarksOK
        <3>3. Born
            BY DEF Init, Born
        <3>4. QED
            BY <3>1, <3>2, <3>3
    <2>2. Placed(state, reactions, microtasks, ran, source)
        BY DEF Init, Placed, Held, HeldInOrder, Due, DueInOrder, Done, DoneInOrder, DoneFirst, Somewhere
    <2>3. QED
        BY <2>1, <2>2, InitHolds DEF RInv
<1>2. RInv /\ [Next]_vars => RInv'
    <2> SUFFICES ASSUME RInv, [Next]_vars PROVE RInv'
        OBVIOUS
    <2>1. IInv'
        BY JsCodeKeeps, StepKeeps, RunTaskKeeps, StutterKeeps DEF Next, RInv
    <2>2. HistoryOK' /\ Born' /\ Placed(state', reactions', microtasks', ran', source')
        BY <2>1, JsCodePlaced, CheckpointPlaced DEF Next
    <2>3. QED
        BY <2>1, <2>2, MarksStep DEF RInv
<1>3. QED
    BY <1>1, <1>2, PTL DEF Spec

-----------------------------------------------------------------------------
(* What follows                                                             *)

LEMMA Typed == RInv => TypeOK
<1> SUFFICES ASSUME RInv PROVE TypeOK
    OBVIOUS
<1>1. Usable \subseteq Reactions /\ UsableJobs \subseteq Jobs
    BY DEF Usable, UsableJobs, Jobs
<1>2. reactions \in [Ids -> Seq(Reactions)] /\ microtasks \in Seq(Jobs)
    <2>1. microtasks \in Seq(UsableJobs) /\ reactions \in [Ids -> Seq(Usable)]
        BY DEF RInv, IInv, HeapOK
    <2>2. \A s \in Seq(Usable) : s \in Seq(Reactions)
        BY <1>1
    <2>3. \A s \in Seq(UsableJobs) : s \in Seq(Jobs)
        BY <1>1
    <2>4. QED
        BY <2>1, <2>2, <2>3
<1>3. QED
    BY <1>2 DEF TypeOK, RInv, IInv, HeapOK, ControlOK, HistoryOK, MarksOK

\* A derived promise has one place.
LEMMA OnePlace ==
    ASSUME RInv, NEW d \in Ids, source[d] # 0
    PROVE  /\ Cardinality(Waiting(d)) + Cardinality(Scheduled(d)) + Cardinality(RanAt(d)) = 1
           /\ Waiting(d) # {} => state[source[d]] = "pending"
<1> DEFINE p == source[d]
<1> USE DEF RInv, Placed
<1>1. p \in Ids /\ d # 0 /\ "pending" \notin Outcomes
    BY DEF HistoryOK, Ids, Outcomes
<1>2. \A w : w \in Waiting(d) <=>
        \E x \in Ids : \E n \in 1..Len(reactions[x]) : reactions[x][n].derived = d /\ w = <<x, n>>
    BY DEF Waiting
<1>3. \A x \in Ids : \A n \in 1..Len(reactions[x]) :
        reactions[x][n].derived = d => x = p /\ state[p] = "pending"
    BY <1>1 DEF Held
<1>4. \A n \in 1..Len(microtasks) : Derived(microtasks, n) = d => state[p] \in Outcomes
    BY <1>1 DEF Due, SettledIn
<1>5. \A n \in 1..Len(ran) : ran[n] = d => state[p] \in Outcomes
    BY <1>1 DEF Done, SettledIn
<1>6. Waiting(d) # {} => state[p] = "pending"
    BY <1>2, <1>3
<1>7. Scheduled(d) = {n \in 1..Len(microtasks) : Derived(microtasks, n) = d}
    BY DEF Scheduled, Derived
<1>8. d \in Nat /\ ~(d < d)
    BY DEF Ids
<1> DEFINE Total == Cardinality(Waiting(d)) + Cardinality(Scheduled(d)) + Cardinality(RanAt(d))
<1>9. CASE \E n \in 1..Len(reactions[p]) : reactions[p][n].derived = d
    <2>1. PICK n \in 1..Len(reactions[p]) : reactions[p][n].derived = d
        BY <1>9
    <2>2. state[p] \notin Outcomes
        BY <1>1, <1>3, <2>1
    <2>3. Scheduled(d) = {} /\ RanAt(d) = {}
        BY <1>4, <1>5, <1>7, <2>2 DEF RanAt
    <2>4. \A m \in 1..Len(reactions[p]) : reactions[p][m].derived = d => m = n
        <3> SUFFICES ASSUME NEW m \in 1..Len(reactions[p]), reactions[p][m].derived = d, m # n PROVE FALSE
            OBVIOUS
        <3>1. m < n \/ n < m
            OBVIOUS
        <3>2. QED
            BY <1>1, <1>8, <2>1, <3>1 DEF HeldInOrder
    <2>5. Waiting(d) = {<<p, n>>}
        BY <1>1, <1>2, <1>3, <2>1, <2>4
    <2>6. Total = 1
        <3>1. Cardinality(Waiting(d)) = 1 /\ Cardinality(Scheduled(d)) = 0 /\ Cardinality(RanAt(d)) = 0
            BY FS_Singleton, FS_EmptySet, <2>3, <2>5
        <3>2. QED
            BY <3>1
    <2>7. QED
        BY <1>6, <2>6
<1>10. CASE \E n \in 1..Len(microtasks) : Derived(microtasks, n) = d
    <2>1. PICK n \in 1..Len(microtasks) : Derived(microtasks, n) = d
        BY <1>10
    <2>2. Waiting(d) = {}
        BY <1>1, <1>4, <1>6, <2>1
    <2>3. RanAt(d) = {}
        BY <1>1, <1>8, <2>1 DEF RanAt, DoneFirst
    <2>4. \A m \in 1..Len(microtasks) : Derived(microtasks, m) = d => m = n
        <3> SUFFICES ASSUME NEW m \in 1..Len(microtasks), Derived(microtasks, m) = d, m # n PROVE FALSE
            OBVIOUS
        <3>1. m < n \/ n < m
            OBVIOUS
        <3>2. QED
            BY <1>1, <1>8, <2>1, <3>1 DEF DueInOrder
    <2>5. Scheduled(d) = {n}
        BY <1>7, <2>1, <2>4
    <2>6. Total = 1
        <3>1. Cardinality(Waiting(d)) = 0 /\ Cardinality(Scheduled(d)) = 1 /\ Cardinality(RanAt(d)) = 0
            BY FS_Singleton, FS_EmptySet, <2>2, <2>3, <2>5
        <3>2. QED
            BY <3>1
    <2>7. QED
        BY <1>6, <2>6
<1>11. CASE /\ \E n \in 1..Len(ran) : ran[n] = d
            /\ ~ \E n \in 1..Len(microtasks) : Derived(microtasks, n) = d
    <2>1. PICK n \in 1..Len(ran) : ran[n] = d
        BY <1>11
    <2>2. Waiting(d) = {} /\ Scheduled(d) = {}
        BY <1>1, <1>5, <1>6, <1>7, <1>11, <2>1
    <2>3. \A m \in 1..Len(ran) : ran[m] = d => m = n
        <3> SUFFICES ASSUME NEW m \in 1..Len(ran), ran[m] = d, m # n PROVE FALSE
            OBVIOUS
        <3>1. m < n \/ n < m
            OBVIOUS
        <3>2. QED
            BY <1>8, <2>1, <3>1 DEF DoneInOrder
    <2>4. RanAt(d) = {n}
        BY <2>1, <2>3 DEF RanAt
    <2>5. Total = 1
        <3>1. Cardinality(Waiting(d)) = 0 /\ Cardinality(Scheduled(d)) = 0 /\ Cardinality(RanAt(d)) = 1
            BY FS_Singleton, FS_EmptySet, <2>2, <2>4
        <3>2. QED
            BY <3>1
    <2>6. QED
        BY <1>6, <2>5
<1>12. QED
    BY <1>6, <1>9, <1>10, <1>11 DEF Somewhere

\* No reaction is lost or run twice, none runs before its promise has settled,
\* and those of one promise run in the order of the then calls, whatever
\* adoptions, handlers and late calls there are (promise.go, microtask.go).
THEOREM ReactionsRunOnce == Spec => []EachReactionOnce
<1>1. RInv => EachReactionOnce
    <2> SUFFICES ASSUME RInv PROVE EachReactionOnce
        OBVIOUS
    <2>1. \A d \in Created : d \in Ids
        BY CodeFacts DEF RInv
    <2>2. TypeOK
        BY Typed
    <2>3. \A m, n \in 1..Len(ran) : m < n /\ source[ran[m]] = source[ran[n]] => ran[m] < ran[n]
        BY DEF RInv, Placed, DoneInOrder
    <2>4. QED
        BY <2>1, <2>2, <2>3, OnePlace DEF EachReactionOnce
<1>2. QED
    BY ReactionsInvariant, <1>1, PTL
=============================================================================

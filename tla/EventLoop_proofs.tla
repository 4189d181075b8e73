-------------------------- MODULE EventLoop_proofs --------------------------
(***************************************************************************)
(* Proofs about EventLoop for any number of goroutines, self-posts,        *)
(* handles and callers of Stop, any capacity of taskCh, and AwaitPromise   *)
(* called from anywhere (except where a theorem says otherwise).           *)
(***************************************************************************)
EXTENDS EventLoop, FiniteSetTheorems, TLAPS

-----------------------------------------------------------------------------
(* How a step may change what is alive: not at all, one more, or one less.  *)

Unchanged3 ==
    RefsHeld' = RefsHeld /\ PostsLive' = PostsLive /\ HandlesOpen' = HandlesOpen

OneMore(x) ==
    \/ /\ x \notin RefsHeld /\ RefsHeld' = RefsHeld \cup {x}
       /\ PostsLive' = PostsLive /\ HandlesOpen' = HandlesOpen
    \/ /\ x \notin PostsLive /\ PostsLive' = PostsLive \cup {x}
       /\ RefsHeld' = RefsHeld /\ HandlesOpen' = HandlesOpen
    \/ /\ x \notin HandlesOpen /\ HandlesOpen' = HandlesOpen \cup {x}
       /\ RefsHeld' = RefsHeld /\ PostsLive' = PostsLive

OneLess(x) ==
    \/ /\ x \in RefsHeld /\ RefsHeld' = RefsHeld \ {x}
       /\ PostsLive' = PostsLive /\ HandlesOpen' = HandlesOpen
    \/ /\ x \in PostsLive /\ PostsLive' = PostsLive \ {x}
       /\ RefsHeld' = RefsHeld /\ HandlesOpen' = HandlesOpen
    \/ /\ x \in HandlesOpen /\ HandlesOpen' = HandlesOpen \ {x}
       /\ RefsHeld' = RefsHeld /\ PostsLive' = PostsLive

CountStep ==
    \/ active' = active /\ Unchanged3
    \/ \E x : active' = active + 1 /\ OneMore(x)
    \/ \E x : active' = active - 1 /\ OneLess(x)

LEMMA AliveFinite ==
    /\ IsFiniteSet(RefsHeld) /\ Cardinality(RefsHeld) \in Nat
    /\ IsFiniteSet(PostsLive) /\ Cardinality(PostsLive) \in Nat
    /\ IsFiniteSet(HandlesOpen) /\ Cardinality(HandlesOpen) \in Nat
<1>1. IsFiniteSet(Tasks)
  BY ActorsAssumption, FS_Union DEF Tasks
<1>2. /\ RefsHeld \in SUBSET Goroutines
      /\ PostsLive \in SUBSET Tasks
      /\ HandlesOpen \in SUBSET Handles
  BY DEF RefsHeld, PostsLive, HandlesOpen
<1>3. IsFiniteSet(RefsHeld) /\ IsFiniteSet(PostsLive) /\ IsFiniteSet(HandlesOpen)
  BY <1>1, <1>2, ActorsAssumption, FS_Subset
<1> QED
  BY <1>3, FS_CardinalityType

\* Counting follows from stepping by one element at a time.
LEMMA CountPreserved ==
    ASSUME ActiveExact, CountStep
    PROVE  ActiveExact' /\ active' \in Nat
<1> DEFINE R == Cardinality(RefsHeld)
           P == Cardinality(PostsLive)
           H == Cardinality(HandlesOpen)
<1>1. R \in Nat /\ P \in Nat /\ H \in Nat
  BY AliveFinite
<1>2. active = R + P + H
  BY DEF ActiveExact
<1>3. CASE active' = active /\ Unchanged3
  BY <1>1, <1>2, <1>3 DEF Unchanged3, ActiveExact
<1>4. ASSUME NEW x, active' = active + 1, OneMore(x)
      PROVE  ActiveExact' /\ active' \in Nat
  <2>1. /\ x \notin RefsHeld => Cardinality(RefsHeld \cup {x}) = R + 1
        /\ x \notin PostsLive => Cardinality(PostsLive \cup {x}) = P + 1
        /\ x \notin HandlesOpen => Cardinality(HandlesOpen \cup {x}) = H + 1
    BY AliveFinite, FS_AddElement
  <2> HIDE DEF R, P, H
  <2>2. active' = (R + P + H) + 1
    BY <1>2, <1>4
  <2>3. Cardinality(RefsHeld') + Cardinality(PostsLive') + Cardinality(HandlesOpen')
          = (R + P + H) + 1
    <3>1. CASE x \notin RefsHeld /\ RefsHeld' = RefsHeld \cup {x}
               /\ PostsLive' = PostsLive /\ HandlesOpen' = HandlesOpen
      <4>1. Cardinality(RefsHeld') = R + 1
        BY <2>1, <3>1
      <4>2. Cardinality(PostsLive') = P /\ Cardinality(HandlesOpen') = H
        BY <3>1 DEF P, H
      <4> QED BY <4>1, <4>2, <1>1
    <3>2. CASE x \notin PostsLive /\ PostsLive' = PostsLive \cup {x}
               /\ RefsHeld' = RefsHeld /\ HandlesOpen' = HandlesOpen
      <4>1. Cardinality(PostsLive') = P + 1
        BY <2>1, <3>2
      <4>2. Cardinality(RefsHeld') = R /\ Cardinality(HandlesOpen') = H
        BY <3>2 DEF R, H
      <4> QED BY <4>1, <4>2, <1>1
    <3>3. CASE x \notin HandlesOpen /\ HandlesOpen' = HandlesOpen \cup {x}
               /\ RefsHeld' = RefsHeld /\ PostsLive' = PostsLive
      <4>1. Cardinality(HandlesOpen') = H + 1
        BY <2>1, <3>3
      <4>2. Cardinality(RefsHeld') = R /\ Cardinality(PostsLive') = P
        BY <3>3 DEF R, P
      <4> QED BY <4>1, <4>2, <1>1
    <3> QED BY <1>4, <3>1, <3>2, <3>3 DEF OneMore
  <2> QED BY <1>1, <2>2, <2>3 DEF ActiveExact
<1>5. ASSUME NEW x, active' = active - 1, OneLess(x)
      PROVE  ActiveExact' /\ active' \in Nat
  <2>1. /\ x \in RefsHeld => Cardinality(RefsHeld \ {x}) = R - 1
        /\ x \in PostsLive => Cardinality(PostsLive \ {x}) = P - 1
        /\ x \in HandlesOpen => Cardinality(HandlesOpen \ {x}) = H - 1
    BY AliveFinite, FS_RemoveElement
  <2>2. /\ x \in RefsHeld => R > 0
        /\ x \in PostsLive => P > 0
        /\ x \in HandlesOpen => H > 0
    BY AliveFinite, FS_EmptySet
  <2> HIDE DEF R, P, H
  <2>3. active' = (R + P + H) - 1
    BY <1>2, <1>5
  <2>4. /\ Cardinality(RefsHeld') + Cardinality(PostsLive') + Cardinality(HandlesOpen')
             = (R + P + H) - 1
        /\ R + P + H > 0
    <3>1. CASE x \in RefsHeld /\ RefsHeld' = RefsHeld \ {x}
               /\ PostsLive' = PostsLive /\ HandlesOpen' = HandlesOpen
      <4>1. Cardinality(RefsHeld') = R - 1 /\ R > 0
        BY <2>1, <2>2, <3>1
      <4>2. Cardinality(PostsLive') = P /\ Cardinality(HandlesOpen') = H
        BY <3>1 DEF P, H
      <4> QED BY <4>1, <4>2, <1>1
    <3>2. CASE x \in PostsLive /\ PostsLive' = PostsLive \ {x}
               /\ RefsHeld' = RefsHeld /\ HandlesOpen' = HandlesOpen
      <4>1. Cardinality(PostsLive') = P - 1 /\ P > 0
        BY <2>1, <2>2, <3>2
      <4>2. Cardinality(RefsHeld') = R /\ Cardinality(HandlesOpen') = H
        BY <3>2 DEF R, H
      <4> QED BY <4>1, <4>2, <1>1
    <3>3. CASE x \in HandlesOpen /\ HandlesOpen' = HandlesOpen \ {x}
               /\ RefsHeld' = RefsHeld /\ PostsLive' = PostsLive
      <4>1. Cardinality(HandlesOpen') = H - 1 /\ H > 0
        BY <2>1, <2>2, <3>3
      <4>2. Cardinality(RefsHeld') = R /\ Cardinality(PostsLive') = P
        BY <3>3 DEF R, P
      <4> QED BY <4>1, <4>2, <1>1
    <3> QED BY <1>5, <3>1, <3>2, <3>3 DEF OneLess
  <2> QED BY <1>1, <2>3, <2>4 DEF ActiveExact
<1> QED BY <1>3, <1>4, <1>5 DEF CountStep

-----------------------------------------------------------------------------
(* Every step moves the count by the element it counts.                     *)

\* A goroutine not started holds no reference; one that has not called PostTask
\* has no task under way.
PhasesAgree ==
    \A g \in Goroutines :
        /\ gor[g] = "new" => ref[g] = "none"
        /\ gor[g] \in {"new", "ready"} <=> post[g] = "new"

\* The reference g goes away, or the task t ends, with a decActive.
LEMMA RefReleased ==
    ASSUME TypeOK, NEW g \in Goroutines, NEW p, ref[g] # "none", DecActive(p),
           ref' = [ref EXCEPT ![g] = "none"], UNCHANGED <<post, handle>>
    PROVE  CountStep
<1>1. active' = active - 1 /\ g \in RefsHeld /\ RefsHeld' = RefsHeld \ {g}
  BY DEF TypeOK, DecActive, RefsHeld
<1>2. PostsLive' = PostsLive /\ HandlesOpen' = HandlesOpen
  BY DEF PostsLive, HandlesOpen
<1> QED BY <1>1, <1>2 DEF CountStep, OneLess

LEMMA PostFinished ==
    ASSUME TypeOK, NEW t \in Tasks, NEW p, t \in PostsLive, DecActive(p),
           NEW final \in {"ended", "lost"},
           post' = [post EXCEPT ![t] = final], UNCHANGED <<ref, handle>>
    PROVE  CountStep
<1>1. active' = active - 1 /\ PostsLive' = PostsLive \ {t}
  BY DEF TypeOK, DecActive, PostsLive
<1>2. RefsHeld' = RefsHeld /\ HandlesOpen' = HandlesOpen
  BY DEF RefsHeld, HandlesOpen
<1> QED BY <1>1, <1>2 DEF CountStep, OneLess

LEMMA PostBegun ==
    ASSUME TypeOK, NEW t \in Tasks, post[t] = "new", BeginPost(t), UNCHANGED <<ref, handle>>
    PROVE  CountStep
<1>1. RefsHeld' = RefsHeld /\ HandlesOpen' = HandlesOpen
  BY DEF RefsHeld, HandlesOpen
<1>2. CASE loopDone
  <2>1. active' = active /\ PostsLive' = PostsLive
    BY <1>2 DEF TypeOK, BeginPost, PostsLive
  <2> QED BY <1>1, <2>1 DEF CountStep, Unchanged3
<1>3. CASE ~loopDone
  <2>1. active' = active + 1 /\ t \notin PostsLive /\ PostsLive' = PostsLive \cup {t}
    BY <1>3 DEF TypeOK, BeginPost, PostsLive
  <2> QED BY <1>1, <2>1 DEF CountStep, OneMore
<1> QED BY <1>2, <1>3

\* A task moves from one counted stage to another.
LEMMA PostMoved ==
    ASSUME TypeOK, NEW t \in Tasks, t \in PostsLive,
           NEW s \in {"drop", "queued", "inLoop", "inAwait"},
           post' = [post EXCEPT ![t] = s], UNCHANGED <<active, ref, handle>>
    PROVE  CountStep
<1>1. PostsLive' = PostsLive
  BY DEF TypeOK, PostsLive
<1>2. RefsHeld' = RefsHeld /\ HandlesOpen' = HandlesOpen
  BY DEF RefsHeld, HandlesOpen
<1> QED BY <1>1, <1>2 DEF CountStep, Unchanged3

LEMMA NothingMoved ==
    ASSUME UNCHANGED <<active, ref, post, handle>>
    PROVE  CountStep
BY DEF CountStep, Unchanged3, RefsHeld, PostsLive, HandlesOpen

LEMMA StepCounts ==
    ASSUME TypeOK, QueuedOnce, PhasesAgree, [Next]_vars
    PROVE  CountStep
<1> USE DEF queueVars, sharedVars, jsVars, endVars
<1>1. ASSUME NEW g \in Goroutines, NEW kind \in {"none", "inside", "after"}, Spawn(g, kind)
      PROVE  CountStep
  <2>1. CASE kind = "none" \/ loopDone
    BY <1>1, <2>1, NothingMoved DEF Spawn
  <2>2. CASE ~(kind = "none" \/ loopDone)
    <3>1. active' = active + 1 /\ g \notin RefsHeld /\ RefsHeld' = RefsHeld \cup {g}
      BY <1>1, <2>2 DEF Spawn, TypeOK, PhasesAgree, RefsHeld
    <3>2. PostsLive' = PostsLive /\ HandlesOpen' = HandlesOpen
      BY <1>1 DEF Spawn, PostsLive, HandlesOpen
    <3> QED BY <3>1, <3>2 DEF CountStep, OneMore
  <2> QED BY <2>1, <2>2
<1>2. ASSUME NEW h \in Handles, OpenHandle(h)
      PROVE  CountStep
  <2>1. active' = active + 1 /\ h \notin HandlesOpen /\ HandlesOpen' = HandlesOpen \cup {h}
    BY <1>2 DEF OpenHandle, TypeOK, HandlesOpen
  <2>2. RefsHeld' = RefsHeld /\ PostsLive' = PostsLive
    BY <1>2 DEF OpenHandle, RefsHeld, PostsLive
  <2> QED BY <2>1, <2>2 DEF CountStep, OneMore
<1>3. ASSUME NEW h \in Handles, CloseHandle(h)
      PROVE  CountStep
  <2>1. active' = active - 1 /\ h \in HandlesOpen /\ HandlesOpen' = HandlesOpen \ {h}
    BY <1>3 DEF CloseHandle, DecActive, TypeOK, HandlesOpen
  <2>2. RefsHeld' = RefsHeld /\ PostsLive' = PostsLive
    BY <1>3 DEF CloseHandle, RefsHeld, PostsLive
  <2> QED BY <2>1, <2>2 DEF CountStep, OneLess
<1>4. ASSUME NEW m \in SelfPosts, SelfPost(m)
      PROVE  CountStep
  BY <1>4, PostBegun DEF SelfPost, Tasks
<1>5. ASSUME NEW t \in Tasks, TaskReturn(t)
      PROVE  CountStep
  <2>1. CASE t \in Goroutines /\ ref[t] = "inside"
    BY <1>5, <2>1, RefReleased DEF TaskReturn
  <2>2. CASE ~(t \in Goroutines /\ ref[t] = "inside")
    BY <1>5, <2>2, NothingMoved DEF TaskReturn
  <2> QED BY <2>1, <2>2
<1>6. ASSUME NEW t \in Tasks, TaskDone(t)
      PROVE  CountStep
  <2>1. t \in PostsLive
    BY <1>6 DEF TaskDone, Driver, PostsLive
  <2> QED BY <1>6, <2>1, PostFinished DEF TaskDone
<1>7. CASE TakeTask
  <2>1. Head(taskCh) \in Tasks /\ taskCh[1] = Head(taskCh) /\ 1 \in 1..Len(taskCh)
    BY <1>7 DEF TakeTask, TypeOK
  <2>2. Head(taskCh) \in PostsLive
    BY <2>1 DEF QueuedOnce, PostsLive
  <2>3. Driver \in {"drop", "queued", "inLoop", "inAwait"}
    BY DEF Driver
  <2> QED BY <1>7, <2>1, <2>2, <2>3, PostMoved DEF TakeTask
<1>8. ASSUME NEW g \in Goroutines, GoPost(g)
      PROVE  CountStep
  <2>1. post[g] = "new"
    BY <1>8 DEF GoPost, PhasesAgree
  <2> QED BY <1>8, <2>1, PostBegun DEF GoPost, Tasks
<1>9. ASSUME NEW g \in Goroutines, GoRelease(g)
      PROVE  CountStep
  <2>1. CASE ref[g] = "after"
    BY <1>9, <2>1, RefReleased DEF GoRelease
  <2>2. CASE ref[g] # "after"
    BY <1>9, <2>2, NothingMoved DEF GoRelease
  <2> QED BY <2>1, <2>2
<1>10. ASSUME NEW t \in Tasks, Posting(t)
       PROVE  CountStep
  <2>1. t \in PostsLive
    BY <1>10 DEF Posting, Send, SendStopped, DropPost, PostsLive
  <2>2. CASE Send(t) \/ SendStopped(t)
    BY <2>1, <2>2, PostMoved DEF Send, SendStopped
  <2>3. CASE DropPost(t)
    BY <2>1, <2>3, PostFinished DEF DropPost
  <2> QED BY <1>10, <2>2, <2>3 DEF Posting
<1>11. CASE \/ EnqueueJob \/ CodeReturn
            \/ Drain("drain0", "job0", "check0") \/ Drain("drain", "job", "select")
            \/ TakeIdle \/ TakeStop \/ LeaveIfIdle
            \/ SetLoopDone("stopped", "deferCheck") \/ SetLoopDone("deferDone", "exited")
            \/ DeferCheck \/ DeferClose
            \/ (\E on \in Goroutines \cup {Job} : AwaitBegin(on))
            \/ AwaitCheck \/ AwaitSleep
  BY <1>11, NothingMoved DEF EnqueueJob, CodeReturn, Drain, TakeIdle, TakeStop, LeaveIfIdle,
       SetLoopDone, DeferCheck, DeferClose, AwaitBegin, AwaitCheck, AwaitSleep
<1>12. CASE \/ \E p \in Callers : Signal(p)
            \/ \E s \in Stoppers : StopCheck(s) \/ StopClose(s)
            \/ UNCHANGED vars
  BY <1>12, NothingMoved DEF Signal, StopCheck, StopClose, vars
<1> QED
  BY <1>1, <1>2, <1>3, <1>4, <1>5, <1>6, <1>7, <1>8, <1>9, <1>10, <1>11, <1>12
     DEF Next, JsThread, Goroutine

-----------------------------------------------------------------------------
(* The inductive invariant.                                                 *)

\* Past the loop nothing more is accepted; only Stop or the end of the loop
\* closes stopCh.
LoopEnding ==
    /\ loop \in {"deferCheck", "deferClose", "deferDone", "exited"} => loopDone
    /\ loop = "stopped" => stopClosed
    /\ stopClosed /\ ~StopCalled => loopDone

IInv ==
    /\ TypeOK /\ ActiveExact /\ QueuedOnce /\ PhasesAgree
    /\ LoopEnding /\ NothingLeftBehind

LEMMA InitIInv == Init => IInv
<1> SUFFICES ASSUME Init PROVE IInv
  OBVIOUS
<1>1. TypeOK
  <2>1. <<>> \in Seq(Tasks) /\ Len(<<>>) = 0 /\ 0 <= Cap
    BY CapAssumption
  <2>2. 0 \in 0..MaxJobs /\ 0 \in 0..0
    BY JobsAssumption
  <2> QED BY <2>1, <2>2 DEF Init, TypeOK, PostStates, LoopStates, CodeKinds, AwaitStates
<1>2. RefsHeld = {} /\ PostsLive = {} /\ HandlesOpen = {}
  BY DEF Init, RefsHeld, PostsLive, HandlesOpen
<1>3. ActiveExact
  BY <1>2, FS_EmptySet DEF Init, ActiveExact
<1>4. QueuedOnce /\ PhasesAgree
  BY DEF Init, QueuedOnce, PhasesAgree, Tasks
<1>5. LoopEnding /\ NothingLeftBehind
  BY <1>2 DEF Init, LoopEnding, NothingLeftBehind
<1> QED BY <1>1, <1>3, <1>4, <1>5 DEF IInv

LEMMA TypeStep ==
    ASSUME TypeOK, active' \in Nat, [Next]_vars
    PROVE  TypeOK'
<1> USE CapAssumption, JobsAssumption DEF queueVars, sharedVars, jsVars, endVars
<1> USE DEF TypeOK, PostStates, LoopStates, AwaitStates, CodeKinds, Callers
<1>1. ASSUME NEW g \in Goroutines, NEW kind \in {"none", "inside", "after"}, Spawn(g, kind)
      PROVE  TypeOK'
  BY <1>1 DEF Spawn
<1>2. ASSUME NEW h \in Handles, OpenHandle(h) \/ CloseHandle(h)
      PROVE  TypeOK'
  BY <1>2 DEF OpenHandle, CloseHandle, DecActive
<1>3. CASE EnqueueJob
  BY <1>3 DEF EnqueueJob
<1>4. ASSUME NEW m \in SelfPosts, SelfPost(m)
      PROVE  TypeOK'
  BY <1>4 DEF SelfPost, BeginPost, Tasks
<1>5. ASSUME NEW t \in Tasks, TaskReturn(t)
      PROVE  TypeOK'
  BY <1>5 DEF TaskReturn, Goto, DecActive
<1>6. ASSUME NEW t \in Tasks, TaskDone(t)
      PROVE  TypeOK'
  BY <1>6 DEF TaskDone, Goto, DecActive
<1>7. CASE CodeReturn \/ TakeIdle \/ TakeStop \/ LeaveIfIdle
  <2>1. CASE CodeReturn
    <3>1. aw # "none" => Here = "job"
      BY <2>1 DEF CodeReturn, InCode, Here
    <3> QED BY <2>1, <3>1 DEF CodeReturn, Goto
  <2>2. CASE TakeIdle
    BY <2>2 DEF TakeIdle, Goto
  <2>3. CASE TakeStop
    BY <2>3 DEF TakeStop, Goto
  <2>4. CASE LeaveIfIdle
    BY <2>4 DEF LeaveIfIdle, At, Here, Goto
  <2> QED BY <1>7, <2>1, <2>2, <2>3, <2>4
<1>8. CASE Drain("drain0", "job0", "check0") \/ Drain("drain", "job", "select")
  BY <1>8 DEF Drain, At, Here, Goto
<1>9. CASE TakeTask
  <2>1. Head(taskCh) \in Tasks /\ Tail(taskCh) \in Seq(Tasks) /\ Len(Tail(taskCh)) <= Cap
    BY <1>9 DEF TakeTask
  <2> QED BY <1>9, <2>1 DEF TakeTask, Goto, Driver
<1>10. CASE SetLoopDone("stopped", "deferCheck") \/ SetLoopDone("deferDone", "exited")
  BY <1>10 DEF SetLoopDone, At, Here, Goto
<1>11. CASE DeferCheck \/ DeferClose
  BY <1>11 DEF DeferCheck, DeferClose, CloseStop, At, Here, Goto
<1>12. ASSUME NEW on \in Goroutines \cup {Job}, AwaitBegin(on)
       PROVE  TypeOK'
  BY <1>12 DEF AwaitBegin, Tasks
<1>13. CASE AwaitCheck \/ AwaitSleep
  BY <1>13 DEF AwaitCheck, AwaitSleep, At, Here, Goto
<1>14. ASSUME NEW g \in Goroutines, GoPost(g) \/ GoRelease(g)
       PROVE  TypeOK'
  BY <1>14 DEF GoPost, GoRelease, BeginPost, DecActive, Tasks
<1>15. ASSUME NEW t \in Tasks, Send(t)
       PROVE  TypeOK'
  <2>1. Append(taskCh, t) \in Seq(Tasks) /\ Len(Append(taskCh, t)) <= Cap
    BY <1>15 DEF Send
  <2> QED BY <1>15, <2>1 DEF Send, Returned
<1>16. ASSUME NEW t \in Tasks, SendStopped(t) \/ DropPost(t)
       PROVE  TypeOK'
  BY <1>16 DEF SendStopped, DropPost, Returned, DecActive
<1>17. CASE \/ \E p \in Callers : Signal(p)
            \/ \E s \in Stoppers : StopCheck(s) \/ StopClose(s)
            \/ UNCHANGED vars
  <2>1. ASSUME NEW p \in Callers, Signal(p) PROVE TypeOK'
    BY <2>1 DEF Signal
  <2>2. ASSUME NEW s \in Stoppers, StopCheck(s) PROVE TypeOK'
    BY <2>2 DEF StopCheck
  <2>3. ASSUME NEW s \in Stoppers, StopClose(s) PROVE TypeOK'
    BY <2>3 DEF StopClose, CloseStop
  <2>4. CASE UNCHANGED vars
    BY <2>4 DEF vars
  <2> QED BY <1>17, <2>1, <2>2, <2>3, <2>4
<1> QED
  BY <1>1, <1>2, <1>3, <1>4, <1>5, <1>6, <1>7, <1>8, <1>9, <1>10, <1>11, <1>12,
     <1>13, <1>14, <1>15, <1>16, <1>17 DEF Next, JsThread, Goroutine, Posting

LEMMA QueueStep ==
    ASSUME TypeOK, QueuedOnce, PhasesAgree, [Next]_vars
    PROVE  QueuedOnce'
<1> USE DEF queueVars, sharedVars, jsVars, endVars
<1>1. ASSUME NEW t \in Tasks, NEW s \in PostStates, post[t] # "queued", s # "queued",
             post' = [post EXCEPT ![t] = s], taskCh' = taskCh
      PROVE  QueuedOnce'
  BY <1>1 DEF QueuedOnce, TypeOK
<1>2. CASE UNCHANGED queueVars
  BY <1>2 DEF QueuedOnce
<1>3. CASE TakeTask
  <2>1. /\ Len(taskCh) > 0 /\ taskCh \in Seq(Tasks)
        /\ Head(taskCh) = taskCh[1] /\ Head(taskCh) \in Tasks
        /\ taskCh' = Tail(taskCh)
        /\ post' = [post EXCEPT ![Head(taskCh)] = Driver] /\ Driver # "queued"
    BY <1>3 DEF TakeTask, TypeOK, Driver
  <2>2. Len(taskCh') = Len(taskCh) - 1 /\ \A i \in 1..Len(taskCh') : taskCh'[i] = taskCh[i + 1]
    BY <2>1
  <2>3. \A i, j \in 1..Len(taskCh') : taskCh'[i] = taskCh'[j] => i = j
    BY <2>1, <2>2 DEF QueuedOnce
  <2>4. ASSUME NEW t \in Tasks
        PROVE  post'[t] = "queued" <=> \E i \in 1..Len(taskCh') : taskCh'[i] = t
    <3>1. CASE t = Head(taskCh)
      <4>1. \A i \in 1..Len(taskCh') : taskCh'[i] # t
        BY <2>1, <2>2, <3>1 DEF QueuedOnce
      <4> QED BY <2>1, <3>1, <4>1 DEF TypeOK
    <3>2. CASE t # Head(taskCh)
      <4>1. post'[t] = post[t]
        BY <2>1, <3>2 DEF TypeOK
      <4>2. ASSUME NEW i \in 1..Len(taskCh), taskCh[i] = t
            PROVE  i - 1 \in 1..Len(taskCh') /\ taskCh'[i - 1] = t
        BY <2>1, <2>2, <3>2, <4>2
      <4>3. ASSUME NEW i \in 1..Len(taskCh'), taskCh'[i] = t
            PROVE  i + 1 \in 1..Len(taskCh) /\ taskCh[i + 1] = t
        BY <2>1, <2>2, <4>3
      <4> QED BY <4>1, <4>2, <4>3 DEF QueuedOnce
    <3> QED BY <3>1, <3>2
  <2> QED BY <2>3, <2>4 DEF QueuedOnce
<1>4. ASSUME NEW t \in Tasks, Send(t)
      PROVE  QueuedOnce'
  <2>1. /\ taskCh \in Seq(Tasks) /\ taskCh' = Append(taskCh, t)
        /\ post' = [post EXCEPT ![t] = "queued"] /\ post[t] = "send"
    BY <1>4 DEF Send, TypeOK
  <2>2. /\ Len(taskCh') = Len(taskCh) + 1 /\ taskCh'[Len(taskCh) + 1] = t
        /\ \A i \in 1..Len(taskCh) : taskCh'[i] = taskCh[i] /\ taskCh[i] # t
    BY <2>1 DEF QueuedOnce
  <2>3. \A i, j \in 1..Len(taskCh') : taskCh'[i] = taskCh'[j] => i = j
    BY <2>1, <2>2 DEF QueuedOnce
  <2>4. ASSUME NEW u \in Tasks
        PROVE  post'[u] = "queued" <=> \E i \in 1..Len(taskCh') : taskCh'[i] = u
    BY <2>1, <2>2 DEF QueuedOnce, TypeOK
  <2> QED BY <2>3, <2>4 DEF QueuedOnce
<1>5. ASSUME NEW t \in Tasks, TaskDone(t) \/ SendStopped(t) \/ DropPost(t)
      PROVE  QueuedOnce'
  BY <1>1, <1>5 DEF TaskDone, SendStopped, DropPost, Driver, PostStates
<1>6. ASSUME NEW t \in Tasks, post[t] = "new", BeginPost(t), taskCh' = taskCh
      PROVE  QueuedOnce'
  BY <1>1, <1>6 DEF BeginPost, PostStates
<1>7. ASSUME NEW m \in SelfPosts, SelfPost(m)
      PROVE  QueuedOnce'
  BY <1>6, <1>7 DEF SelfPost, Tasks
<1>8. ASSUME NEW g \in Goroutines, GoPost(g)
      PROVE  QueuedOnce'
  BY <1>6, <1>8 DEF GoPost, Tasks, PhasesAgree
<1>9. ASSUME NEW t \in Tasks, TaskReturn(t)
      PROVE  QueuedOnce'
  BY <1>2, <1>9 DEF TaskReturn
<1>10. CASE \/ \E g \in Goroutines, kind \in {"none", "inside", "after"} : Spawn(g, kind)
            \/ \E h \in Handles : OpenHandle(h) \/ CloseHandle(h)
            \/ EnqueueJob \/ CodeReturn
            \/ Drain("drain0", "job0", "check0") \/ Drain("drain", "job", "select")
            \/ TakeIdle \/ TakeStop \/ LeaveIfIdle
            \/ SetLoopDone("stopped", "deferCheck") \/ SetLoopDone("deferDone", "exited")
            \/ DeferCheck \/ DeferClose
            \/ (\E on \in Goroutines \cup {Job} : AwaitBegin(on))
            \/ AwaitCheck \/ AwaitSleep
  BY <1>2, <1>10 DEF Spawn, OpenHandle, CloseHandle, EnqueueJob, CodeReturn, Drain, TakeIdle,
       TakeStop, LeaveIfIdle, SetLoopDone, DeferCheck, DeferClose, AwaitBegin,
       AwaitCheck, AwaitSleep
<1>11. CASE \/ \E p \in Callers : Signal(p)
            \/ \E g \in Goroutines : GoRelease(g)
            \/ \E s \in Stoppers : StopCheck(s) \/ StopClose(s)
            \/ UNCHANGED vars
  BY <1>2, <1>11 DEF Signal, GoRelease, StopCheck, StopClose, vars
<1> QED
  BY <1>3, <1>4, <1>5, <1>7, <1>8, <1>9, <1>10, <1>11
     DEF Next, JsThread, Goroutine, Posting

LEMMA PhasesStep ==
    ASSUME TypeOK, QueuedOnce, PhasesAgree, [Next]_vars
    PROVE  PhasesAgree'
<1> USE DEF TypeOK, PhasesAgree, queueVars, sharedVars, jsVars, endVars
<1>1. CASE UNCHANGED <<post, ref, gor>>
  BY <1>1
<1>2. ASSUME NEW g \in Goroutines, NEW kind \in {"none", "inside", "after"}, Spawn(g, kind)
      PROVE  PhasesAgree'
  BY <1>2 DEF Spawn
<1>3. ASSUME NEW m \in SelfPosts, SelfPost(m)
      PROVE  PhasesAgree'
  BY <1>3, ActorsAssumption DEF SelfPost, BeginPost, Tasks
<1>4. ASSUME NEW t \in Tasks, TaskReturn(t)
      PROVE  PhasesAgree'
  BY <1>4 DEF TaskReturn
<1>5. ASSUME NEW t \in Tasks, TaskDone(t)
      PROVE  PhasesAgree'
  BY <1>5 DEF TaskDone, Driver
<1>6. CASE TakeTask
  <2>1. Head(taskCh) \in Tasks /\ taskCh[1] = Head(taskCh) /\ 1 \in 1..Len(taskCh)
    BY <1>6 DEF TakeTask
  <2>2. post[Head(taskCh)] = "queued"
    BY <2>1 DEF QueuedOnce
  <2> QED BY <1>6, <2>1, <2>2 DEF TakeTask, Driver
<1>7. ASSUME NEW g \in Goroutines, GoPost(g)
      PROVE  PhasesAgree'
  BY <1>7 DEF GoPost, BeginPost, Tasks
<1>8. ASSUME NEW g \in Goroutines, GoRelease(g)
      PROVE  PhasesAgree'
  BY <1>8 DEF GoRelease
<1>9. ASSUME NEW t \in Tasks, Posting(t)
      PROVE  PhasesAgree'
  <2>1. PICK s \in {"drop", "queued", "lost"} :
            post' = [post EXCEPT ![t] = s] /\ ref' = ref /\ post[t] # "new"
    <3>1. CASE Send(t)
      BY <3>1 DEF Send
    <3>2. CASE SendStopped(t)
      BY <3>2 DEF SendStopped
    <3>3. CASE DropPost(t)
      BY <3>3 DEF DropPost
    <3> QED BY <1>9, <3>1, <3>2, <3>3 DEF Posting
  <2>2. gor' = gor \/ (t \in Goroutines /\ gor' = [gor EXCEPT ![t] = "release"])
    BY <1>9 DEF Posting, Send, SendStopped, DropPost, Returned
  <2> QED BY <2>1, <2>2
<1>10. CASE \/ \E h \in Handles : OpenHandle(h) \/ CloseHandle(h)
            \/ EnqueueJob \/ CodeReturn
            \/ Drain("drain0", "job0", "check0") \/ Drain("drain", "job", "select")
            \/ TakeIdle \/ TakeStop \/ LeaveIfIdle
            \/ SetLoopDone("stopped", "deferCheck") \/ SetLoopDone("deferDone", "exited")
            \/ DeferCheck \/ DeferClose
            \/ (\E on \in Goroutines \cup {Job} : AwaitBegin(on))
            \/ AwaitCheck \/ AwaitSleep
  BY <1>1, <1>10 DEF OpenHandle, CloseHandle, EnqueueJob, CodeReturn, Drain, TakeIdle,
       TakeStop, LeaveIfIdle, SetLoopDone, DeferCheck, DeferClose, AwaitBegin,
       AwaitCheck, AwaitSleep
<1>11. CASE \/ \E p \in Callers : Signal(p)
            \/ \E s \in Stoppers : StopCheck(s) \/ StopClose(s)
            \/ UNCHANGED vars
  BY <1>1, <1>11 DEF Signal, StopCheck, StopClose, vars
<1> QED
  BY <1>2, <1>3, <1>4, <1>5, <1>6, <1>7, <1>8, <1>9, <1>10, <1>11
     DEF Next, JsThread, Goroutine

\* The steps that touch the end of the loop; all others leave it alone.
LEMMA EndingStep ==
    ASSUME TypeOK, LoopEnding, [Next]_vars
    PROVE  LoopEnding' /\ (StopCalled => StopCalled') /\ (loopDone => loopDone')
<1> USE DEF TypeOK, LoopEnding, StopCalled, endVars
<1> DEFINE Goal == LoopEnding' /\ (StopCalled => StopCalled') /\ (loopDone => loopDone')
<1>1. CASE UNCHANGED <<loop, endVars>>
  BY <1>1
<1>2. CASE /\ UNCHANGED endVars
           /\ loop' \notin {"stopped", "deferCheck", "deferClose", "deferDone", "exited"}
  BY <1>2
<1>3. ASSUME NEW from, NEW job, NEW to, Drain(from, job, to),
             job \in {"job0", "job"}, to \in {"check0", "select"}
      PROVE  Goal
  <2>1. loop' \in {loop, job, to} /\ UNCHANGED endVars
    BY <1>3 DEF Drain, Goto
  <2>2. CASE loop' = loop
    BY <1>1, <2>1, <2>2
  <2>3. CASE loop' # loop
    BY <1>2, <1>3, <2>1, <2>3
  <2> QED BY <2>2, <2>3
<1>4. CASE CodeReturn
  BY <1>1, <1>2, <1>4 DEF CodeReturn, Goto
<1>5. CASE TakeTask \/ TakeIdle \/ AwaitCheck \/ AwaitSleep
  BY <1>1, <1>2, <1>5 DEF TakeTask, TakeIdle, AwaitCheck, AwaitSleep, At, Here, Goto
<1>6. ASSUME NEW t \in Tasks, TaskReturn(t) \/ TaskDone(t)
      PROVE  Goal
  BY <1>1, <1>2, <1>6 DEF TaskReturn, TaskDone, Goto
<1>7. CASE TakeStop
  BY <1>7 DEF TakeStop, Goto
<1>8. CASE LeaveIfIdle
  BY <1>8 DEF LeaveIfIdle, At, Here, Goto, AwaitStates
<1>9. CASE SetLoopDone("stopped", "deferCheck") \/ SetLoopDone("deferDone", "exited")
  BY <1>9 DEF SetLoopDone, At, Here, Goto, AwaitStates
<1>10. CASE DeferCheck
  BY <1>10 DEF DeferCheck, At, Here, Goto, AwaitStates
<1>11. CASE DeferClose
  BY <1>11 DEF DeferClose, CloseStop, At, Here, Goto, AwaitStates
<1>12. ASSUME NEW s \in Stoppers, StopCheck(s) \/ StopClose(s)
       PROVE  Goal
  BY <1>12 DEF StopCheck, StopClose, CloseStop, jsVars
<1>13. CASE \/ \E g \in Goroutines, kind \in {"none", "inside", "after"} : Spawn(g, kind)
            \/ \E h \in Handles : OpenHandle(h) \/ CloseHandle(h)
            \/ EnqueueJob
            \/ \E m \in SelfPosts : SelfPost(m)
            \/ (\E on \in Goroutines \cup {Job} : AwaitBegin(on))
            \/ \E p \in Callers : Signal(p)
            \/ \E g \in Goroutines : Goroutine(g)
            \/ \E t \in Tasks : Posting(t)
            \/ UNCHANGED vars
  BY <1>1, <1>13 DEF Spawn, OpenHandle, CloseHandle, EnqueueJob, SelfPost, AwaitBegin,
       Signal, Goroutine, GoPost, GoRelease, Posting, Send, SendStopped, DropPost,
       jsVars, vars
<1> QED
  BY <1>3, <1>4, <1>5, <1>6, <1>7, <1>8, <1>9, <1>10, <1>11, <1>12, <1>13
     DEF Next, JsThread

\* Once the loop is done nothing new is counted.
LEMMA NothingNewWhenDone ==
    ASSUME TypeOK, QueuedOnce, PhasesAgree, [Next]_vars, loopDone,
           taskCh = <<>>, RefsHeld = {}, PostsLive = {}, HandlesOpen = {}
    PROVE  taskCh' = <<>> /\ RefsHeld' = {} /\ PostsLive' = {} /\ HandlesOpen' = {}
<1> USE DEF queueVars, sharedVars, jsVars, endVars
<1> DEFINE Goal == taskCh' = <<>> /\ RefsHeld' = {} /\ PostsLive' = {} /\ HandlesOpen' = {}
<1>1. CASE UNCHANGED <<taskCh, post, ref, handle>>
  BY <1>1 DEF RefsHeld, PostsLive, HandlesOpen
<1>2. \A t \in Tasks : post[t] \notin {"send", "drop", "queued", "inLoop", "inAwait"}
  BY DEF PostsLive
<1>3. (\A g \in Goroutines : ref[g] = "none") /\ (\A h \in Handles : handle[h] # "open")
  BY DEF RefsHeld, HandlesOpen
<1>4. ASSUME NEW t \in Tasks, BeginPost(t), UNCHANGED <<taskCh, ref, handle>>
      PROVE  Goal
  BY <1>4 DEF BeginPost, RefsHeld, PostsLive, HandlesOpen, TypeOK
<1>5. ASSUME NEW g \in Goroutines, Goroutine(g)
      PROVE  Goal
  BY <1>1, <1>3, <1>4, <1>5 DEF Goroutine, GoPost, GoRelease, Tasks
<1>6. ASSUME NEW m \in SelfPosts, SelfPost(m)
      PROVE  Goal
  BY <1>4, <1>6 DEF SelfPost, Tasks
<1>7. ASSUME NEW t \in Tasks, TaskReturn(t) \/ TaskDone(t) \/ Posting(t)
      PROVE  Goal
  BY <1>2, <1>7 DEF TaskReturn, TaskDone, Driver, Posting, Send, SendStopped, DropPost
<1>8. CASE TakeTask
  BY <1>8 DEF TakeTask
<1>9. CASE \/ \E g \in Goroutines, kind \in {"none", "inside", "after"} : Spawn(g, kind)
           \/ \E h \in Handles : OpenHandle(h) \/ CloseHandle(h)
           \/ EnqueueJob \/ CodeReturn
           \/ Drain("drain0", "job0", "check0") \/ Drain("drain", "job", "select")
           \/ TakeIdle \/ TakeStop \/ LeaveIfIdle
           \/ SetLoopDone("stopped", "deferCheck") \/ SetLoopDone("deferDone", "exited")
           \/ DeferCheck \/ DeferClose
           \/ (\E on \in Goroutines \cup {Job} : AwaitBegin(on))
           \/ AwaitCheck \/ AwaitSleep
  BY <1>1, <1>3, <1>9 DEF Spawn, OpenHandle, CloseHandle, EnqueueJob, CodeReturn, Drain,
       TakeIdle, TakeStop, LeaveIfIdle, SetLoopDone, DeferCheck, DeferClose, AwaitBegin,
       AwaitCheck, AwaitSleep
<1>10. CASE \/ \E p \in Callers : Signal(p)
            \/ \E s \in Stoppers : StopCheck(s) \/ StopClose(s)
            \/ UNCHANGED vars
  BY <1>1, <1>10 DEF Signal, StopCheck, StopClose, vars
<1> QED
  BY <1>5, <1>6, <1>7, <1>8, <1>9, <1>10 DEF Next, JsThread

\* The count reaches zero only with every counted set empty.
LEMMA ZeroMeansEmpty ==
    ASSUME TypeOK, ActiveExact, QueuedOnce, active = 0
    PROVE  taskCh = <<>> /\ RefsHeld = {} /\ PostsLive = {} /\ HandlesOpen = {}
<1>1. RefsHeld = {} /\ PostsLive = {} /\ HandlesOpen = {}
  <2>1. /\ Cardinality(RefsHeld) = 0
        /\ Cardinality(PostsLive) = 0
        /\ Cardinality(HandlesOpen) = 0
    BY AliveFinite DEF ActiveExact
  <2> QED BY <2>1, AliveFinite, FS_EmptySet
<1>2. taskCh = <<>>
  <2>1. SUFFICES ASSUME taskCh # <<>> PROVE FALSE
    OBVIOUS
  <2>2. taskCh[1] \in Tasks /\ 1 \in 1..Len(taskCh)
    BY <2>1 DEF TypeOK
  <2>3. taskCh[1] \in PostsLive
    BY <2>2 DEF QueuedOnce, PostsLive
  <2> QED BY <1>1, <2>3
<1> QED BY <1>1, <1>2

LEMMA LeftBehindStep ==
    ASSUME IInv, [Next]_vars
    PROVE  NothingLeftBehind'
<1> SUFFICES ASSUME loopDone', ~StopCalled'
             PROVE  taskCh' = <<>> /\ RefsHeld' = {} /\ PostsLive' = {} /\ HandlesOpen' = {}
  BY DEF NothingLeftBehind
<1>1. ~StopCalled
  BY EndingStep DEF IInv
<1>2. CASE loopDone
  BY <1>1, <1>2, NothingNewWhenDone DEF IInv, NothingLeftBehind
<1>3. CASE ~loopDone
  <2>1. \/ LeaveIfIdle
        \/ SetLoopDone("stopped", "deferCheck") \/ SetLoopDone("deferDone", "exited")
    BY <1>3 DEF Next, JsThread, Spawn, OpenHandle, CloseHandle, EnqueueJob, SelfPost,
         TaskReturn, TaskDone, CodeReturn, Drain, TakeTask, TakeIdle, TakeStop, DeferCheck,
         DeferClose, AwaitBegin, AwaitCheck, AwaitSleep, Signal, Goroutine, GoPost,
         GoRelease, Posting, Send, SendStopped, DropPost, StopCheck, StopClose, endVars, vars
  <2>2. CASE LeaveIfIdle
    <3>1. active = 0 /\ UNCHANGED <<taskCh, post, ref, handle>>
      BY <1>3, <2>2 DEF LeaveIfIdle, sharedVars
    <3> QED BY <3>1, ZeroMeansEmpty DEF IInv, RefsHeld, PostsLive, HandlesOpen
  <2>3. ~SetLoopDone("stopped", "deferCheck") /\ ~SetLoopDone("deferDone", "exited")
    BY <1>1, <1>3 DEF SetLoopDone, At, Here, IInv, TypeOK, AwaitStates, LoopEnding
  <2> QED BY <2>1, <2>2, <2>3
<1> QED BY <1>2, <1>3

LEMMA StepIInv == IInv /\ [Next]_vars => IInv'
<1> SUFFICES ASSUME IInv, [Next]_vars PROVE IInv'
  OBVIOUS
<1>1. ActiveExact' /\ active' \in Nat
  BY StepCounts, CountPreserved DEF IInv
<1>2. TypeOK'
  BY <1>1, TypeStep DEF IInv
<1>3. QueuedOnce' /\ PhasesAgree'
  BY QueueStep, PhasesStep DEF IInv
<1>4. LoopEnding'
  BY EndingStep DEF IInv
<1>5. NothingLeftBehind'
  BY LeftBehindStep
<1> QED BY <1>1, <1>2, <1>3, <1>4, <1>5 DEF IInv

\* Every state of the loop satisfies the inductive invariant.
THEOREM LoopInvariant == Spec => []IInv
BY InitIInv, StepIInv, PTL DEF Spec

\* The state of eventloop.go keeps its types; active never goes negative.
THEOREM TypeCorrect == Spec => []TypeOK
<1>1. IInv => TypeOK
  BY DEF IInv
<1> QED BY <1>1, LoopInvariant, PTL

\* active counts exactly the references held and the tasks posted and not done.
THEOREM ActiveIsExact == Spec => []ActiveExact
<1>1. IInv => ActiveExact
  BY DEF IInv
<1> QED BY <1>1, LoopInvariant, PTL

\* A loop that ends without Stop leaves no task, reference or handle behind.
THEOREM ExitIsClean == Spec => []NothingLeftBehind
<1>1. IInv => NothingLeftBehind
  BY DEF IInv
<1> QED BY <1>1, LoopInvariant, PTL

\* The channel and the tasks' own states agree: no task is queued twice or lost.
THEOREM QueueConsistent == Spec => []QueuedOnce
<1>1. IInv => QueuedOnce
  BY DEF IInv
<1> QED BY <1>1, LoopInvariant, PTL

-----------------------------------------------------------------------------
(* No lost wake-up, when no checkpoint job of the loop calls AwaitPromise.  *)

\* From its first select on, the loop that sees nothing alive has a token
\* coming; a nested AwaitPromise is only entered from the code AwaitIn allows;
\* the loop's task is counted while it runs.
Watched ==
    /\ loop \in {"select", "task", "taskDone", "drain", "job"} /\ active = 0
         => idleTok \/ sig # {} \/ loopDone
    /\ aw # "none" => loop \in AwaitIn
    /\ loop \in {"task", "taskDone"} => \E t \in Tasks : post[t] = "inLoop"

WInv == IInv /\ Watched

LEMMA LiveTaskCounts ==
    ASSUME TypeOK, ActiveExact, NEW t \in Tasks, post[t] = "inLoop"
    PROVE  active # 0
<1>1. t \in PostsLive
  BY DEF PostsLive
<1>2. Cardinality(PostsLive) # 0
  BY <1>1, AliveFinite, FS_EmptySet
<1> QED BY <1>2, AliveFinite DEF ActiveExact

\* Steps that leave RunLoop's control state alone and do not take the token.
LEMMA WatchedElsewhere ==
    ASSUME TypeOK, Watched, active' \in Nat, loop' = loop, aw' = aw, loopDone' = loopDone,
           idleTok => idleTok',
           \/ active' = active /\ sig' = sig
           \/ active' = active + 1 /\ sig' = sig
           \/ active' = active /\ idleTok'
           \/ \E p : DecActive(p),
           \A t \in Tasks : post[t] = "inLoop" => post'[t] = "inLoop"
    PROVE  Watched'
<1>1. (aw # "none" => loop \in AwaitIn)'
  BY DEF Watched
<1>2. (loop \in {"task", "taskDone"} => \E t \in Tasks : post[t] = "inLoop")'
  BY DEF Watched
<1>3. ASSUME loop' \in {"select", "task", "taskDone", "drain", "job"}, active' = 0
      PROVE  idleTok' \/ sig' # {} \/ loopDone'
  <2>1. CASE active' = active /\ sig' = sig
    BY <1>3, <2>1 DEF Watched
  <2>2. active' # active + 1
    BY <1>3 DEF TypeOK
  <2>3. ASSUME NEW p, DecActive(p) PROVE sig' # {}
    <3>1. active = 1
      BY <1>3, <2>3 DEF DecActive, TypeOK
    <3> QED BY <2>3, <3>1 DEF DecActive
  <2> QED BY <2>1, <2>2, <2>3
<1> QED BY <1>1, <1>2, <1>3 DEF Watched

LEMMA WatchedStep ==
    ASSUME "job" \notin AwaitIn, WInv, IInv', [Next]_vars
    PROVE  Watched'
<1> USE DEF queueVars, sharedVars, jsVars, endVars
<1>1. TypeOK /\ QueuedOnce /\ PhasesAgree /\ Watched /\ active' \in Nat
  BY DEF WInv, IInv, TypeOK
<1>2. \A t \in Tasks : post[t] = "inLoop" => active # 0
  BY LiveTaskCounts DEF WInv, IInv
<1>3. \A t \in Tasks : post'[t] = "inLoop" => active' # 0
  <2>1. TypeOK' /\ ActiveExact'
    BY DEF IInv
  <2>2. ASSUME NEW t \in Tasks, post'[t] = "inLoop", active' = 0 PROVE FALSE
    <3>1. t \in PostsLive'
      BY <2>2 DEF PostsLive
    <3>2. IsFiniteSet(PostsLive') /\ Cardinality(PostsLive') # 0 /\ Cardinality(PostsLive') \in Nat
      <4>1. IsFiniteSet(Tasks) /\ PostsLive' \in SUBSET Tasks
        BY ActorsAssumption, FS_Union DEF Tasks, PostsLive
      <4> QED BY <3>1, <4>1, FS_Subset, FS_EmptySet, FS_CardinalityType
    <3>3. Cardinality(RefsHeld') \in Nat /\ Cardinality(HandlesOpen') \in Nat
      <4>1. RefsHeld' \in SUBSET Goroutines /\ HandlesOpen' \in SUBSET Handles
        BY DEF RefsHeld, HandlesOpen
      <4> QED BY <4>1, ActorsAssumption, FS_Subset, FS_CardinalityType
    <3> QED BY <2>1, <2>2, <3>2, <3>3 DEF ActiveExact
  <2> QED BY <2>2
<1>4. ASSUME NEW g \in Goroutines, NEW kind \in {"none", "inside", "after"}, Spawn(g, kind)
      PROVE  Watched'
  BY <1>1, <1>4, WatchedElsewhere DEF Spawn
<1>5. ASSUME NEW h \in Handles, OpenHandle(h) \/ CloseHandle(h)
      PROVE  Watched'
  BY <1>1, <1>5, WatchedElsewhere DEF OpenHandle, CloseHandle
<1>6. CASE EnqueueJob
  BY <1>1, <1>6, WatchedElsewhere DEF EnqueueJob
<1>7. ASSUME NEW t \in Tasks, post[t] = "new", BeginPost(t),
             UNCHANGED <<sig, loop, aw, loopDone, idleTok>>
      PROVE  Watched'
  BY <1>1, <1>7, WatchedElsewhere DEF BeginPost, TypeOK
<1>8. ASSUME NEW m \in SelfPosts, SelfPost(m)
      PROVE  Watched'
  BY <1>7, <1>8 DEF SelfPost, Tasks
<1>9. ASSUME NEW g \in Goroutines, GoPost(g)
      PROVE  Watched'
  BY <1>1, <1>7, <1>9 DEF GoPost, Tasks, PhasesAgree
<1>10. ASSUME NEW g \in Goroutines, GoRelease(g)
      PROVE  Watched'
  BY <1>1, <1>10, WatchedElsewhere DEF GoRelease
<1>11. ASSUME NEW t \in Tasks, Send(t) \/ SendStopped(t) \/ DropPost(t)
       PROVE  Watched'
  BY <1>1, <1>11, WatchedElsewhere DEF Send, SendStopped, DropPost, TypeOK
<1>12. ASSUME NEW p \in Callers, Signal(p)
       PROVE  Watched'
  BY <1>1, <1>12, WatchedElsewhere DEF Signal
<1>13. CASE (\E s \in Stoppers : StopCheck(s) \/ StopClose(s)) \/ UNCHANGED vars
  BY <1>1, <1>13, WatchedElsewhere DEF StopCheck, StopClose, vars
<1>14. ASSUME aw # "none", loop' = loop,
              \A t \in Tasks : post[t] = "inLoop" => post'[t] = "inLoop"
       PROVE  Watched'
  <2>1. loop \in {"module", "job0", "task"} /\ loop \in AwaitIn
    BY <1>1, <1>14, AwaitAssumption DEF Watched, CodeKinds
  <2> QED BY <1>1, <1>3, <1>14, <2>1 DEF Watched
<1>15. ASSUME NEW t \in Tasks, TaskReturn(t)
       PROVE  Watched'
  <2>1. post' = post
    BY <1>15 DEF TaskReturn
  <2>2. CASE aw = "none"
    <3>1. loop' = "taskDone" /\ aw' = aw /\ post'[t] = "inLoop"
      BY <1>15, <2>1, <2>2 DEF TaskReturn, Goto, Driver
    <3> QED BY <1>3, <2>2, <3>1 DEF Watched
  <2>3. CASE aw # "none"
    BY <1>14, <1>15, <2>1, <2>3 DEF TaskReturn, Goto
  <2> QED BY <2>2, <2>3
<1>16. ASSUME NEW t \in Tasks, TaskDone(t)
       PROVE  Watched'
  <2>1. CASE aw = "none"
    <3>1. /\ loop' = "drain" /\ aw' = aw /\ loopDone' = loopDone
          /\ active' = active - 1 /\ (active = 1 => sig' # {})
      BY <1>16, <2>1 DEF TaskDone, Goto, DecActive
    <3> QED BY <1>1, <2>1, <3>1 DEF Watched, TypeOK
  <2>2. CASE aw # "none"
    <3>1. post[t] = "inAwait" /\ post' = [post EXCEPT ![t] = "ended"] /\ loop' = loop
      BY <1>16, <2>2 DEF TaskDone, Driver, Goto
    <3> QED BY <1>1, <1>14, <2>2, <3>1 DEF TypeOK
  <2> QED BY <2>1, <2>2
<1>17. CASE TakeTask
  <2>1. Head(taskCh) \in Tasks /\ taskCh[1] = Head(taskCh) /\ 1 \in 1..Len(taskCh)
    BY <1>1, <1>17 DEF TakeTask, TypeOK
  <2>2. post[Head(taskCh)] = "queued"
    BY <1>1, <2>1 DEF QueuedOnce
  <2>3. post' = [post EXCEPT ![Head(taskCh)] = Driver]
    BY <1>17 DEF TakeTask
  <2>4. CASE aw = "none"
    <3>1. post'[Head(taskCh)] = "inLoop" /\ loop' = "task" /\ aw' = aw
      BY <1>1, <1>17, <2>1, <2>3, <2>4 DEF TakeTask, Goto, Driver, TypeOK
    <3> QED BY <1>3, <2>1, <2>4, <3>1 DEF Watched
  <2>5. CASE aw # "none"
    <3>1. loop' = loop /\ \A t \in Tasks : post[t] = "inLoop" => post'[t] = "inLoop"
      BY <1>1, <1>17, <2>1, <2>2, <2>3, <2>5 DEF TakeTask, Goto, TypeOK
    <3> QED BY <1>14, <2>5, <3>1
  <2> QED BY <2>4, <2>5
<1>18. CASE TakeIdle
  <2>1. CASE aw = "none"
    <3>1. loop' = "confirm" /\ aw' = aw
      BY <1>18, <2>1 DEF TakeIdle, Goto
    <3> QED BY <2>1, <3>1 DEF Watched
  <2>2. CASE aw # "none"
    BY <1>14, <1>18, <2>2 DEF TakeIdle, Goto
  <2> QED BY <2>1, <2>2
<1>19. ASSUME UNCHANGED <<active, sig, idleTok, loopDone, post>>,
              aw = "none", aw' = aw,
              \/ loop' \notin {"select", "task", "taskDone", "drain", "job"}
              \/ loop \in {"job", "drain"} /\ loop' \in {"drain", "job", "select"}
       PROVE  Watched'
  BY <1>1, <1>19 DEF Watched
<1>20. CASE CodeReturn
  <2>1. CASE aw = "none"
    <3>1. (loop = "job" /\ loop' = "drain") \/ loop' = "drain0"
      BY <1>20, <2>1 DEF CodeReturn, Goto, Here
    <3> QED BY <1>19, <1>20, <2>1, <3>1 DEF CodeReturn, Goto
  <2>2. CASE aw # "none"
    BY <1>14, <1>20, <2>2 DEF CodeReturn, Goto
  <2> QED BY <2>1, <2>2
<1>21. ASSUME NEW from, NEW job, NEW to, Drain(from, job, to),
              \/ from = "drain0" /\ job = "job0" /\ to = "check0"
              \/ from = "drain" /\ job = "job" /\ to = "select"
       PROVE  Watched'
  <2>1. CASE aw = "none"
    <3>1. loop = from /\ loop' \in {job, to} /\ aw' = aw
      BY <1>21, <2>1 DEF Drain, At, Here, Goto
    <3> QED BY <1>19, <1>21, <2>1, <3>1 DEF Drain
  <2>2. CASE aw # "none"
    BY <1>14, <1>21, <2>2 DEF Drain, Goto
  <2> QED BY <2>1, <2>2
<1>22. CASE \/ TakeStop \/ DeferCheck \/ DeferClose
            \/ SetLoopDone("stopped", "deferCheck") \/ SetLoopDone("deferDone", "exited")
  <2>1. aw = "none"
    BY <1>1, <1>22 DEF TakeStop, DeferCheck, DeferClose, SetLoopDone, At, Here, TypeOK, AwaitStates
  <2>2. loop' \in {"stopped", "deferCheck", "deferDone", "deferClose", "exited"} /\ aw' = aw
    BY <1>22, <2>1 DEF TakeStop, DeferCheck, DeferClose, SetLoopDone, Goto
  <2> QED BY <2>1, <2>2 DEF Watched
<1>23. CASE LeaveIfIdle
  <2>1. aw = "none" /\ aw' = aw
    BY <1>1, <1>23 DEF LeaveIfIdle, At, Here, Goto, TypeOK, AwaitStates
  <2>2. CASE active = 0 /\ ~loopDone
    BY <1>23, <2>1, <2>2 DEF LeaveIfIdle, Goto, Watched
  <2>3. CASE ~(active = 0 /\ ~loopDone)
    BY <1>23, <2>1, <2>3 DEF LeaveIfIdle, Goto, Watched
  <2> QED BY <2>2, <2>3
<1>24. ASSUME NEW on \in Goroutines \cup {Job}, AwaitBegin(on)
       PROVE  Watched'
  BY <1>1, <1>24 DEF AwaitBegin, Watched
<1>25. CASE AwaitCheck \/ AwaitSleep
  <2>1. aw # "none" /\ post' = post
    BY <1>1, <1>25 DEF AwaitCheck, AwaitSleep, At, Here, TypeOK, LoopStates, CodeKinds
  <2> QED BY <1>14, <1>25, <2>1 DEF AwaitCheck, AwaitSleep, Goto
<1> QED
  BY <1>4, <1>5, <1>6, <1>8, <1>9, <1>10, <1>11, <1>12, <1>13, <1>15, <1>16, <1>17, <1>18,
     <1>20, <1>21, <1>22, <1>23, <1>24, <1>25
     DEF Next, JsThread, Goroutine, Posting

\* RunLoop blocked with nothing alive always has its wake-up coming, as long as
\* no checkpoint job calls AwaitPromise (the run await_in_job shows it needed).
THEOREM NoLostWakeup ==
    ASSUME "job" \notin AwaitIn
    PROVE  Spec => []WakeupPending
<1>1. Init => WInv
  BY InitIInv DEF WInv, Watched, Init
<1>2. WInv /\ [Next]_vars => WInv'
  BY StepIInv, WatchedStep DEF WInv
<1>3. WInv => WakeupPending
  BY DEF WInv, Watched, WakeupPending
<1> QED BY <1>1, <1>2, <1>3, PTL DEF Spec

-----------------------------------------------------------------------------
(***************************************************************************)
(* EventLoop implements KeepAlive, for any constants: under the invariant  *)
(* above every step begins or ends one thing, stops or ends the loop, or   *)
(* leaves what KeepAlive sees as it is.                                    *)
(***************************************************************************)
Things == ({"ref"} \X Goroutines) \cup ({"post"} \X Tasks) \cup ({"handle"} \X Handles)

\* Counting one more element is the abstract loop beginning one thing, and one
\* less is its ending one.
LEMMA BeginsOne ==
    ASSUME NEW x, OneMore(x)
    PROVE  \E y \in Things : y \notin Alive /\ Alive' = Alive \cup {y}
<1>1. RefsHeld' \subseteq Goroutines /\ PostsLive' \subseteq Tasks /\ HandlesOpen' \subseteq Handles
  BY DEF RefsHeld, PostsLive, HandlesOpen
<1>2. CASE x \notin RefsHeld /\ RefsHeld' = RefsHeld \cup {x}
           /\ PostsLive' = PostsLive /\ HandlesOpen' = HandlesOpen
  <2>1. <<"ref", x>> \in Things /\ <<"ref", x>> \notin Alive
    BY <1>1, <1>2 DEF Things, Alive
  <2>2. Alive' = Alive \cup {<<"ref", x>>}
    BY <1>2 DEF Alive
  <2> QED BY <2>1, <2>2
<1>3. CASE x \notin PostsLive /\ PostsLive' = PostsLive \cup {x}
           /\ RefsHeld' = RefsHeld /\ HandlesOpen' = HandlesOpen
  <2>1. <<"post", x>> \in Things /\ <<"post", x>> \notin Alive
    BY <1>1, <1>3 DEF Things, Alive
  <2>2. Alive' = Alive \cup {<<"post", x>>}
    BY <1>3 DEF Alive
  <2> QED BY <2>1, <2>2
<1>4. CASE x \notin HandlesOpen /\ HandlesOpen' = HandlesOpen \cup {x}
           /\ RefsHeld' = RefsHeld /\ PostsLive' = PostsLive
  <2>1. <<"handle", x>> \in Things /\ <<"handle", x>> \notin Alive
    BY <1>1, <1>4 DEF Things, Alive
  <2>2. Alive' = Alive \cup {<<"handle", x>>}
    BY <1>4 DEF Alive
  <2> QED BY <2>1, <2>2
<1> QED BY <1>2, <1>3, <1>4 DEF OneMore

LEMMA EndsOne ==
    ASSUME NEW x, OneLess(x)
    PROVE  \E y \in Things : y \in Alive /\ Alive' = Alive \ {y}
<1>1. RefsHeld \subseteq Goroutines /\ PostsLive \subseteq Tasks /\ HandlesOpen \subseteq Handles
  BY DEF RefsHeld, PostsLive, HandlesOpen
<1>2. CASE x \in RefsHeld /\ RefsHeld' = RefsHeld \ {x}
           /\ PostsLive' = PostsLive /\ HandlesOpen' = HandlesOpen
  <2>1. <<"ref", x>> \in Things /\ <<"ref", x>> \in Alive
    BY <1>1, <1>2 DEF Things, Alive
  <2>2. Alive' = Alive \ {<<"ref", x>>}
    BY <1>2 DEF Alive
  <2> QED BY <2>1, <2>2
<1>3. CASE x \in PostsLive /\ PostsLive' = PostsLive \ {x}
           /\ RefsHeld' = RefsHeld /\ HandlesOpen' = HandlesOpen
  <2>1. <<"post", x>> \in Things /\ <<"post", x>> \in Alive
    BY <1>1, <1>3 DEF Things, Alive
  <2>2. Alive' = Alive \ {<<"post", x>>}
    BY <1>3 DEF Alive
  <2> QED BY <2>1, <2>2
<1>4. CASE x \in HandlesOpen /\ HandlesOpen' = HandlesOpen \ {x}
           /\ RefsHeld' = RefsHeld /\ PostsLive' = PostsLive
  <2>1. <<"handle", x>> \in Things /\ <<"handle", x>> \in Alive
    BY <1>1, <1>4 DEF Things, Alive
  <2>2. Alive' = Alive \ {<<"handle", x>>}
    BY <1>4 DEF Alive
  <2> QED BY <2>1, <2>2
<1> QED BY <1>2, <1>3, <1>4 DEF OneLess

\* A finished loop counts nothing new.
LEMMA NothingBegunWhenDone ==
    ASSUME TypeOK, loopDone, [Next]_vars
    PROVE  active' # active + 1
<1> USE DEF TypeOK, queueVars, sharedVars, jsVars, endVars
<1>1. CASE active' = active
  BY <1>1
<1>2. ASSUME NEW p, DecActive(p)
      PROVE  active' # active + 1
  BY <1>2 DEF DecActive
<1>3. ASSUME NEW t \in Tasks, BeginPost(t)
      PROVE  active' = active
  BY <1>3 DEF BeginPost
<1>4. CASE \/ \E g \in Goroutines, kind \in {"none", "inside", "after"} : Spawn(g, kind)
           \/ \E h \in Handles : OpenHandle(h)
           \/ EnqueueJob \/ CodeReturn
           \/ Drain("drain0", "job0", "check0") \/ Drain("drain", "job", "select")
           \/ TakeTask \/ TakeIdle \/ TakeStop \/ LeaveIfIdle
           \/ SetLoopDone("stopped", "deferCheck") \/ SetLoopDone("deferDone", "exited")
           \/ DeferCheck \/ DeferClose
           \/ (\E on \in Goroutines \cup {Job} : AwaitBegin(on))
           \/ AwaitCheck \/ AwaitSleep
  BY <1>1, <1>4 DEF Spawn, OpenHandle, EnqueueJob, CodeReturn, Drain, TakeTask, TakeIdle,
       TakeStop, LeaveIfIdle, SetLoopDone, DeferCheck, DeferClose, AwaitBegin, AwaitCheck,
       AwaitSleep
<1>5. CASE \/ \E h \in Handles : CloseHandle(h)
           \/ \E t \in Tasks : TaskReturn(t) \/ TaskDone(t)
           \/ \E g \in Goroutines : GoRelease(g)
           \/ \E t \in Tasks : Posting(t)
  BY <1>1, <1>2, <1>5 DEF CloseHandle, TaskReturn, TaskDone, GoRelease, Posting, Send,
       SendStopped, DropPost
<1>6. CASE (\E m \in SelfPosts : SelfPost(m)) \/ (\E g \in Goroutines : GoPost(g))
  BY <1>1, <1>3, <1>6 DEF SelfPost, GoPost, Tasks
<1>7. CASE \/ \E p \in Callers : Signal(p)
           \/ \E s \in Stoppers : StopCheck(s) \/ StopClose(s)
           \/ UNCHANGED vars
  BY <1>1, <1>7 DEF Signal, StopCheck, StopClose, vars
<1> QED
  BY <1>4, <1>5, <1>6, <1>7 DEF Next, JsThread, Goroutine

\* A step that starts, stops or ends the loop leaves what is alive alone.
Ending ==
    \/ LeaveIfIdle
    \/ SetLoopDone("stopped", "deferCheck") \/ SetLoopDone("deferDone", "exited")
    \/ DeferClose
    \/ \E s \in Stoppers : StopCheck(s) \/ StopClose(s)

LEMMA EndingOrNot ==
    ASSUME [Next]_vars
    PROVE  Ending \/ UNCHANGED <<loopDone, stopper>>
BY DEF Next, JsThread, Spawn, OpenHandle, CloseHandle, EnqueueJob, SelfPost,
     TaskReturn, TaskDone, CodeReturn, Drain, TakeTask, TakeIdle, TakeStop, DeferCheck,
     AwaitBegin, AwaitCheck, AwaitSleep, Signal, Goroutine, GoPost,
     GoRelease, Posting, Send, SendStopped, DropPost, endVars, vars, Ending

LEMMA EndingStepMaps ==
    ASSUME IInv, Ending
    PROVE  Abstract!Stop \/ Abstract!Exit \/ UNCHANGED Abstract!vars
<1> USE DEF Abstract!vars
<1>1. Alive' = Alive
  BY DEF Ending, LeaveIfIdle, SetLoopDone, DeferClose, StopCheck, StopClose, sharedVars,
       Alive, RefsHeld, PostsLive, HandlesOpen
<1>2. CASE LeaveIfIdle
  <2>1. StopCalled' = StopCalled
    BY <1>2 DEF LeaveIfIdle, StopCalled
  <2>2. CASE active = 0 /\ ~loopDone
    <3>1. Alive = {}
      BY <2>2, ZeroMeansEmpty DEF IInv, Alive
    <3>2. loopDone' = TRUE
      BY <1>2, <2>2 DEF LeaveIfIdle
    <3> QED BY <1>1, <2>1, <2>2, <3>1, <3>2 DEF Abstract!Exit
  <2>3. CASE ~(active = 0 /\ ~loopDone)
    BY <1>1, <1>2, <2>1, <2>3 DEF LeaveIfIdle
  <2> QED BY <2>2, <2>3
<1>3. CASE SetLoopDone("stopped", "deferCheck") \/ SetLoopDone("deferDone", "exited")
  <2>1. StopCalled' = StopCalled /\ loopDone' = TRUE
    BY <1>3 DEF SetLoopDone, StopCalled
  <2>2. loopDone \/ StopCalled
    BY <1>3 DEF SetLoopDone, At, Here, IInv, TypeOK, AwaitStates, LoopEnding
  <2>3. CASE loopDone
    BY <1>1, <2>1, <2>3 DEF IInv, TypeOK
  <2>4. CASE ~loopDone
    BY <1>1, <2>1, <2>2, <2>4 DEF Abstract!Exit
  <2> QED BY <2>3, <2>4
<1>4. CASE DeferClose
  BY <1>1, <1>4 DEF DeferClose, StopCalled
<1>5. ASSUME NEW s \in Stoppers, StopCheck(s) \/ StopClose(s)
      PROVE  Abstract!Stop
  <2>1. loopDone' = loopDone
    BY <1>5 DEF StopCheck, StopClose
  <2>2. stopper'[s] # "idle"
    BY <1>5 DEF StopCheck, StopClose, IInv, TypeOK
  <2>3. StopCalled' = TRUE
    BY <2>2 DEF StopCalled
  <2> QED BY <1>1, <2>1, <2>3 DEF Abstract!Stop
<1> QED BY <1>2, <1>3, <1>4, <1>5 DEF Ending

LEMMA StepMaps ==
    ASSUME IInv, [Next]_vars
    PROVE  [Abstract!Next]_(Abstract!vars)
<1> USE DEF Abstract!vars, Abstract!Next
<1>1. CASE Ending
  BY <1>1, EndingStepMaps
<1>2. CASE UNCHANGED <<loopDone, stopper>>
  <2>1. loopDone' = loopDone /\ StopCalled' = StopCalled
    BY <1>2 DEF StopCalled
  <2>2. CASE Unchanged3
    BY <2>1, <2>2 DEF Unchanged3, Alive
  <2>3. ASSUME NEW x, active' = active + 1, OneMore(x)
        PROVE  Abstract!Next
    <3>1. ~loopDone
      BY <2>3, NothingBegunWhenDone DEF IInv
    <3>2. PICK y \in Things : y \notin Alive /\ Alive' = Alive \cup {y}
      BY <2>3, BeginsOne
    <3>3. Abstract!Begin(y)
      BY <2>1, <3>1, <3>2 DEF Abstract!Begin
    <3> QED BY <3>3 DEF Things
  <2>4. ASSUME NEW x, OneLess(x)
        PROVE  Abstract!Next
    <3>1. PICK y \in Things : y \in Alive /\ Alive' = Alive \ {y}
      BY <2>4, EndsOne
    <3>2. Abstract!End(y)
      BY <2>1, <3>1 DEF Abstract!End
    <3> QED BY <3>2 DEF Things
  <2> QED BY <2>2, <2>3, <2>4, StepCounts DEF IInv, CountStep
<1> QED BY <1>1, <1>2, EndingOrNot

LEMMA InitMaps == Init => Abstract!Init
<1> SUFFICES ASSUME Init PROVE Abstract!Init
  OBVIOUS
<1>1. RefsHeld = {} /\ PostsLive = {} /\ HandlesOpen = {}
  BY DEF Init, RefsHeld, PostsLive, HandlesOpen
<1>2. Alive = {} /\ loopDone = FALSE /\ StopCalled = FALSE
  BY <1>1 DEF Init, Alive, StopCalled
<1> QED BY <1>2 DEF Abstract!Init

\* The event loop implements KeepAlive: what it counts is what keeps it alive,
\* it ends only with nothing left or after Stop, and nothing begins after that.
THEOREM LoopKeepsAlive == Spec => ImplementsKeepAliveSafely
<1>1. Spec => []IInv
  BY LoopInvariant
<1>2. IInv /\ [Next]_vars => [Abstract!Next]_(Abstract!vars)
  BY StepMaps
<1> QED
  BY <1>1, <1>2, InitMaps, PTL DEF Spec, ImplementsKeepAliveSafely, Abstract!Spec
=============================================================================

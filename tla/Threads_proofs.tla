--------------------------- MODULE Threads_proofs ---------------------------
(***************************************************************************)
(* Proofs about the two ways to run JavaScript beside JavaScript.  Worker, *)
(* for any capacities and any number of messages: both directions of the   *)
(* channel keep their order, and the process outlives the worker and its   *)
(* exit event.  Coroutine, for any bodies on one thread and any bounds:    *)
(* every frame keeps its cells, and a captured variable stays one.         *)
(***************************************************************************)
EXTENDS Worker, Coroutine, Integers, TLAPS

-----------------------------------------------------------------------------
(* Worker: the inductive invariant                                           *)

Numbers == Nat \ {0}

ThreadsOK ==
  /\ main \in {"run", "posting", "closing", "over"} /\ mainRef \in BOOLEAN
  /\ w \in {"loading", "loop", "task", "sending", "closing", "leaving", "failing", "gone"}
  /\ blockedIn \in {"loading", "task"}
  /\ posts \in Nat /\ sends \in 0..MaxSends
  /\ main = "posting" => posts > 0

QueuesOK ==
  /\ mainTasks \in Seq(Events) /\ seen \in Seq(Events) /\ Len(mainTasks) <= TaskCap
  /\ toWorker \in Seq(Numbers) /\ Len(toWorker) <= ToWorkerCap
  /\ wTasks \in Seq(Numbers) /\ Len(wTasks) <= TaskCap
  /\ got \in Seq(Numbers)
  /\ fw \in {<< >>, Gone} \/ \E m \in Numbers : fw = <<m>>

KeepOK == keep \in [count : Nat, held : BOOLEAN] /\ (keep.held <=> keep.count > 0)

\* Posted messages stand in line: handled ones, tasks, the one that the
\* forwarder holds, and those in the channel; all of them are older than the
\* one that a blocked postMessage is about to send.
InHand == IF fw = Gone THEN {} ELSE Range(fw)
Increasing(s) == \A i, j \in DOMAIN s : i < j => s[i] < s[j]
Before(S, T) == \A a \in S, b \in T : a < b
InLine ==
  /\ Increasing(got) /\ Increasing(wTasks) /\ Increasing(toWorker)
  /\ Before(Range(got), Range(wTasks) \cup InHand \cup Range(toWorker))
  /\ Before(Range(wTasks), InHand \cup Range(toWorker))
  /\ Before(InHand, Range(toWorker))
  /\ \A a \in Range(got) \cup Range(wTasks) \cup InHand \cup Range(toWorker) :
       a <= posts /\ (main = "posting" => a < posts)

\* The worker's messages arrive in order, and the exit or error event is last.
OnWire == IF w = "sending" THEN 1 ELSE 0
Ordered ==
  /\ w = "sending" => sends > 0
  /\ w # "gone" => /\ Len(Delivered) = sends - OnWire
                   /\ \A i \in DOMAIN Delivered : Delivered[i] = Message(i)
  /\ w = "gone" => /\ Len(Delivered) = sends + 1
                   /\ \A i \in 1..sends : Delivered[i] = Message(i)
                   /\ Delivered[sends + 1] \in {Error, Exit}

\* The main loop ends when the reference is released, and that is when the
\* worker is gone.
Referenced ==
  /\ mainRef \/ w = "gone"
  /\ main = "over" => ~mainRef /\ mainTasks = << >>

IInv == ThreadsOK /\ QueuesOK /\ KeepOK /\ InLine /\ Ordered /\ Referenced

-----------------------------------------------------------------------------
(* Sequences                                                                 *)

LEMMA AppendMore ==
  ASSUME NEW S, NEW s \in Seq(S), NEW m \in S
  PROVE  /\ Append(s, m) \in Seq(S) /\ Range(Append(s, m)) = Range(s) \cup {m}
         /\ Len(Append(s, m)) = Len(s) + 1 /\ Len(s) \in Nat
<1>1. /\ Append(s, m) \in Seq(S) /\ Len(Append(s, m)) = Len(s) + 1 /\ Len(s) \in Nat
      /\ DOMAIN s = 1..Len(s) /\ DOMAIN Append(s, m) = 1..Len(s) + 1
      /\ Append(s, m)[Len(s) + 1] = m /\ \A i \in 1..Len(s) : Append(s, m)[i] = s[i]
  OBVIOUS
<1>2. Range(Append(s, m)) \subseteq Range(s) \cup {m}
  BY <1>1 DEF Range
<1>3. m \in Range(Append(s, m))
  <2>1. Len(s) + 1 \in DOMAIN Append(s, m)
    BY <1>1
  <2>2. QED
    BY <1>1, <2>1 DEF Range
<1>4. Range(s) \subseteq Range(Append(s, m))
  BY <1>1 DEF Range
<1>5. QED
  BY <1>1, <1>2, <1>3, <1>4

LEMMA AppendIncreases ==
  ASSUME NEW s \in Seq(Numbers), NEW m \in Numbers, Increasing(s), Before(Range(s), {m})
  PROVE  Increasing(Append(s, m))
<1>1. /\ Len(s) \in Nat /\ DOMAIN s = 1..Len(s) /\ DOMAIN Append(s, m) = 1..Len(s) + 1
      /\ Append(s, m)[Len(s) + 1] = m /\ \A i \in 1..Len(s) : Append(s, m)[i] = s[i]
  OBVIOUS
<1>2. \A i \in 1..Len(s) : s[i] < m
  BY <1>1 DEF Range, Before
<1>3. QED
  BY <1>1, <1>2 DEF Increasing

LEMMA TailLess ==
  ASSUME NEW S, NEW s \in Seq(S), s # << >>
  PROVE  /\ Tail(s) \in Seq(S) /\ Head(s) \in S /\ Len(Tail(s)) = Len(s) - 1 /\ Len(s) \in Nat
         /\ Head(s) \in Range(s) /\ Range(Tail(s)) \subseteq Range(s)
<1>1. /\ Tail(s) \in Seq(S) /\ Head(s) \in S /\ Len(Tail(s)) = Len(s) - 1 /\ Len(s) \in Nat
      /\ Len(s) > 0 /\ Head(s) = s[1] /\ DOMAIN s = 1..Len(s) /\ DOMAIN Tail(s) = 1..Len(s) - 1
      /\ \A i \in 1..Len(s) - 1 : Tail(s)[i] = s[i + 1]
  OBVIOUS
<1>2. Head(s) \in Range(s)
  BY <1>1 DEF Range
<1>3. Range(Tail(s)) \subseteq Range(s)
  <2>1. \A i \in 1..Len(s) - 1 : i + 1 \in DOMAIN s
    BY <1>1
  <2>2. QED
    BY <1>1, <2>1 DEF Range
<1>4. QED
  BY <1>1, <1>2, <1>3

LEMMA TailIncreases ==
  ASSUME NEW s \in Seq(Numbers), s # << >>, Increasing(s)
  PROVE  Increasing(Tail(s)) /\ Before({Head(s)}, Range(Tail(s)))
<1>1. /\ Len(s) \in Nat /\ Len(s) > 0 /\ Head(s) = s[1]
      /\ DOMAIN s = 1..Len(s) /\ DOMAIN Tail(s) = 1..Len(s) - 1
      /\ \A i \in 1..Len(s) - 1 : Tail(s)[i] = s[i + 1]
  OBVIOUS
<1>2. Increasing(Tail(s))
  BY <1>1 DEF Increasing
<1>3. \A i \in 1..Len(s) - 1 : s[1] < s[i + 1]
  BY <1>1 DEF Increasing
<1>4. QED
  BY <1>1, <1>2, <1>3 DEF Before, Range

\* Taking the next task of the main loop moves it, and appending one appends.
LEMMA DeliveredMoves ==
  ASSUME QueuesOK, mainTasks # << >>, seen' = Append(seen, Head(mainTasks)), mainTasks' = Tail(mainTasks)
  PROVE  /\ seen' \in Seq(Events) /\ mainTasks' \in Seq(Events) /\ Len(mainTasks') <= TaskCap
         /\ Delivered' = Delivered
<1>1. mainTasks \in Seq(Events) /\ seen \in Seq(Events) /\ Len(mainTasks) <= TaskCap /\ TaskCap \in Nat
  BY CapsAssumption DEF QueuesOK
<1>2. /\ Tail(mainTasks) \in Seq(Events) /\ Head(mainTasks) \in Events
      /\ Len(Tail(mainTasks)) = Len(mainTasks) - 1 /\ Len(mainTasks) \in Nat
  BY <1>1, TailLess
<1>3. Append(seen, Head(mainTasks)) \o Tail(mainTasks) = seen \o mainTasks
  BY <1>1
<1>4. QED
  BY <1>1, <1>2, <1>3 DEF Delivered

LEMMA DeliveredGrows ==
  ASSUME QueuesOK, NEW x \in Events, ToMain(x), seen' = seen
  PROVE  /\ mainTasks' \in Seq(Events) /\ Len(mainTasks') <= TaskCap
         /\ Delivered' = Append(Delivered, x)
         /\ Len(Delivered') = Len(Delivered) + 1 /\ Len(Delivered) \in Nat
         /\ DOMAIN Delivered = 1..Len(Delivered)
         /\ Delivered'[Len(Delivered) + 1] = x
         /\ \A i \in 1..Len(Delivered) : Delivered'[i] = Delivered[i]
<1>1. mainTasks \in Seq(Events) /\ seen \in Seq(Events) /\ TaskCap \in Nat
  BY CapsAssumption DEF QueuesOK
<1>2. Len(mainTasks) < TaskCap /\ mainTasks' = Append(mainTasks, x)
  BY DEF ToMain
<1>3. mainTasks' \in Seq(Events) /\ Len(mainTasks') <= TaskCap
  BY <1>1, <1>2, AppendMore
<1>4. seen \o Append(mainTasks, x) = Append(seen \o mainTasks, x) /\ seen \o mainTasks \in Seq(Events)
  BY <1>1
<1>5. Delivered' = Append(Delivered, x) /\ Delivered \in Seq(Events)
  BY <1>2, <1>4 DEF Delivered
<1>6. QED
  BY <1>3, <1>5

-----------------------------------------------------------------------------
(* Steps                                                                     *)

LEMMA KeepChanges == KeepOK /\ keep' \in {keep, keepAdd, keepRemove} => KeepOK'
<1> SUFFICES ASSUME KeepOK, keep' \in {keep, keepAdd, keepRemove} PROVE KeepOK'
  OBVIOUS
<1>1. keep.count \in Nat /\ keep.held \in BOOLEAN /\ (keep.held <=> keep.count > 0)
  BY DEF KeepOK
<1>2. CASE keep' = keep
  BY <1>2 DEF KeepOK
<1>3. CASE keep' = keepAdd
  BY <1>1, <1>3 DEF KeepOK, keepAdd
<1>4. CASE keep' = keepRemove
  <2> DEFINE n == IF keep.count > 0 THEN keep.count - 1 ELSE 0
             h == keep.held /\ n > 0
  <2>1. keep' = [count |-> n, held |-> h]
    BY <1>4 DEF keepRemove
  <2>2. n \in Nat /\ h \in BOOLEAN
    BY <1>1
  <2>3. h <=> n > 0
    BY <1>1
  <2> HIDE DEF n, h
  <2>4. keep'.count = n /\ keep'.held = h /\ keep' \in [count : Nat, held : BOOLEAN]
    BY <2>1, <2>2
  <2>5. QED
    BY <2>3, <2>4 DEF KeepOK
<1>5. QED
  BY <1>2, <1>3, <1>4

\* A step that moves no message and ends no loop.
LEMMA QuietStep ==
  ASSUME IInv, UNCHANGED <<mainTasks, seen, toWorker, wTasks, got, fw, posts, sends, mainRef>>,
         ThreadsOK', KeepOK',
         main' = main \/ (main' \in {"run", "closing"} /\ main # "over"),
         w' = w \/ (w \notin {"sending", "gone"} /\ w' \notin {"sending", "gone"})
  PROVE  IInv'
<1>1. QueuesOK'
  BY DEF IInv, QueuesOK
<1>2. InLine'
  BY DEF IInv, InLine, InHand
<1>3. Ordered'
  BY DEF IInv, Ordered, Delivered, OnWire
<1>4. Referenced'
  BY DEF IInv, Referenced
<1>5. QED
  BY <1>1, <1>2, <1>3, <1>4 DEF IInv

\* A step that sends or moves a posted message and nothing else.
LEMMA PostedStep ==
  ASSUME IInv, UNCHANGED <<mainTasks, seen, sends, mainRef, keep, blockedIn>>, ThreadsOK', QueuesOK', InLine',
         main' = main \/ (main' # "over" /\ main # "over"),
         w' = w \/ (w \notin {"sending", "gone"} /\ w' \notin {"sending", "gone"})
  PROVE  IInv'
<1>1. KeepOK'
  BY DEF IInv, KeepOK
<1>2. Ordered'
  BY DEF IInv, Ordered, Delivered, OnWire
<1>3. Referenced'
  BY DEF IInv, Referenced
<1>4. QED
  BY <1>1, <1>2, <1>3 DEF IInv

LEMMA InitHolds == Init => IInv
<1> SUFFICES ASSUME Init PROVE IInv
  OBVIOUS
<1> USE CapsAssumption DEF Init
<1>1. ThreadsOK /\ KeepOK /\ Referenced
  BY DEF ThreadsOK, KeepOK, Referenced
<1>2. QueuesOK
  BY DEF QueuesOK
<1>3. Range(<< >>) = {}
  BY DEF Range
<1>4. InLine
  BY <1>3 DEF InLine, Increasing, Before, InHand
<1>5. Ordered
  BY DEF Ordered, Delivered, OnWire
<1>6. QED
  BY <1>1, <1>2, <1>4, <1>5 DEF IInv

\* The numbers in line are numbers.
LEMMA LineNumbers ==
  ASSUME QueuesOK
  PROVE  Range(got) \subseteq Numbers /\ Range(wTasks) \subseteq Numbers /\ InHand \subseteq Numbers /\ Range(toWorker) \subseteq Numbers
<1>1. ASSUME NEW q \in Seq(Numbers) PROVE Range(q) \subseteq Numbers
  BY DEF Range
<1>2. InHand \subseteq Numbers
  <2>1. CASE fw \in {<< >>, Gone}
    BY <2>1 DEF InHand, Range
  <2>2. CASE \E m \in Numbers : fw = <<m>>
    BY <2>2 DEF InHand, Range, Numbers
  <2>3. QED
    BY <2>1, <2>2 DEF QueuesOK
<1>3. QED
  BY <1>1, <1>2 DEF QueuesOK

Offer ==
  \/ Len(toWorker) < ToWorkerCap /\ toWorker' = Append(toWorker, posts') /\ main' = "run"
  \/ toWorker' = toWorker /\ main' \in {"run", "posting"}

\* postMessage, first try or not: the message joins the end of the line, or
\* is not sent, or is still to be sent.
LEMMA Sends ==
  ASSUME IInv, Offer, main \in {"run", "posting"}, posts' \in Numbers,
         \A a \in Range(got) \cup Range(wTasks) \cup InHand \cup Range(toWorker) : a < posts',
         UNCHANGED <<mainTasks, mainRef, seen, closed, stopFn, workerVars, crashed>>
  PROVE  IInv'
<1>1. QueuesOK /\ InLine /\ ThreadsOK
  BY DEF IInv
<1>2. UNCHANGED <<w, blockedIn, wTasks, sends, fw, keep, got>>
  BY DEF workerVars
<1>3. main' \in {"run", "posting"}
  BY DEF Offer
<1>4. ThreadsOK'
  BY <1>1, <1>2, <1>3 DEF ThreadsOK, Numbers
<1>5. CASE Len(toWorker) < ToWorkerCap /\ toWorker' = Append(toWorker, posts') /\ main' = "run"
  <2>1. toWorker' \in Seq(Numbers) /\ Len(toWorker') <= ToWorkerCap /\ Range(toWorker') = Range(toWorker) \cup {posts'}
    BY <1>1, <1>5, AppendMore, CapsAssumption DEF QueuesOK
  <2>2. Increasing(toWorker')
    BY <1>1, <1>5, AppendIncreases DEF QueuesOK, InLine, Before
  <2>3. QueuesOK'
    BY <1>1, <1>2, <2>1 DEF QueuesOK
  <2>4. InHand' = InHand
    BY <1>2 DEF InHand
  <2>5. InLine'
    <3>1. Range(got') = Range(got) /\ Range(wTasks') = Range(wTasks)
      BY <1>2
    <3>2. Increasing(got)' /\ Increasing(wTasks)'
      BY <1>1, <1>2 DEF InLine, Increasing
    <3>3. /\ Before(Range(got), Range(wTasks) \cup InHand \cup Range(toWorker'))
          /\ Before(Range(wTasks), InHand \cup Range(toWorker'))
          /\ Before(InHand, Range(toWorker'))
      BY <1>1, <2>1 DEF InLine, Before
    <3>4. \A a \in Range(got) \cup Range(wTasks) \cup InHand \cup Range(toWorker') : a <= posts'
      BY <1>1, <2>1, LineNumbers DEF Numbers
    <3>5. QED
      BY <1>5, <2>2, <2>4, <3>1, <3>2, <3>3, <3>4 DEF InLine
  <2>6. QED
    BY <1>2, <1>3, <1>4, <2>3, <2>5, PostedStep
<1>6. CASE toWorker' = toWorker
  <2>1. QueuesOK'
    BY <1>1, <1>2, <1>6 DEF QueuesOK
  <2>2. InLine'
    BY <1>1, <1>2, <1>6, LineNumbers DEF InLine, InHand, Numbers
  <2>3. QED
    BY <1>2, <1>3, <1>4, <2>1, <2>2, PostedStep
<1>7. QED
  BY <1>5, <1>6 DEF Offer

LEMMA NextNumber ==
  ASSUME IInv, posts' = posts + 1
  PROVE  posts' \in Numbers /\ \A a \in Range(got) \cup Range(wTasks) \cup InHand \cup Range(toWorker) : a < posts'
<1> DEFINE line == Range(got) \cup Range(wTasks) \cup InHand \cup Range(toWorker)
<1>1. posts \in Nat /\ \A a \in line : a <= posts
  BY DEF IInv, ThreadsOK, InLine
<1>2. line \subseteq Nat
  BY LineNumbers DEF IInv, Numbers
<1> HIDE DEF line
<1>3. posts' \in Numbers /\ \A a \in line : a < posts'
  BY <1>1, <1>2 DEF Numbers
<1>4. QED
  BY <1>3 DEF line

LEMMA MainKeeps ==
  ASSUME IInv, postMessage \/ Unblock \/ postMessageToThread \/ TerminateTest \/ TerminateClose \/ MainTask \/ MainLoopEnds
  PROVE  IInv'
<1>0. ThreadsOK /\ QueuesOK /\ KeepOK /\ InLine /\ Ordered /\ Referenced
  BY DEF IInv
<1>1. CASE postMessage
  <2>1. /\ main = "run" /\ posts' = posts + 1 /\ TrySend
        /\ UNCHANGED <<mainTasks, mainRef, seen, closed, stopFn, workerVars, crashed>>
    BY <1>1 DEF postMessage, Main
  <2>2. posts' \in Numbers /\ \A a \in Range(got) \cup Range(wTasks) \cup InHand \cup Range(toWorker) : a < posts'
    BY <2>1, NextNumber
  <2>3. QED
    BY <2>1, <2>2, Sends DEF TrySend, Offer
<1>2. CASE Unblock
  <2>1. /\ main = "posting" /\ posts' = posts /\ TrySend
        /\ UNCHANGED <<mainTasks, mainRef, seen, closed, stopFn, workerVars, crashed>>
    BY <1>2 DEF Unblock, Main
  <2>2. \A a \in Range(got) \cup Range(wTasks) \cup InHand \cup Range(toWorker) : a < posts'
    BY <1>0, <2>1 DEF InLine
  <2>3. posts > 0
    BY <1>0, <2>1 DEF ThreadsOK
  <2>4. QED
    BY <1>0, <2>1, <2>2, <2>3, Sends DEF ThreadsOK, Numbers, TrySend, Offer
<1>3. CASE postMessageToThread
  <2>1. /\ main = "run" /\ main' = main /\ posts' = posts + 1
        /\ UNCHANGED <<mainTasks, mainRef, seen, workerVars>>
        /\ \/ Len(toWorker) < ToWorkerCap /\ toWorker' = Append(toWorker, posts')
           \/ toWorker' = toWorker
    BY <1>3 DEF postMessageToThread, Main
  <2>2. posts' \in Numbers /\ \A a \in Range(got) \cup Range(wTasks) \cup InHand \cup Range(toWorker) : a < posts'
    BY <2>1, NextNumber
  <2>3. UNCHANGED <<closed, stopFn, crashed>>
    BY <1>3 DEF postMessageToThread
  <2>4. QED
    BY <2>1, <2>2, <2>3, Sends DEF Offer
<1>4. CASE TerminateTest
  <2>1. /\ main = "run" /\ main' \in {"run", "closing"}
        /\ UNCHANGED <<mainTasks, mainRef, seen, posts, toWorker, w, blockedIn, wTasks, sends, fw, keep, got>>
    BY <1>4 DEF TerminateTest, Main, chanVars
  <2>2. ThreadsOK' /\ KeepOK'
    BY <1>0, <2>1 DEF ThreadsOK, KeepOK
  <2>3. QED
    BY <2>1, <2>2, QuietStep
<1>5. CASE TerminateClose
  <2>1. /\ main = "closing" /\ main' = "run"
        /\ UNCHANGED <<mainTasks, mainRef, seen, posts, toWorker, w, blockedIn, wTasks, sends, fw, keep, got>>
    BY <1>5 DEF TerminateClose, Main
  <2>2. ThreadsOK' /\ KeepOK'
    BY <1>0, <2>1 DEF ThreadsOK, KeepOK
  <2>3. QED
    BY <2>1, <2>2, QuietStep
<1>6. CASE MainTask
  <2>1. /\ main = "run" /\ mainTasks # << >>
        /\ seen' = Append(seen, Head(mainTasks)) /\ mainTasks' = Tail(mainTasks)
        /\ UNCHANGED <<main, mainRef, posts, toWorker, w, blockedIn, wTasks, sends, fw, keep, got>>
    BY <1>6 DEF MainTask, Main, chanVars, workerVars
  <2>2. seen' \in Seq(Events) /\ mainTasks' \in Seq(Events) /\ Len(mainTasks') <= TaskCap /\ Delivered' = Delivered
    BY <1>0, <2>1, DeliveredMoves
  <2>3. ThreadsOK' /\ KeepOK' /\ QueuesOK'
    BY <1>0, <2>1, <2>2 DEF ThreadsOK, KeepOK, QueuesOK
  <2>4. InLine'
    BY <1>0, <2>1 DEF InLine, InHand
  <2>5. Ordered'
    BY <1>0, <2>1, <2>2 DEF Ordered, OnWire
  <2>6. Referenced'
    BY <1>0, <2>1 DEF Referenced
  <2>7. QED
    BY <2>3, <2>4, <2>5, <2>6 DEF IInv
<1>7. CASE MainLoopEnds
  <2>1. /\ main' = "over" /\ ~mainRef /\ mainTasks = << >>
        /\ UNCHANGED <<mainTasks, mainRef, seen, posts, toWorker, w, blockedIn, wTasks, sends, fw, keep, got>>
    BY <1>7 DEF MainLoopEnds, MainIdle, chanVars, workerVars
  <2>2. ThreadsOK' /\ KeepOK' /\ QueuesOK'
    BY <1>0, <2>1 DEF ThreadsOK, KeepOK, QueuesOK
  <2>3. InLine'
    BY <1>0, <2>1 DEF InLine, InHand
  <2>4. Ordered' /\ Referenced'
    BY <1>0, <2>1 DEF Ordered, Delivered, OnWire, Referenced
  <2>5. QED
    BY <2>2, <2>3, <2>4 DEF IInv
<1>8. QED
  BY <1>1, <1>2, <1>3, <1>4, <1>5, <1>6, <1>7

LEMMA ForwarderKeeps ==
  ASSUME IInv, ForwardTake \/ ForwardPost \/ ForwardEnd
  PROVE  IInv'
<1>0. ThreadsOK /\ QueuesOK /\ KeepOK /\ InLine /\ Ordered /\ Referenced
  BY DEF IInv
<1>1. UNCHANGED <<main, mainTasks, mainRef, seen, posts, w, blockedIn, sends, keep, got>>
  BY DEF ForwardTake, ForwardPost, ForwardEnd, mainVars, chanVars
<1>2. ThreadsOK'
  BY <1>0, <1>1 DEF ThreadsOK
<1>3. QueuesOK' /\ InLine' => IInv'
  BY <1>1, <1>2, PostedStep
<1>4. CASE ForwardTake
  <2> DEFINE m == Head(toWorker)
  <2>1. /\ fw = << >> /\ toWorker # << >> /\ toWorker' = Tail(toWorker) /\ wTasks' = wTasks
        /\ fw' = << >> \/ fw' = <<m>>
    BY <1>4 DEF ForwardTake
  <2>2. /\ Tail(toWorker) \in Seq(Numbers) /\ m \in Numbers /\ Len(Tail(toWorker)) <= ToWorkerCap
        /\ m \in Range(toWorker) /\ Range(Tail(toWorker)) \subseteq Range(toWorker)
    BY <1>0, <2>1, TailLess, CapsAssumption DEF QueuesOK
  <2>3. Increasing(Tail(toWorker)) /\ Before({m}, Range(Tail(toWorker)))
    BY <1>0, <2>1, TailIncreases DEF QueuesOK, InLine
  <2>4. QueuesOK'
    BY <1>0, <1>1, <2>1, <2>2 DEF QueuesOK
  <2>5. InHand' \subseteq {m}
    BY <2>1 DEF InHand, Range
  <2>6. /\ Before(Range(got), Range(wTasks) \cup InHand' \cup Range(toWorker'))
        /\ Before(Range(wTasks), InHand' \cup Range(toWorker'))
        /\ Before(InHand', Range(toWorker'))
    BY <1>0, <2>1, <2>2, <2>3, <2>5 DEF InLine, Before
  <2>7. \A a \in InHand' \cup Range(toWorker') : a \in Range(toWorker)
    BY <2>1, <2>2, <2>5
  <2>8. InLine'
    BY <1>0, <1>1, <2>1, <2>3, <2>6, <2>7 DEF InLine, Increasing
  <2>9. QED
    BY <1>3, <2>4, <2>8
<1>5. CASE ForwardPost
  <2>1. /\ Posting /\ fw' = << >> /\ toWorker' = toWorker
        /\ wTasks' = wTasks \/ (Len(wTasks) < TaskCap /\ wTasks' = wTasks \o fw)
    BY <1>5 DEF ForwardPost, chanVars
  <2>2. PICK m \in Numbers : fw = <<m>>
    BY <1>0, <2>1 DEF QueuesOK, Posting
  <2>3. InHand = {m} /\ InHand' = {}
    <3>1. fw # Gone /\ fw' # Gone
      BY <2>1 DEF Posting, Gone
    <3>2. QED
      BY <2>1, <2>2, <3>1 DEF InHand, Range
  <2>4. CASE wTasks' = wTasks
    <3>1. QueuesOK'
      BY <1>0, <1>1, <2>1, <2>4 DEF QueuesOK
    <3>2. InLine'
      BY <1>0, <1>1, <2>1, <2>3, <2>4 DEF InLine, Increasing, Before
    <3>3. QED
      BY <1>3, <3>1, <3>2
  <2>5. CASE Len(wTasks) < TaskCap /\ wTasks' = wTasks \o fw
    <3>1. wTasks' = Append(wTasks, m)
      BY <1>0, <2>2, <2>5 DEF QueuesOK
    <3>2. wTasks' \in Seq(Numbers) /\ Len(wTasks') <= TaskCap /\ Range(wTasks') = Range(wTasks) \cup {m}
      BY <1>0, <2>5, <3>1, AppendMore, CapsAssumption DEF QueuesOK
    <3>3. Increasing(wTasks')
      <4>1. Before(Range(wTasks), {m})
        BY <1>0, <2>3 DEF InLine, Before
      <4>2. QED
        BY <1>0, <3>1, <4>1, AppendIncreases DEF QueuesOK, InLine
    <3>4. QueuesOK'
      BY <1>0, <1>1, <2>1, <3>2 DEF QueuesOK
    <3>5. /\ Before(Range(got), Range(wTasks') \cup InHand' \cup Range(toWorker))
          /\ Before(Range(wTasks'), InHand' \cup Range(toWorker))
          /\ Before(InHand', Range(toWorker))
      BY <1>0, <2>3, <3>2 DEF InLine, Before
    <3>6. \A a \in Range(wTasks') \cup InHand' : a \in Range(wTasks) \cup InHand
      BY <2>3, <3>2
    <3>7. InLine'
      BY <1>0, <1>1, <2>1, <3>3, <3>5, <3>6 DEF InLine, Increasing
    <3>8. QED
      BY <1>3, <3>4, <3>7
  <2>6. QED
    BY <2>1, <2>4, <2>5
<1>6. CASE ForwardEnd
  <2>1. fw = << >> /\ fw' = Gone /\ toWorker' = toWorker /\ wTasks' = wTasks
    BY <1>6 DEF ForwardEnd, chanVars
  <2>2. InHand = {} /\ InHand' = {}
    BY <2>1 DEF InHand, Range, Gone
  <2>3. QueuesOK'
    BY <1>0, <1>1, <2>1 DEF QueuesOK
  <2>4. InLine'
    BY <1>0, <1>1, <2>1, <2>2 DEF InLine, Increasing
  <2>5. QED
    BY <1>3, <2>3, <2>4
<1>7. QED
  BY <1>4, <1>5, <1>6

\* The worker's JavaScript and goroutine, where no message is sent or handled.
LEMMA WorkerQuiet ==
  ASSUME IInv,
         \/ \E kind \in {"on", "once"} : AddListener(kind)
         \/ RemoveListener \/ RemoveAllListeners \/ PortClose \/ PortCloseDone
         \/ Loaded \/ LoadFails \/ TaskEnds \/ LoopEnds
  PROVE  IInv'
<1>0. ThreadsOK /\ KeepOK
  BY DEF IInv
<1> DEFINE Quiet == /\ UNCHANGED <<main, mainTasks, seen, toWorker, wTasks, got, fw, posts, sends, mainRef>>
                    /\ keep' \in {keep, keepAdd, keepRemove}
                    /\ blockedIn' \in {"loading", "task"}
                    /\ w' \in {"loading", "loop", "task", "closing", "leaving", "failing"}
                    /\ w \notin {"sending", "gone"}
<1>1. ASSUME NEW kind \in {"on", "once"}, AddListener(kind) PROVE Quiet
  BY <1>0, <1>1 DEF AddListener, NoChange, WorkerJS, W, mainVars, chanVars, ThreadsOK
<1>2. ASSUME RemoveListener PROVE Quiet
  BY <1>0, <1>2 DEF RemoveListener, wrapRemove, NoChange, WorkerJS, W, mainVars, chanVars, ThreadsOK
<1>3. ASSUME RemoveAllListeners PROVE Quiet
  BY <1>0, <1>3 DEF RemoveAllListeners, wrapRemove, NoChange, WorkerJS, W, mainVars, chanVars, ThreadsOK
<1>4. ASSUME PortClose PROVE Quiet
  BY <1>0, <1>4 DEF PortClose, WorkerJS, W, mainVars, chanVars, ThreadsOK
<1>5. ASSUME PortCloseDone PROVE Quiet
  BY <1>0, <1>5 DEF PortCloseDone, W, mainVars, ThreadsOK
<1>6. ASSUME Loaded PROVE Quiet
  BY <1>0, <1>6 DEF Loaded, W, mainVars, ThreadsOK
<1>7. ASSUME LoadFails \/ TaskEnds PROVE Quiet
  BY <1>0, <1>7 DEF LoadFails, TaskEnds, W, mainVars, chanVars, ThreadsOK
<1>8. ASSUME LoopEnds PROVE Quiet
  BY <1>0, <1>8 DEF LoopEnds, W, mainVars, chanVars, ThreadsOK
<1>9. Quiet
  BY <1>1, <1>2, <1>3, <1>4, <1>5, <1>6, <1>7, <1>8
<1>10. ThreadsOK'
  BY <1>0, <1>9 DEF ThreadsOK
<1>11. KeepOK'
  BY <1>0, <1>9, KeepChanges
<1>12. QED
  BY <1>9, <1>10, <1>11, QuietStep

\* The worker's messages, its exit, and the messages that it handles.
LEMMA WorkerSends ==
  ASSUME IInv, Send \/ SendDone \/ WorkerTask \/ PostExit \/ PostError \/ Release
  PROVE  IInv'
<1>0. ThreadsOK /\ QueuesOK /\ KeepOK /\ InLine /\ Ordered /\ Referenced
  BY DEF IInv
<1>1. UNCHANGED <<main, seen, posts, toWorker, fw, keep>>
  BY DEF Send, SendDone, WorkerTask, PostExit, PostError, Release, mainVars, chanVars, workerVars
<1>2. KeepOK'
  BY <1>0, <1>1 DEF KeepOK
<1>3. UNCHANGED <<wTasks, got>> => InLine'
  BY <1>0, <1>1 DEF InLine, InHand
<1>4. CASE Send
  <2>1. /\ w \in {"loading", "task"} /\ sends < MaxSends /\ sends' = sends + 1 /\ w' = "sending" /\ blockedIn' = w
        /\ UNCHANGED <<mainTasks, mainRef, wTasks, got>>
    BY <1>4 DEF Send, WorkerJS, W, mainVars
  <2>2. ThreadsOK' /\ QueuesOK'
    BY <1>0, <1>1, <2>1, CapsAssumption DEF ThreadsOK, QueuesOK
  <2>3. Ordered'
    BY <1>0, <1>1, <2>1 DEF ThreadsOK, Ordered, Delivered, OnWire
  <2>4. Referenced'
    BY <1>0, <1>1, <2>1 DEF Referenced
  <2>5. QED
    BY <1>2, <1>3, <2>1, <2>2, <2>3, <2>4 DEF IInv
<1>5. CASE SendDone
  <2>1. /\ w = "sending" /\ main # "over" /\ ToMain(Message(sends)) /\ w' = blockedIn
        /\ UNCHANGED <<blockedIn, sends, mainRef, wTasks, got>>
    BY <1>5 DEF SendDone, W
  <2>2. sends \in 1..MaxSends
    BY <1>0, <2>1, CapsAssumption DEF ThreadsOK, Ordered
  <2>3. Message(sends) \in Events
    BY <2>2 DEF Events
  <2>4. /\ mainTasks' \in Seq(Events) /\ Len(mainTasks') <= TaskCap
        /\ Len(Delivered') = Len(Delivered) + 1 /\ Len(Delivered) \in Nat
        /\ DOMAIN Delivered = 1..Len(Delivered) /\ DOMAIN Delivered' = 1..Len(Delivered) + 1
        /\ Delivered'[Len(Delivered) + 1] = Message(sends)
        /\ \A i \in 1..Len(Delivered) : Delivered'[i] = Delivered[i]
    BY <1>0, <1>1, <2>1, <2>3, DeliveredGrows
  <2>5. ThreadsOK' /\ QueuesOK'
    BY <1>0, <1>1, <2>1, <2>4 DEF ThreadsOK, QueuesOK
  <2>6. Ordered'
    <3>1. Len(Delivered) = sends - 1 /\ \A i \in DOMAIN Delivered : Delivered[i] = Message(i)
      BY <1>0, <2>1 DEF Ordered, OnWire
    <3>2. w' \in {"loading", "task"} /\ sends' = sends
      BY <1>0, <2>1 DEF ThreadsOK
    <3>3. Len(Delivered') = sends
      BY <2>2, <2>4, <3>1
    <3>4. \A i \in DOMAIN Delivered' : Delivered'[i] = Message(i)
      BY <2>2, <2>4, <3>1
    <3>5. QED
      BY <2>2, <3>2, <3>3, <3>4 DEF Ordered, OnWire
  <2>7. Referenced'
    BY <1>0, <1>1, <2>1 DEF ThreadsOK, Referenced
  <2>8. QED
    BY <1>2, <1>3, <2>1, <2>5, <2>6, <2>7 DEF IInv
<1>6. CASE PostExit \/ PostError
  <2>1. PICK x \in {Exit, Error} :
          /\ w \in {"leaving", "failing"} /\ main # "over" /\ ToMain(x) /\ w' = "gone"
          /\ UNCHANGED <<blockedIn, sends, mainRef, wTasks, got>>
    BY <1>6 DEF PostExit, PostError, W
  <2>2. x \in Events
    BY DEF Events
  <2>3. /\ mainTasks' \in Seq(Events) /\ Len(mainTasks') <= TaskCap
        /\ Len(Delivered') = Len(Delivered) + 1 /\ Len(Delivered) \in Nat
        /\ DOMAIN Delivered = 1..Len(Delivered)
        /\ Delivered'[Len(Delivered) + 1] = x
        /\ \A i \in 1..Len(Delivered) : Delivered'[i] = Delivered[i]
    BY <1>0, <1>1, <2>1, <2>2, DeliveredGrows
  <2>4. ThreadsOK' /\ QueuesOK'
    BY <1>0, <1>1, <2>1, <2>3 DEF ThreadsOK, QueuesOK
  <2>5. Ordered'
    <3>1. Len(Delivered) = sends /\ \A i \in DOMAIN Delivered : Delivered[i] = Message(i)
      BY <1>0, <2>1 DEF ThreadsOK, Ordered, OnWire
    <3>2. QED
      BY <2>1, <2>3, <3>1 DEF Ordered
  <2>6. Referenced'
    BY <1>0, <1>1, <2>1 DEF Referenced
  <2>7. QED
    BY <1>2, <1>3, <2>1, <2>4, <2>5, <2>6 DEF IInv
<1>7. CASE Release
  <2>1. w = "gone" /\ mainRef' = FALSE /\ UNCHANGED <<mainTasks, w, blockedIn, sends, wTasks, got>>
    BY <1>7 DEF Release, W, workerVars
  <2>2. ThreadsOK' /\ QueuesOK'
    BY <1>0, <1>1, <2>1 DEF ThreadsOK, QueuesOK
  <2>3. Ordered' /\ Referenced'
    BY <1>0, <1>1, <2>1 DEF Ordered, Delivered, OnWire, Referenced
  <2>4. QED
    BY <1>2, <1>3, <2>1, <2>2, <2>3 DEF IInv
<1>8. CASE WorkerTask
  <2> DEFINE m == Head(wTasks)
  <2>1. /\ w = "loop" /\ w' = "task" /\ wTasks # << >> /\ wTasks' = Tail(wTasks)
        /\ got' = got \/ got' = Append(got, m)
        /\ UNCHANGED <<mainTasks, mainRef, blockedIn, sends>>
    BY <1>8 DEF WorkerTask, W, mainVars
  <2>2. /\ Tail(wTasks) \in Seq(Numbers) /\ m \in Numbers /\ Len(Tail(wTasks)) <= TaskCap
        /\ m \in Range(wTasks) /\ Range(Tail(wTasks)) \subseteq Range(wTasks)
    BY <1>0, <2>1, TailLess, CapsAssumption DEF QueuesOK
  <2>3. Increasing(Tail(wTasks)) /\ Before({m}, Range(Tail(wTasks)))
    BY <1>0, <2>1, TailIncreases DEF QueuesOK, InLine
  <2>4. got' \in Seq(Numbers) /\ Range(got') \subseteq Range(got) \cup {m} /\ Increasing(got')
    <3>1. CASE got' = got
      BY <1>0, <3>1 DEF QueuesOK, InLine
    <3>2. CASE got' = Append(got, m)
      <4>1. Before(Range(got), {m})
        BY <1>0, <2>2 DEF InLine, Before
      <4>2. QED
        BY <1>0, <2>2, <3>2, <4>1, AppendMore, AppendIncreases DEF QueuesOK, InLine
    <3>3. QED
      BY <2>1, <3>1, <3>2
  <2>5. ThreadsOK' /\ QueuesOK'
    BY <1>0, <1>1, <2>1, <2>2, <2>4 DEF ThreadsOK, QueuesOK
  <2>6. InHand' = InHand
    BY <1>1 DEF InHand
  <2>7. /\ Before(Range(got'), Range(wTasks') \cup InHand \cup Range(toWorker))
        /\ Before(Range(wTasks'), InHand \cup Range(toWorker))
    BY <1>0, <2>1, <2>2, <2>3, <2>4 DEF InLine, Before
  <2>8. \A a \in Range(got') \cup Range(wTasks') : a \in Range(got) \cup Range(wTasks)
    BY <2>1, <2>2, <2>4
  <2>9. InLine'
    BY <1>0, <1>1, <2>1, <2>3, <2>4, <2>6, <2>7, <2>8 DEF InLine
  <2>10. Ordered' /\ Referenced'
    BY <1>0, <1>1, <2>1 DEF Ordered, Delivered, OnWire, Referenced
  <2>11. QED
    BY <1>2, <2>5, <2>9, <2>10 DEF IInv
<1>9. QED
  BY <1>4, <1>5, <1>6, <1>7, <1>8

LEMMA StutterKeeps == IInv /\ UNCHANGED vars => IInv'
<1> SUFFICES ASSUME IInv, UNCHANGED vars PROVE IInv'
  OBVIOUS
<1>1. UNCHANGED <<main, mainTasks, seen, toWorker, wTasks, got, fw, posts, sends, mainRef, w, blockedIn, keep>>
  BY DEF vars, mainVars, chanVars, workerVars
<1>2. ThreadsOK' /\ KeepOK'
  BY <1>1 DEF IInv, ThreadsOK, KeepOK
<1>3. QED
  BY <1>1, <1>2, QuietStep

\* Whatever the two threads, the forwarder and terminate interleave, the
\* events and messages are where IInv says.
THEOREM Inductive == Spec => []IInv
<1>1. ASSUME IInv, [Next]_vars PROVE IInv'
  BY <1>1, MainKeeps, ForwarderKeeps, WorkerQuiet, WorkerSends, StutterKeeps DEF Next, Ended
<1>2. QED
  BY InitHolds, <1>1, PTL DEF Spec

-----------------------------------------------------------------------------
(* What follows                                                              *)

\* Each direction of the channel keeps its order, and the Worker object emits
\* the worker's messages before its one exit or error event.
THEOREM OrderIsKept == Spec => []MessagesInOrder
<1>1. ASSUME IInv PROVE MessagesInOrder
  <2>0. ThreadsOK /\ QueuesOK /\ KeepOK /\ InLine /\ Ordered /\ Referenced
    BY <1>1 DEF IInv
  <2>1. TypeOK
    BY <2>0 DEF ThreadsOK, QueuesOK, KeepOK, TypeOK
  <2>2. PostsInOrder
    BY <2>0 DEF InLine, Increasing, PostsInOrder
  <2>3. Delivered \in Seq(Events)
    BY <2>0 DEF QueuesOK, Delivered
  <2>4. \A i \in Nat : Message(i) \notin {Error, Exit}
    BY DEF Message, Error, Exit
  <2>5. EventsInOrder
    <3>1. CASE w = "gone"
      <4>1. /\ Len(Delivered) = sends + 1 /\ sends \in Nat /\ Last(Delivered) \in {Error, Exit}
            /\ \A i \in 1..sends : Delivered[i] = Message(i)
        BY <2>0, <3>1 DEF Ordered, ThreadsOK, Last
      <4>2. QED
        BY <3>1, <4>1 DEF EventsInOrder
    <3>2. CASE w # "gone"
      <4>1. /\ Len(Delivered) = sends - OnWire /\ sends \in Nat /\ Len(Delivered) \in Nat
            /\ \A i \in 1..Len(Delivered) : Delivered[i] = Message(i)
        BY <2>0, <2>3, <3>2 DEF Ordered, ThreadsOK
      <4>2. Len(Delivered) > 0 => Last(Delivered) \notin {Error, Exit}
        BY <2>4, <4>1 DEF Last
      <4>3. QED
        BY <3>2, <4>1, <4>2 DEF EventsInOrder, OnWire
    <3>3. QED
      BY <3>1, <3>2
  <2>6. QED
    BY <2>1, <2>2, <2>5 DEF MessagesInOrder
<1>2. QED
  BY Inductive, <1>1, PTL

\* The main loop does not end before the worker's exit or error event was
\* emitted: release() comes after the task that emits it was posted.
THEOREM MainStays == Spec => []MainOutlivesWorker
<1>1. ASSUME IInv, main = "over"
      PROVE  w = "gone" /\ mainTasks = << >> /\ Last(seen) \in {Error, Exit}
  <2>1. w = "gone" /\ mainTasks = << >>
    BY <1>1 DEF IInv, Referenced
  <2>2. Delivered = seen
    BY <1>1, <2>1 DEF IInv, QueuesOK, Delivered
  <2>3. Len(seen) = sends + 1 /\ seen[sends + 1] \in {Error, Exit}
    BY <1>1, <2>1, <2>2 DEF IInv, Ordered
  <2>4. QED
    BY <2>1, <2>3 DEF Last
<1>2. QED
  BY Inductive, <1>1, PTL DEF MainOutlivesWorker

-----------------------------------------------------------------------------
(* Coroutine: the inductive invariant                                       *)

Cells == [of : Coroutines \cup {Plain, NoBody}, val : Values]
Frames == [who : Coroutines \cup {Plain}, base : Nat, ops : 0..MaxOps]
Bodies == [state : States, stack : Seq(Cells), base : Nat, closed : BOOLEAN]
Upvalues == [captured : BOOLEAN, open : BOOLEAN, index : Nat, val : Values]

MachineOK ==
  /\ stack \in Seq(Cells) /\ frames \in Seq(Frames) /\ shifted \in BOOLEAN
  /\ body \in [Coroutines -> Bodies] /\ up \in [Coroutines -> Upvalues]
  /\ said \in [Coroutines -> Values]

\* A frame is followed by the next one, the last by the end of the stack, and
\* its cells are its own.
LastCell(f) == f.base + 1 + f.ops
Owned(s, fs) ==
  \A i \in 1..Len(fs) :
    /\ LastCell(fs[i]) <= Len(s) /\ (i = Len(fs) => LastCell(fs[i]) = Len(s))
    /\ \A j \in 1..Len(fs) : i < j => LastCell(fs[i]) <= fs[j].base
    /\ i + 1 <= Len(fs) => LastCell(fs[i]) = fs[i + 1].base
    /\ \A k \in 1..Len(s) : Slot(fs[i]) <= k /\ k <= LastCell(fs[i]) => s[k].of = fs[i].who

\* The slot of a body that may await holds the variable's value.
Kept(s, fs, sd) ==
  \A i \in 1..Len(fs) : fs[i].who \in Awaiting => s[Slot(fs[i])].val = sd[fs[i].who]

In(fs, c) == \E i \in 1..Len(fs) : fs[i].who = c
Once(fs, c) == \A i, j \in 1..Len(fs) : fs[i].who = c /\ fs[j].who = c => i = j
SlotAt(fs, c, x) == \A i \in 1..Len(fs) : fs[i].who = c => x = Slot(fs[i])

Alone(c) == (Running(c) <=> In(frames, c)) /\ Once(frames, c)

\* The segment of a suspended body is its own.
Suspended(c) == body[c].state \in {"yielded", "awaiting"}
SegmentOK(c, s) == Len(s) \in 1..(1 + MaxOps) /\ \A k \in 1..Len(s) : s[k].of = c
Saved(c) == Suspended(c) => SegmentOK(c, body[c].stack)

\* An upvalue is open only while the body runs, and then points into its
\* frame.  Of a body that may await it is always open then; closed, it has
\* the variable's value, and the segment has that of one never captured.
Bound(c) ==
  /\ up[c].open => up[c].captured /\ Running(c) /\ SlotAt(frames, c, up[c].index)
  /\ body[c].state = "new" => said[c] = Undefined /\ ~up[c].captured
  /\ c \in Awaiting =>
       /\ up[c].captured => (Running(c) <=> up[c].open) /\ (~up[c].open => up[c].val = said[c])
       /\ Suspended(c) => /\ body[c].closed <=> up[c].captured
                          /\ ~up[c].captured => body[c].stack[1].val = said[c]

CoIInv ==
  /\ MachineOK /\ \A c \in Coroutines : Alone(c) /\ Saved(c)
  /\ ~shifted => Owned(stack, frames) /\ Kept(stack, frames, said) /\ \A c \in Coroutines : Bound(c)

-----------------------------------------------------------------------------
(* Cells and frames put on top and taken off                                *)

LEMMA Added ==
  ASSUME NEW S, NEW s \in Seq(S), NEW e \in S
  PROVE  /\ Append(s, e) \in Seq(S) /\ Len(Append(s, e)) = Len(s) + 1 /\ Len(s) \in Nat
         /\ \A k \in 1..Len(s) : Append(s, e)[k] = s[k] /\ s[k] \in S
         /\ Append(s, e)[Len(s) + 1] = e
OBVIOUS

LEMMA Joined ==
  ASSUME NEW S, NEW s \in Seq(S), NEW t \in Seq(S)
  PROVE  /\ s \o t \in Seq(S) /\ Len(s \o t) = Len(s) + Len(t) /\ Len(s) \in Nat /\ Len(t) \in Nat
         /\ \A k \in 1..Len(s) : (s \o t)[k] = s[k]
         /\ \A k \in 1..Len(t) : (s \o t)[Len(s) + k] = t[k]
OBVIOUS

LEMMA CutBack ==
  ASSUME NEW S, NEW s \in Seq(S), NEW n \in 0..Len(s)
  PROVE  /\ SubSeq(s, 1, n) \in Seq(S) /\ Len(SubSeq(s, 1, n)) = n
         /\ \A k \in 1..n : SubSeq(s, 1, n)[k] = s[k]
<1>1. n \in Nat /\ Len(s) \in Nat /\ n <= Len(s)
  OBVIOUS
<1>2. \A k \in 1..n : k \in 1..Len(s) /\ s[k] \in S
  BY <1>1
<1>3. SubSeq(s, 1, n) = [k \in 1..n |-> s[k]]
  BY <1>1
<1> QED BY <1>1, <1>2, <1>3

LEMMA CutOff ==
  ASSUME NEW S, NEW s \in Seq(S), NEW n \in 1..Len(s)
  PROVE  /\ SubSeq(s, n, Len(s)) \in Seq(S) /\ Len(SubSeq(s, n, Len(s))) = Len(s) - n + 1
         /\ \A k \in 1..Len(s) - n + 1 : SubSeq(s, n, Len(s))[k] = s[n + k - 1]
<1>1. n \in Nat /\ Len(s) \in Nat /\ 1 <= n /\ n <= Len(s)
  OBVIOUS
<1>2. \A k \in 1..Len(s) - n + 1 : n + k - 1 \in 1..Len(s) /\ s[n + k - 1] \in S
  BY <1>1
<1>3. SubSeq(s, n, Len(s)) = [k \in 1..Len(s) - n + 1 |-> s[n + k - 1]]
  BY <1>1
<1> QED BY <1>1, <1>2, <1>3

LEMMA FrontIs ==
  ASSUME NEW S, NEW s \in Seq(S), s # << >>
  PROVE  /\ Front(s) \in Seq(S) /\ Len(Front(s)) = Len(s) - 1 /\ Len(s) \in Nat /\ Len(s) > 0
         /\ \A k \in 1..Len(s) - 1 : Front(s)[k] = s[k] /\ k \in 1..Len(s)
         /\ s[Len(s)] \in S
<1>1. Len(s) \in Nat /\ Len(s) > 0
  OBVIOUS
<1>2. Len(s) - 1 \in 0..Len(s)
  BY <1>1
<1>3. Front(s) = SubSeq(s, 1, Len(s) - 1)
  BY DEF Front
<1>4. /\ Front(s) \in Seq(S) /\ Len(Front(s)) = Len(s) - 1
      /\ \A k \in 1..Len(s) - 1 : Front(s)[k] = s[k]
  BY <1>2, <1>3, CutBack
<1>5. s[Len(s)] \in S /\ \A k \in 1..Len(s) - 1 : k \in 1..Len(s)
  BY <1>1
<1> QED BY <1>1, <1>4, <1>5

LEMMA FrameFields ==
  ASSUME NEW f \in Frames
  PROVE  f.base \in Nat /\ f.ops \in Nat /\ f.ops \in 0..MaxOps /\ f.who \in Coroutines \cup {Plain}
BY CoroutineAssumption DEF Frames

LEMMA CellsInside ==
  ASSUME NEW f, f.base \in Nat, f.ops \in Nat, NEW n \in Nat, LastCell(f) <= n
  PROVE  /\ LastCell(f) \in Nat /\ Slot(f) \in Nat /\ Slot(f) \in 1..n /\ Slot(f) <= LastCell(f)
         /\ f.base < LastCell(f) /\ f.base < Slot(f)
<1>1. LastCell(f) = f.base + 1 + f.ops /\ Slot(f) = f.base + 1
  BY DEF LastCell, Slot
<1>2. \A a, b \in Nat : a + 1 + b <= n => a + 1 + b \in Nat /\ a + 1 \in 1..n /\ a + 1 <= a + 1 + b /\ a < a + 1 + b
  OBVIOUS
<1> QED BY <1>1, <1>2

\* A frame with its cells goes on top; onto an empty frame stack at any base.
LEMMA FramePushed ==
  ASSUME NEW s \in Seq(Cells), NEW t \in Seq(Cells), NEW fs \in Seq(Frames), NEW f \in Frames,
         NEW sd, Owned(s, fs), Kept(s, fs, sd),
         Len(fs) # 0 => f.base = Len(s) /\ \A k \in 1..Len(s) : t[k] = s[k],
         Len(t) = LastCell(f),
         \A k \in 1..Len(t) : Slot(f) <= k => t[k].of = f.who,
         f.who \in Awaiting => t[Slot(f)].val = sd[f.who]
  PROVE  Owned(t, Append(fs, f)) /\ Kept(t, Append(fs, f), sd)
<1> DEFINE gs == Append(fs, f)
<1>1. /\ Len(gs) = Len(fs) + 1 /\ Len(fs) \in Nat /\ gs[Len(fs) + 1] = f
      /\ \A i \in 1..Len(fs) : gs[i] = fs[i] /\ fs[i] \in Frames
  BY Added
<1> HIDE DEF gs
<1>2. f.base \in Nat /\ f.ops \in Nat /\ Len(s) \in Nat /\ Len(t) \in Nat
  BY FrameFields
<1>3. ASSUME NEW i \in 1..Len(fs)
      PROVE  /\ fs[i].base \in Nat /\ fs[i].ops \in Nat /\ Len(fs) # 0
             /\ LastCell(fs[i]) <= Len(s) /\ (i = Len(fs) => LastCell(fs[i]) = Len(s))
             /\ Slot(fs[i]) \in 1..Len(s) /\ LastCell(fs[i]) \in Nat
  <2>0. fs[i] \in Frames /\ Len(fs) # 0
    BY <1>1
  <2>1. fs[i].base \in Nat /\ fs[i].ops \in Nat /\ Len(fs) # 0
    BY <2>0, FrameFields
  <2>2. LastCell(fs[i]) <= Len(s) /\ (i = Len(fs) => LastCell(fs[i]) = Len(s))
    BY DEF Owned
  <2>4. Slot(fs[i]) \in 1..Len(s) /\ LastCell(fs[i]) \in Nat
    BY <1>2, <2>1, <2>2, CellsInside
  <2> QED BY <2>1, <2>2, <2>4
<1>4. ASSUME NEW i \in 1..Len(gs)
      PROVE  /\ LastCell(gs[i]) <= Len(t) /\ (i = Len(gs) => LastCell(gs[i]) = Len(t))
             /\ \A j \in 1..Len(gs) : i < j => LastCell(gs[i]) <= gs[j].base
             /\ i + 1 <= Len(gs) => LastCell(gs[i]) = gs[i + 1].base
             /\ \A k \in 1..Len(t) : Slot(gs[i]) <= k /\ k <= LastCell(gs[i]) => t[k].of = gs[i].who
             /\ gs[i].who \in Awaiting => t[Slot(gs[i])].val = sd[gs[i].who]
  <2>1. CASE i = Len(gs)
    <3>1. gs[i] = f /\ \A j \in 1..Len(gs) : ~(i < j)
      BY <1>1, <2>1
    <3>2. LastCell(gs[i]) = Len(t) /\ ~(i + 1 <= Len(gs))
      BY <1>1, <2>1, <3>1
    <3>3. LastCell(gs[i]) <= Len(t)
      BY <1>2, <3>2
    <3> QED BY <3>1, <3>2, <3>3
  <2>2. CASE i # Len(gs)
    <3>1. i \in 1..Len(fs) /\ gs[i] = fs[i] /\ i # Len(gs)
      BY <1>1, <2>2
    <3>2. f.base = Len(s) /\ \A k \in 1..Len(s) : t[k] = s[k]
      BY <1>3, <3>1
    <3>3. Len(s) <= Len(t)
      BY <1>2, <3>2 DEF LastCell
    <3>4. LastCell(fs[i]) <= Len(t) /\ LastCell(fs[i]) \in Nat
      <4>1. LastCell(fs[i]) <= Len(s) /\ LastCell(fs[i]) \in Nat
        BY <1>3, <3>1
      <4> QED BY <1>2, <3>3, <4>1
    <3>5. ASSUME NEW j \in 1..Len(gs), i < j PROVE LastCell(fs[i]) <= gs[j].base
      <4>1. CASE j = Len(gs)
        BY <4>1, <1>1, <1>3, <3>1, <3>2
      <4>2. CASE j # Len(gs)
        <5>1. j \in 1..Len(fs) /\ gs[j] = fs[j]
          BY <4>2, <1>1
        <5> QED BY <3>1, <3>5, <5>1 DEF Owned
      <4> QED BY <4>1, <4>2
    <3>6. ASSUME i + 1 <= Len(gs) PROVE LastCell(fs[i]) = gs[i + 1].base
      <4>1. CASE i = Len(fs)
        BY <4>1, <1>1, <1>3, <3>1, <3>2
      <4>2. CASE i # Len(fs)
        <5>1. i + 1 \in 1..Len(fs) /\ gs[i + 1] = fs[i + 1] /\ i + 1 <= Len(fs)
          BY <4>2, <1>1, <3>1
        <5> QED BY <3>1, <5>1 DEF Owned
      <4> QED BY <4>1, <4>2
    <3>7. ASSUME NEW k \in 1..Len(t), Slot(fs[i]) <= k, k <= LastCell(fs[i]) PROVE t[k].of = fs[i].who
      <4>1. k \in 1..Len(s)
        BY <1>2, <1>3, <3>1, <3>4, <3>7
      <4> QED BY <4>1, <3>1, <3>2, <3>7 DEF Owned
    <3>8. fs[i].who \in Awaiting => t[Slot(fs[i])].val = sd[fs[i].who]
      BY <1>3, <3>1, <3>2 DEF Kept
    <3> QED BY <3>1, <3>4, <3>5, <3>6, <3>7, <3>8
  <2> QED BY <2>1, <2>2
<1>5. Owned(t, gs)
  BY <1>4 DEF Owned
<1>6. Kept(t, gs, sd)
  BY <1>4 DEF Kept
<1> QED BY <1>5, <1>6 DEF gs

\* The top frame goes, and the stack is cut back to its base.
LEMMA FramePopped ==
  ASSUME NEW s \in Seq(Cells), NEW fs \in Seq(Frames), fs # << >>, NEW sd,
         Owned(s, fs), Kept(s, fs, sd)
  PROVE  /\ fs[Len(fs)].base \in 0..Len(s)
         /\ Owned(SubSeq(s, 1, fs[Len(fs)].base), Front(fs))
         /\ Kept(SubSeq(s, 1, fs[Len(fs)].base), Front(fs), sd)
<1> DEFINE n == Len(fs)
           gs == Front(fs)
           b == fs[n].base
           t == SubSeq(s, 1, b)
<1>1. /\ Len(gs) = n - 1 /\ n \in Nat /\ n > 0 /\ Len(s) \in Nat
      /\ \A i \in 1..n - 1 : gs[i] = fs[i] /\ i \in 1..n
  BY FrontIs
<1>2. ASSUME NEW i \in 1..n
      PROVE  /\ fs[i].base \in Nat /\ fs[i].ops \in Nat
             /\ LastCell(fs[i]) <= Len(s) /\ LastCell(fs[i]) \in Nat
             /\ Slot(fs[i]) <= LastCell(fs[i]) /\ Slot(fs[i]) \in Nat /\ Slot(fs[i]) >= 1
  <2>1. fs[i] \in Frames
    OBVIOUS
  <2>2. fs[i].base \in Nat /\ fs[i].ops \in Nat
    BY <2>1, FrameFields
  <2> QED BY <2>2 DEF Owned, LastCell, Slot
<1>3. b \in 0..Len(s)
  <2>1. n \in 1..n
    BY <1>1
  <2>2. b \in Nat /\ fs[n].ops \in Nat /\ LastCell(fs[n]) <= Len(s)
    BY <1>2, <2>1
  <2> QED BY <1>1, <2>2 DEF LastCell
<1>4. Len(t) = b /\ \A k \in 1..b : t[k] = s[k] /\ k \in 1..Len(s)
  BY <1>3, CutBack
<1> HIDE DEF t, gs
<1>5. ASSUME NEW i \in 1..Len(gs)
      PROVE  /\ LastCell(gs[i]) <= Len(t) /\ (i = Len(gs) => LastCell(gs[i]) = Len(t))
             /\ \A j \in 1..Len(gs) : i < j => LastCell(gs[i]) <= gs[j].base
             /\ i + 1 <= Len(gs) => LastCell(gs[i]) = gs[i + 1].base
             /\ \A k \in 1..Len(t) : Slot(gs[i]) <= k /\ k <= LastCell(gs[i]) => t[k].of = gs[i].who
             /\ gs[i].who \in Awaiting => t[Slot(gs[i])].val = sd[gs[i].who]
  <2>1. i \in 1..n /\ gs[i] = fs[i] /\ i < n /\ n \in 1..n /\ i + 1 <= n
    BY <1>1
  <2>2. LastCell(fs[i]) <= b
    BY <2>1 DEF Owned
  <2>3. i = Len(gs) => LastCell(fs[i]) = b
    <3>1. ASSUME i = Len(gs) PROVE i + 1 = n
      BY <1>1, <3>1
    <3> QED BY <2>1, <3>1 DEF Owned
  <2>4. ASSUME NEW j \in 1..Len(gs), i < j PROVE LastCell(fs[i]) <= gs[j].base
    <3>1. j \in 1..n /\ gs[j] = fs[j]
      BY <1>1
    <3> QED BY <2>1, <2>4, <3>1 DEF Owned
  <2>5. ASSUME i + 1 <= Len(gs) PROVE LastCell(fs[i]) = gs[i + 1].base
    <3>1. i + 1 <= n /\ gs[i + 1] = fs[i + 1]
      BY <1>1, <2>1, <2>5
    <3> QED BY <2>1, <3>1 DEF Owned
  <2>6. ASSUME NEW k \in 1..Len(t), Slot(fs[i]) <= k, k <= LastCell(fs[i]) PROVE t[k].of = fs[i].who
    <3>1. k \in 1..Len(s) /\ t[k] = s[k]
      BY <1>4
    <3> QED BY <2>1, <2>6, <3>1 DEF Owned
  <2>7. fs[i].who \in Awaiting => t[Slot(fs[i])].val = sd[fs[i].who]
    <3>1. Slot(fs[i]) \in 1..b
      BY <1>2, <1>3, <2>1, <2>2
    <3> QED BY <1>4, <2>1, <3>1 DEF Kept
  <2> QED BY <1>4, <2>1, <2>2, <2>3, <2>4, <2>5, <2>6, <2>7
<1>6. Owned(t, gs) /\ Kept(t, gs, sd)
  BY <1>5 DEF Owned, Kept
<1> QED BY <1>3, <1>6 DEF t, gs

\* The top frame has other operands.
WithOps(fs, o) == [fs EXCEPT ![Len(fs)].ops = o]

LEMMA OperandsChanged ==
  ASSUME NEW s \in Seq(Cells), NEW t \in Seq(Cells), NEW fs \in Seq(Frames), fs # << >>, NEW sd,
         NEW o \in 0..MaxOps, Owned(s, fs), Kept(s, fs, sd),
         Len(t) = fs[Len(fs)].base + 1 + o,
         \A k \in 1..Len(t) : (k \in 1..Len(s) /\ t[k] = s[k]) \/ (t[k].of = fs[Len(fs)].who /\ k > Len(s))
  PROVE  /\ WithOps(fs, o) \in Seq(Frames) /\ Len(WithOps(fs, o)) = Len(fs)
         /\ \A i \in 1..Len(fs) : WithOps(fs, o)[i].who = fs[i].who /\ WithOps(fs, o)[i].base = fs[i].base
         /\ Owned(t, WithOps(fs, o)) /\ Kept(t, WithOps(fs, o), sd)
<1> DEFINE n == Len(fs)
           f == [fs[n] EXCEPT !.ops = o]
           gs == WithOps(fs, o)
<1>1. n \in Nat /\ n > 0 /\ n \in 1..n /\ fs[n] \in Frames /\ \A i \in 1..n : fs[i] \in Frames
  OBVIOUS
<1>2. f \in Frames /\ f.who = fs[n].who /\ f.base = fs[n].base /\ f.ops = o
  BY <1>1 DEF Frames
<1>3. gs = [fs EXCEPT ![n] = f]
  BY DEF WithOps
<1> HIDE DEF f, gs
<1>4. /\ gs \in Seq(Frames) /\ Len(gs) = n /\ gs[n] = f
      /\ \A i \in 1..n : i # n => gs[i] = fs[i]
  BY <1>1, <1>2, <1>3
<1>5. \A i \in 1..n : gs[i].who = fs[i].who /\ gs[i].base = fs[i].base /\ Slot(gs[i]) = Slot(fs[i])
  BY <1>1, <1>2, <1>4 DEF Slot
<1>6. ASSUME NEW i \in 1..n
      PROVE  /\ fs[i].base \in Nat /\ fs[i].ops \in Nat
             /\ LastCell(fs[i]) = fs[i].base + 1 + fs[i].ops /\ Slot(fs[i]) = fs[i].base + 1
             /\ LastCell(fs[i]) <= Len(s) /\ Len(s) \in Nat /\ Len(t) \in Nat /\ o \in Nat
             /\ i # n => LastCell(fs[i]) <= fs[n].base /\ i < n
             /\ i = n => LastCell(fs[i]) = Len(s)
  <2>1. fs[i].base \in Nat /\ fs[i].ops \in Nat /\ Len(s) \in Nat /\ Len(t) \in Nat /\ o \in Nat
    BY <1>1, CoroutineAssumption DEF Frames
  <2>2. i # n => i < n
    BY <1>1
  <2> QED BY <1>1, <2>1, <2>2 DEF Owned, LastCell, Slot
<1>7. fs[n].base + 1 + o = Len(t) /\ LastCell(gs[n]) = Len(t)
  BY <1>2, <1>4 DEF LastCell
<1>8. ASSUME NEW i \in 1..n
      PROVE  /\ LastCell(gs[i]) <= Len(t) /\ (i = n => LastCell(gs[i]) = Len(t))
             /\ \A j \in 1..n : i < j => LastCell(gs[i]) <= gs[j].base
             /\ i + 1 <= n => LastCell(gs[i]) = gs[i + 1].base
             /\ \A k \in 1..Len(t) : Slot(gs[i]) <= k /\ k <= LastCell(gs[i]) => t[k].of = gs[i].who
             /\ gs[i].who \in Awaiting => t[Slot(gs[i])].val = sd[gs[i].who]
  <2>0. Slot(fs[i]) \in 1..Len(t) /\ Slot(fs[i]) \in 1..Len(s)
    <3>1. fs[n].base \in Nat /\ o \in Nat /\ Len(t) \in Nat
      BY <1>1, <1>6
    <3>2. Slot(fs[i]) \in 1..Len(s)
      BY <1>6, CellsInside
    <3>3. Slot(fs[i]) <= fs[n].base + 1
      <4>1. CASE i = n
        BY <1>6, <3>1, <4>1
      <4>2. CASE i # n
        <5>1. LastCell(fs[i]) <= fs[n].base /\ LastCell(fs[i]) \in Nat /\ Slot(fs[i]) <= LastCell(fs[i])
          BY <1>6, <4>2, CellsInside
        <5> QED BY <3>1, <3>2, <5>1
      <4> QED BY <4>1, <4>2
    <3> QED BY <1>7, <3>1, <3>2, <3>3
  <2>1. fs[i].who \in Awaiting => t[Slot(fs[i])].val = sd[fs[i].who]
    <3>1. t[Slot(fs[i])] = s[Slot(fs[i])]
      BY <2>0
    <3> QED BY <3>1 DEF Kept
  <2>2. CASE i = n
    <3>1. LastCell(gs[i]) <= Len(t) /\ \A j \in 1..n : ~(i < j)
      BY <1>6, <1>7, <2>2
    <3>2. ~(i + 1 <= n)
      BY <1>1, <2>2
    <3>3. ASSUME NEW k \in 1..Len(t), Slot(gs[i]) <= k PROVE t[k].of = gs[i].who
      <4>1. CASE k \in 1..Len(s) /\ t[k] = s[k]
        <5>0. LastCell(fs[n]) = Len(s) /\ Len(s) \in Nat /\ Slot(gs[i]) = Slot(fs[n])
          BY <1>1, <1>5, <1>6, <2>2
        <5>1. k <= LastCell(fs[n]) /\ Slot(fs[n]) <= k
          BY <3>3, <4>1, <5>0
        <5>2. s[k].of = fs[n].who
          BY <1>1, <4>1, <5>1 DEF Owned
        <5> QED BY <1>5, <2>2, <4>1, <5>2
      <4> QED BY <1>5, <2>2, <4>1
    <3> QED BY <1>5, <1>7, <2>1, <2>2, <3>1, <3>2, <3>3
  <2>3. CASE i # n
    <3>1. gs[i] = fs[i] /\ i < n
      BY <1>4, <1>6, <2>3
    <3>2. LastCell(fs[i]) <= Len(t)
      <4>1. fs[n].base \in Nat /\ o \in Nat /\ LastCell(fs[i]) <= fs[n].base /\ LastCell(fs[i]) \in Nat
        BY <1>1, <1>6, <2>3, CellsInside
      <4> QED BY <1>7, <4>1
    <3>3. \A j \in 1..n : i < j => LastCell(fs[i]) <= gs[j].base
      BY <1>5 DEF Owned
    <3>4. i + 1 <= n => LastCell(fs[i]) = gs[i + 1].base
      <4>1. i + 1 \in 1..n
        BY <1>1, <3>1
      <4> QED BY <1>5, <4>1 DEF Owned
    <3>5. ASSUME NEW k \in 1..Len(t), Slot(fs[i]) <= k, k <= LastCell(fs[i]) PROVE t[k].of = fs[i].who
      <4>0. LastCell(fs[i]) <= Len(s) /\ Len(s) \in Nat /\ fs[i].base \in Nat /\ fs[i].ops \in Nat
        BY <1>6
      <4>1. LastCell(fs[i]) <= Len(s) /\ LastCell(fs[i]) \in Nat /\ Len(s) \in Nat /\ k \in Nat /\ 1 <= k
        BY <4>0, CellsInside
      <4>2. k <= Len(s)
        BY <3>5, <4>1
      <4>3. k \in 1..Len(s) /\ t[k] = s[k]
        BY <4>1, <4>2
      <4> QED BY <3>5, <4>3 DEF Owned
    <3> QED BY <2>1, <2>3, <3>1, <3>2, <3>3, <3>4, <3>5
  <2> QED BY <2>2, <2>3
<1>9. Owned(t, gs) /\ Kept(t, gs, sd)
  BY <1>4, <1>8 DEF Owned, Kept
<1> QED BY <1>4, <1>5, <1>9 DEF gs

\* Distinct frames have distinct slots, on the stack.
LEMMA SlotsApart ==
  ASSUME NEW s \in Seq(Cells), NEW fs \in Seq(Frames), Owned(s, fs), NEW i \in 1..Len(fs)
  PROVE  /\ Slot(fs[i]) \in 1..Len(s) /\ s[Slot(fs[i])].of = fs[i].who
         /\ \A j \in 1..Len(fs) : i # j => Slot(fs[i]) # Slot(fs[j])
<1>1. ASSUME NEW j \in 1..Len(fs)
      PROVE  /\ fs[j].base \in Nat /\ fs[j].ops \in Nat
             /\ LastCell(fs[j]) = fs[j].base + 1 + fs[j].ops /\ Slot(fs[j]) = fs[j].base + 1
             /\ LastCell(fs[j]) <= Len(s) /\ Len(s) \in Nat /\ j \in Nat
             /\ \A k \in 1..Len(fs) : j < k => LastCell(fs[j]) <= fs[k].base
  <2>1. fs[j] \in Frames
    OBVIOUS
  <2>2. fs[j].base \in Nat /\ fs[j].ops \in Nat
    BY <2>1, FrameFields
  <2> QED BY <2>2 DEF Owned, LastCell, Slot
<1>2. Slot(fs[i]) \in 1..Len(s) /\ Slot(fs[i]) <= LastCell(fs[i])
  BY <1>1
<1>3. s[Slot(fs[i])].of = fs[i].who
  <2>1. Slot(fs[i]) <= Slot(fs[i])
    BY <1>1
  <2> QED BY <1>2, <2>1 DEF Owned
<1>4. ASSUME NEW j \in 1..Len(fs), i # j PROVE Slot(fs[i]) # Slot(fs[j])
  <2>1. i < j \/ j < i
    BY <1>1, <1>4
  <2>2. CASE i < j
    <3>1. LastCell(fs[i]) <= fs[j].base
      BY <1>1, <2>2
    <3> QED BY <1>1, <3>1
  <2>3. CASE j < i
    <3>1. LastCell(fs[j]) <= fs[i].base
      BY <1>1, <2>3
    <3> QED BY <1>1, <3>1
  <2> QED BY <2>1, <2>2, <2>3
<1> QED BY <1>2, <1>3, <1>4

\* The variable of the body in frame i is assigned, in its slot.
CellSet(s, x, v) == [s EXCEPT ![x].val = v]

LEMMA SlotWritten ==
  ASSUME NEW s \in Seq(Cells), NEW fs \in Seq(Frames), NEW sd \in [Coroutines -> Values],
         Owned(s, fs), Kept(s, fs, sd), NEW v \in Values,
         NEW i \in 1..Len(fs), fs[i].who \in Coroutines, Once(fs, fs[i].who)
  PROVE  LET t == CellSet(s, Slot(fs[i]), v)
         IN  t \in Seq(Cells) /\ Owned(t, fs) /\ Kept(t, fs, [sd EXCEPT ![fs[i].who] = v])
<1> DEFINE x == Slot(fs[i])
           c == fs[i].who
           e == [s[x] EXCEPT !.val = v]
           t == CellSet(s, x, v)
           sd2 == [sd EXCEPT ![c] = v]
<1>1. x \in 1..Len(s) /\ s[x] \in Cells
  BY SlotsApart
<1>2. e \in Cells /\ e.of = s[x].of /\ e.val = v
  BY <1>1 DEF Cells
<1>3. t = [s EXCEPT ![x] = e]
  BY DEF CellSet
<1> HIDE DEF e, t
<1>4. t \in Seq(Cells) /\ Len(t) = Len(s) /\ t[x] = e /\ \A k \in 1..Len(s) : k # x => t[k] = s[k]
  BY <1>1, <1>2, <1>3
<1>5. \A k \in 1..Len(s) : t[k].of = s[k].of
  BY <1>2, <1>4
<1>6. Owned(t, fs)
  BY <1>4, <1>5 DEF Owned
<1>7. Kept(t, fs, sd2)
  <2> SUFFICES ASSUME NEW j \in 1..Len(fs), fs[j].who \in Awaiting PROVE t[Slot(fs[j])].val = sd2[fs[j].who]
    BY DEF Kept
  <2>1. CASE j = i
    BY <1>2, <1>4, <2>1
  <2>2. CASE j # i
    <3>1. Slot(fs[j]) # x /\ Slot(fs[j]) \in 1..Len(s)
      BY <2>2, SlotsApart
    <3>2. fs[j].who # c
      BY <2>2 DEF Once
    <3>3. s[Slot(fs[j])].val = sd[fs[j].who]
      BY DEF Kept
    <3>4. sd2[fs[j].who] = sd[fs[j].who]
      BY <3>2
    <3> QED BY <1>4, <3>1, <3>3, <3>4
  <2> QED BY <2>1, <2>2
<1> QED BY <1>4, <1>6, <1>7 DEF t

-----------------------------------------------------------------------------
(* Whose frames there are                                                   *)

LEMMA PushedWho ==
  ASSUME NEW fs \in Seq(Frames), NEW f \in Frames, NEW c
  PROVE  LET gs == Append(fs, f)
         IN  /\ In(gs, c) <=> In(fs, c) \/ f.who = c
             /\ Once(fs, c) /\ (f.who = c => ~In(fs, c)) => Once(gs, c)
             /\ \A x : SlotAt(fs, c, x) /\ (f.who = c => x = Slot(f)) => SlotAt(gs, c, x)
             /\ \A x : f.who # c /\ SlotAt(fs, c, x) => SlotAt(gs, c, x)
<1> DEFINE gs == Append(fs, f)
<1>1. /\ Len(gs) = Len(fs) + 1 /\ Len(fs) \in Nat /\ gs[Len(fs) + 1] = f
      /\ \A k \in 1..Len(fs) : gs[k] = fs[k]
  BY Added
<1> HIDE DEF gs
<1>2. \A k \in 1..Len(gs) : k = Len(fs) + 1 \/ k \in 1..Len(fs)
  BY <1>1
<1>3. \A k \in 1..Len(fs) : k \in 1..Len(gs)
  BY <1>1
<1>4. Len(fs) + 1 \in 1..Len(gs)
  BY <1>1
<1>5. In(gs, c) <=> In(fs, c) \/ f.who = c
  BY <1>1, <1>2, <1>3, <1>4 DEF In
<1>6. Once(fs, c) /\ (f.who = c => ~In(fs, c)) => Once(gs, c)
  BY <1>1, <1>2 DEF Once, In
<1>7. \A x : SlotAt(fs, c, x) /\ (f.who = c => x = Slot(f)) => SlotAt(gs, c, x)
  BY <1>1, <1>2 DEF SlotAt
<1> QED BY <1>5, <1>6, <1>7 DEF gs

LEMMA PoppedWho ==
  ASSUME NEW fs \in Seq(Frames), fs # << >>, NEW c, Once(fs, c)
  PROVE  LET gs == Front(fs)
         IN  /\ In(gs, c) <=> In(fs, c) /\ fs[Len(fs)].who # c
             /\ Once(gs, c)
             /\ \A x : SlotAt(fs, c, x) => SlotAt(gs, c, x)
<1> DEFINE gs == Front(fs)
<1>1. /\ Len(gs) = Len(fs) - 1 /\ Len(fs) \in Nat /\ Len(fs) > 0
      /\ \A k \in 1..Len(fs) - 1 : gs[k] = fs[k] /\ k \in 1..Len(fs)
  BY FrontIs
<1> HIDE DEF gs
<1>2. \A k \in 1..Len(fs) : k = Len(fs) \/ k \in 1..Len(gs)
  BY <1>1
<1>3. \A k \in 1..Len(gs) : gs[k] = fs[k] /\ k \in 1..Len(fs) /\ k # Len(fs)
  BY <1>1
<1>4. Len(fs) \in 1..Len(fs)
  BY <1>1
<1>5. In(gs, c) <=> In(fs, c) /\ fs[Len(fs)].who # c
  BY <1>2, <1>3, <1>4 DEF In, Once
<1>6. Once(gs, c) /\ \A x : SlotAt(fs, c, x) => SlotAt(gs, c, x)
  BY <1>3 DEF Once, SlotAt
<1> QED BY <1>5, <1>6 DEF gs

LEMMA SameWho ==
  ASSUME NEW fs, NEW gs, Len(gs) = Len(fs),
         \A i \in 1..Len(fs) : gs[i].who = fs[i].who /\ gs[i].base = fs[i].base, NEW c
  PROVE  /\ In(gs, c) <=> In(fs, c)
         /\ Once(fs, c) => Once(gs, c)
         /\ \A x : SlotAt(fs, c, x) => SlotAt(gs, c, x)
BY DEF In, Once, SlotAt, Slot

-----------------------------------------------------------------------------
(* Records                                                                  *)

LEMMA UndefinedIsValue == Undefined \in Values
BY CoroutineAssumption DEF Undefined

LEMMA NewCell == \A me \in Coroutines \cup {Plain, NoBody} : Cell(me, Undefined) \in Cells
                    /\ Cell(me, Undefined).of = me /\ Cell(me, Undefined).val = Undefined
BY UndefinedIsValue DEF Cell, Cells

LEMMA Fresh ==
  /\ NewBody \in Bodies /\ NewUp \in Upvalues /\ Undefined \in Values
  /\ NewBody.state = "new" /\ ~NewUp.captured /\ ~NewUp.open
<1>1. << >> \in Seq(Cells) /\ "new" \in States
  BY DEF States
<1> QED BY <1>1, UndefinedIsValue DEF NewBody, NewUp, Bodies, Upvalues

LEMMA NewFrame ==
  ASSUME NEW me \in Coroutines \cup {Plain}, NEW b \in Nat, NEW o \in 0..MaxOps
  PROVE  [who |-> me, base |-> b, ops |-> o] \in Frames
BY DEF Frames

LEMMA OthersKept ==
  ASSUME NEW F, NEW S, F \in [Coroutines -> S], NEW c \in Coroutines, NEW e \in S
  PROVE  /\ [F EXCEPT ![c] = e] \in [Coroutines -> S] /\ [F EXCEPT ![c] = e][c] = e
         /\ \A d \in Coroutines : d # c => [F EXCEPT ![c] = e][d] = F[d]
OBVIOUS

Closed(u, x) == [u EXCEPT !.open = FALSE, !.val = x]
Opened(u, n) == [u EXCEPT !.open = TRUE, !.index = n]
Assigned(u, x) == [u EXCEPT !.val = x]

LEMMA UpvalueChanged ==
  ASSUME NEW u \in Upvalues, NEW x \in Values, NEW n \in Nat
  PROVE  /\ Closed(u, x) \in Upvalues /\ Closed(u, x).captured = u.captured
         /\ ~Closed(u, x).open /\ Closed(u, x).val = x
         /\ Opened(u, n) \in Upvalues /\ Opened(u, n).captured = u.captured
         /\ Opened(u, n).open /\ Opened(u, n).index = n /\ Opened(u, n).val = u.val
         /\ Assigned(u, x) \in Upvalues /\ Assigned(u, x).captured = u.captured
         /\ Assigned(u, x).open = u.open /\ Assigned(u, x).index = u.index /\ Assigned(u, x).val = x
BY DEF Upvalues, Closed, Opened, Assigned

LEMMA NewUpvalue ==
  ASSUME NEW x \in Values, NEW n \in Nat
  PROVE  LET e == [captured |-> TRUE, open |-> TRUE, index |-> n, val |-> x]
         IN  e \in Upvalues /\ e.captured /\ e.open /\ e.index = n
BY DEF Upvalues

InState(b, st) == [b EXCEPT !.state = st]
Emptied(b) == [b EXCEPT !.state = "executing", !.stack = << >>]
Restored(b) == [b EXCEPT !.state = "executing", !.stack = << >>, !.closed = FALSE]

LEMMA BodyChanged ==
  ASSUME NEW b \in Bodies, NEW st \in States
  PROVE  /\ InState(b, st) \in Bodies /\ InState(b, st).state = st
         /\ Emptied(b) \in Bodies /\ Emptied(b).state = "executing"
         /\ Restored(b) \in Bodies /\ Restored(b).state = "executing"
<1>1. << >> \in Seq(Cells) /\ "executing" \in States
  BY DEF States
<1> QED BY <1>1 DEF Bodies, InState, Emptied, Restored

\* closeUpvalues and reopenUpvalues change the upvalue of one body.
LEMMA UpvalueClosed ==
  ASSUME MachineOK, NEW c \in Coroutines, NEW f, Slot(f) \in 1..Len(stack), closeUpvalues(c, f)
  PROVE  /\ up' \in [Coroutines -> Upvalues] /\ \A d \in Coroutines : d # c => up'[d] = up[d]
         /\ up'[c].captured = up[c].captured /\ ~up'[c].open
         /\ up[c].open => up'[c].val = stack[Slot(f)].val
         /\ ~up[c].open => up'[c] = up[c]
<1> DEFINE x == stack[Slot(f)].val
           e == Closed(up[c], x)
<1>1. x \in Values /\ up[c] \in Upvalues
  <2>1. stack \in Seq(Cells) /\ up \in [Coroutines -> Upvalues]
    BY DEF MachineOK
  <2>2. stack[Slot(f)] \in Cells
    BY <2>1
  <2> QED BY <2>1, <2>2 DEF Cells
<1>3. e \in Upvalues /\ e.captured = up[c].captured /\ ~e.open /\ e.val = x
  <2>1. 0 \in Nat
    OBVIOUS
  <2> QED BY <1>1, <2>1, UpvalueChanged
<1>4. CASE up[c].open
  <2>1. up' = [up EXCEPT ![c] = e]
    BY <1>4 DEF closeUpvalues, Closed
  <2> HIDE DEF e
  <2> QED BY <1>3, <1>4, <2>1, OthersKept DEF MachineOK
<1>5. CASE ~up[c].open
  BY <1>5 DEF closeUpvalues, MachineOK
<1> QED BY <1>4, <1>5

-----------------------------------------------------------------------------
(* A coroutine that a step does not concern                                 *)

LEMMA Bystander ==
  ASSUME NEW c \in Coroutines, Alone(c), Saved(c), body'[c] = body[c],
         In(frames', c) <=> In(frames, c), Once(frames, c) => Once(frames', c)
  PROVE  Alone(c)' /\ Saved(c)'
BY DEF Alone, Saved, Running, Suspended

LEMMA BystanderBound ==
  ASSUME NEW c \in Coroutines, Bound(c), body'[c] = body[c], up'[c] = up[c], said'[c] = said[c],
         \A x : SlotAt(frames, c, x) => SlotAt(frames', c, x)
  PROVE  Bound(c)'
BY DEF Bound, Running, Suspended

\* The coroutine of the top frame is running.
LEMMA TopRuns ==
  ASSUME MachineOK, frames # << >>
  PROVE  /\ Len(frames) \in 1..Len(frames) /\ Top \in Frames
         /\ Top.base \in Nat /\ Top.ops \in Nat /\ Top.ops \in 0..MaxOps
         /\ Top.who \in Coroutines \cup {Plain} /\ In(frames, Top.who)
         /\ \A c \in Coroutines : Top.who = c /\ Alone(c) => Running(c) /\ SlotAt(frames, c, Slot(Top))
<1>1. Len(frames) \in 1..Len(frames) /\ Top \in Frames
  BY DEF MachineOK, Top
<1>2. Top.base \in Nat /\ Top.ops \in Nat /\ Top.ops \in 0..MaxOps /\ Top.who \in Coroutines \cup {Plain}
  BY <1>1, CoroutineAssumption DEF Frames
<1>3. In(frames, Top.who)
  BY <1>1 DEF In, Top
<1>4. \A c \in Coroutines : Top.who = c /\ Alone(c) => Running(c) /\ SlotAt(frames, c, Slot(Top))
  BY <1>1, <1>3 DEF Alone, Once, SlotAt, Top
<1> QED BY <1>1, <1>2, <1>3, <1>4

-----------------------------------------------------------------------------
(* Every action preserves the invariant                                     *)

LEMMA CallKeeps == CoIInv /\ callClosure => CoIInv'
<1> SUFFICES ASSUME CoIInv, callClosure PROVE CoIInv'
  OBVIOUS
<1> DEFINE f == [who |-> Plain, base |-> Len(stack), ops |-> 0]
           e == Cell(Plain, Undefined)
<1>1. MachineOK /\ ~shifted /\ Owned(stack, frames) /\ Kept(stack, frames, said)
      /\ stack' = Append(stack, e) /\ frames' = Append(frames, f)
  BY DEF CoIInv, callClosure
<1>2. UNCHANGED <<body, up, said, shifted>>
  BY DEF callClosure
<1>3. stack \in Seq(Cells) /\ frames \in Seq(Frames) /\ Len(stack) \in Nat
  BY <1>1 DEF MachineOK
<1>4. f \in Frames /\ f.who = Plain /\ f.base = Len(stack) /\ LastCell(f) = Len(stack) + 1 /\ Slot(f) = Len(stack) + 1
  <2>1. 0 \in 0..MaxOps
    BY CoroutineAssumption
  <2> QED BY <1>3, <2>1 DEF Frames, LastCell, Slot
<1>5. e \in Cells /\ e.of = Plain
  BY NewCell
<1> HIDE DEF f, e
<1>6. /\ stack' \in Seq(Cells) /\ Len(stack') = Len(stack) + 1 /\ stack'[Len(stack) + 1] = e
      /\ \A k \in 1..Len(stack) : stack'[k] = stack[k]
  BY <1>1, <1>3, <1>5, Added
<1>7. frames' \in Seq(Frames)
  BY <1>1, <1>3, <1>4, Added
<1>8. MachineOK'
  BY <1>1, <1>2, <1>6, <1>7 DEF MachineOK
<1>9. Owned(stack', frames') /\ Kept(stack', frames', said)
  <2>1. \A k \in 1..Len(stack') : Slot(f) <= k => stack'[k].of = f.who
    BY <1>3, <1>4, <1>5, <1>6
  <2>2. f.who \notin Awaiting
    BY <1>4, CoroutineAssumption DEF Coroutines, Awaiting
  <2> QED BY <1>1, <1>3, <1>4, <1>6, <2>1, <2>2, FramePushed
<1>10. ASSUME NEW c \in Coroutines PROVE Alone(c)' /\ Saved(c)' /\ Bound(c)'
  <2>1. f.who # c
    BY <1>4, CoroutineAssumption
  <2>2. /\ In(frames', c) <=> In(frames, c)
        /\ Once(frames, c) => Once(frames', c)
        /\ \A x : SlotAt(frames, c, x) => SlotAt(frames', c, x)
    BY <1>1, <1>3, <1>4, <2>1, PushedWho
  <2>3. Alone(c) /\ Saved(c) /\ Bound(c)
    BY <1>1 DEF CoIInv
  <2> QED BY <1>2, <2>2, <2>3, Bystander, BystanderBound
<1> QED BY <1>2, <1>8, <1>9, <1>10 DEF CoIInv

LEMMA ReturnKeeps == CoIInv /\ doReturn => CoIInv'
<1> SUFFICES ASSUME CoIInv, doReturn PROVE CoIInv'
  OBVIOUS
<1> DEFINE me == Top.who
<1>1. MachineOK /\ ~shifted /\ Owned(stack, frames) /\ Kept(stack, frames, said) /\ frames # << >>
      /\ stack' = SubSeq(stack, 1, frames[Len(frames)].base) /\ frames' = Front(frames)
      /\ closeUpvalues(me, Top)
      /\ body' = IF me \in Coroutines THEN [body EXCEPT ![me].state = "completed"] ELSE body
  BY DEF CoIInv, doReturn, InJS, Top
<1>2. UNCHANGED <<said, shifted>>
  BY DEF doReturn
<1>3. stack \in Seq(Cells) /\ frames \in Seq(Frames) /\ body \in [Coroutines -> Bodies] /\ up \in [Coroutines -> Upvalues]
  BY <1>1 DEF MachineOK
<1>4. /\ frames[Len(frames)].base \in 0..Len(stack)
      /\ Owned(stack', frames') /\ Kept(stack', frames', said)
  BY <1>1, <1>3, FramePopped
<1>5. stack' \in Seq(Cells) /\ frames' \in Seq(Frames)
  BY <1>1, <1>3, <1>4, CutBack, FrontIs
<1>6. Slot(Top) \in 1..Len(stack)
  BY <1>1, <1>3, TopRuns, SlotsApart DEF Top
<1>7. me \in Coroutines =>
        /\ up' \in [Coroutines -> Upvalues] /\ \A d \in Coroutines : d # me => up'[d] = up[d]
        /\ up'[me].captured = up[me].captured /\ ~up'[me].open
        /\ up[me].open => up'[me].val = stack[Slot(Top)].val
        /\ ~up[me].open => up'[me] = up[me]
  BY <1>1, <1>6, UpvalueClosed
<1>8. me \notin Coroutines => up' = up /\ body' = body
  BY <1>1 DEF closeUpvalues
<1>9. me \in Coroutines =>
        /\ body' \in [Coroutines -> Bodies] /\ body'[me].state = "completed"
        /\ \A d \in Coroutines : d # me => body'[d] = body[d]
  <2> SUFFICES ASSUME me \in Coroutines
               PROVE  /\ body' \in [Coroutines -> Bodies] /\ body'[me].state = "completed"
                      /\ \A d \in Coroutines : d # me => body'[d] = body[d]
    OBVIOUS
  <2> DEFINE e == InState(body[me], "completed")
  <2>1. body' = [body EXCEPT ![me] = e]
    BY <1>1 DEF InState
  <2>2. e \in Bodies /\ e.state = "completed"
    <3>1. "completed" \in States /\ body[me] \in Bodies
      BY <1>3 DEF States
    <3> QED BY <3>1, BodyChanged
  <2> HIDE DEF e
  <2> QED BY <1>3, <2>1, <2>2, OthersKept
<1>10. MachineOK'
  BY <1>1, <1>2, <1>3, <1>5, <1>7, <1>8, <1>9 DEF MachineOK
<1>11. ASSUME NEW c \in Coroutines PROVE Alone(c)' /\ Saved(c)' /\ Bound(c)'
  <2>0. Alone(c) /\ Saved(c) /\ Bound(c)
    BY <1>1 DEF CoIInv
  <2>1. /\ In(frames', c) <=> In(frames, c) /\ me # c
        /\ Once(frames', c)
        /\ \A x : SlotAt(frames, c, x) => SlotAt(frames', c, x)
    BY <1>1, <1>3, <2>0, PoppedWho DEF Alone, Top
  <2>2. CASE c # me
    <3>1. body'[c] = body[c] /\ up'[c] = up[c] /\ said'[c] = said[c]
      BY <1>2, <1>7, <1>8, <1>9, <2>2
    <3> QED BY <2>0, <2>1, <2>2, <3>1, Bystander, BystanderBound
  <2>3. CASE c = me
    <3>1. body'[c].state = "completed" /\ ~Running(c)' /\ ~Suspended(c)'
      BY <1>9, <2>3 DEF Running, Suspended
    <3>2. Running(c) /\ SlotAt(frames, c, Slot(Top))
      BY <1>1, <2>0, <2>3, TopRuns
    <3>3. Alone(c)' /\ Saved(c)'
      BY <2>1, <2>3, <3>1 DEF Alone, Saved
    <3>4. c \in Awaiting => stack[Slot(Top)].val = said[c]
      BY <1>1, <1>3, <2>3, TopRuns DEF Kept, Top
    <3>5. /\ up'[c].captured = up[c].captured /\ ~up'[c].open
          /\ up[c].open => up'[c].val = stack[Slot(Top)].val
      BY <1>7, <2>3
    <3>6. c \in Awaiting /\ up'[c].captured => up'[c].val = said[c]
      BY <2>0, <3>2, <3>4, <3>5 DEF Bound
    <3> QED BY <1>2, <3>1, <3>3, <3>5, <3>6 DEF Bound
  <2> QED BY <2>2, <2>3
<1> QED BY <1>2, <1>4, <1>10, <1>11 DEF CoIInv

LEMMA OperandKeeps == CoIInv /\ (Push \/ Pop) => CoIInv'
<1> SUFFICES ASSUME CoIInv, Push \/ Pop PROVE CoIInv'
  OBVIOUS
<1> DEFINE f == frames[Len(frames)]
<1>1. MachineOK /\ ~shifted /\ Owned(stack, frames) /\ Kept(stack, frames, said) /\ frames # << >>
      /\ UNCHANGED <<body, up, said, shifted>>
  BY DEF CoIInv, Push, Pop, InJS
<1>2. stack \in Seq(Cells) /\ frames \in Seq(Frames) /\ Len(stack) \in Nat /\ Top = f
  BY <1>1 DEF MachineOK, Top
<1>3. f.base \in Nat /\ f.ops \in Nat /\ f.who \in Coroutines \cup {Plain} /\ Len(frames) \in 1..Len(frames)
  BY <1>1, <1>2, TopRuns
<1>4. Len(stack) = f.base + 1 + f.ops
  <2>1. LastCell(f) = Len(stack)
    BY <1>1, <1>2, <1>3 DEF Owned
  <2> QED BY <2>1 DEF LastCell
<1> HIDE DEF f
<1>5. PICK o \in 0..MaxOps :
        /\ frames' = WithOps(frames, o)
        /\ stack' \in Seq(Cells) /\ Len(stack') = f.base + 1 + o
        /\ \A k \in 1..Len(stack') :
             (k \in 1..Len(stack) /\ stack'[k] = stack[k]) \/ (stack'[k].of = f.who /\ k > Len(stack))
  <2>1. CASE Push
    <3> DEFINE e == Cell(f.who, Undefined)
    <3>1. f.ops < MaxOps /\ stack' = Append(stack, e) /\ frames' = WithOps(frames, f.ops + 1)
      BY <1>2, <2>1 DEF Push, WithOps, Top, f
    <3>2. e \in Cells /\ e.of = f.who
      BY <1>3, NewCell
    <3> HIDE DEF e
    <3>3. /\ stack' \in Seq(Cells) /\ Len(stack') = Len(stack) + 1 /\ stack'[Len(stack) + 1] = e
          /\ \A k \in 1..Len(stack) : stack'[k] = stack[k]
      BY <1>2, <3>1, <3>2, Added
    <3>4. f.ops + 1 \in 0..MaxOps /\ Len(stack') = f.base + 1 + (f.ops + 1)
      <4>1. f.base \in Nat /\ f.ops \in Nat /\ MaxOps \in Nat /\ f.ops < MaxOps
        BY <1>3, <3>1, CoroutineAssumption
      <4>2. Len(stack') = f.base + 1 + f.ops + 1
        BY <1>4, <3>3
      <4>3. \A a, b, m \in Nat : a < m => a + 1 \in 0..m /\ b + 1 + a + 1 = b + 1 + (a + 1)
        OBVIOUS
      <4> QED BY <4>1, <4>2, <4>3
    <3>5. \A k \in 1..Len(stack') : k \in 1..Len(stack) \/ (k = Len(stack) + 1 /\ k > Len(stack))
      BY <1>2, <3>3
    <3>6. ASSUME NEW k \in 1..Len(stack')
          PROVE  (k \in 1..Len(stack) /\ stack'[k] = stack[k]) \/ (stack'[k].of = f.who /\ k > Len(stack))
      <4>1. CASE k \in 1..Len(stack)
        BY <3>3, <4>1
      <4>2. CASE k = Len(stack) + 1 /\ k > Len(stack)
        BY <3>2, <3>3, <4>2
      <4> QED BY <3>5, <4>1, <4>2
    <3> QED BY <3>1, <3>3, <3>4, <3>6
  <2>2. CASE Pop
    <3>1. f.ops > 0 /\ stack' = Front(stack) /\ frames' = WithOps(frames, f.ops - 1)
      BY <1>2, <2>2 DEF Pop, WithOps, Top, f
    <3>2. stack # << >>
      BY <1>2, <1>3, <1>4
    <3>3. /\ stack' \in Seq(Cells) /\ Len(stack') = Len(stack) - 1
          /\ \A k \in 1..Len(stack) - 1 : stack'[k] = stack[k] /\ k \in 1..Len(stack)
      BY <1>2, <3>1, <3>2, FrontIs
    <3>4. f.ops - 1 \in 0..MaxOps /\ Len(stack') = f.base + 1 + (f.ops - 1)
      <4>1. f.base \in Nat /\ f.ops \in 0..MaxOps /\ MaxOps \in Nat /\ f.ops > 0
        BY <1>1, <1>2, <1>3, <3>1, TopRuns, CoroutineAssumption
      <4>2. Len(stack') = f.base + 1 + f.ops - 1
        <5>1. Len(stack') = Len(stack) - 1
          BY <3>3
        <5> QED BY <1>4, <4>1, <5>1
      <4> QED BY <4>1, <4>2
    <3> QED BY <3>1, <3>3, <3>4
  <2> QED BY <2>1, <2>2
<1>6. /\ frames' \in Seq(Frames) /\ Len(frames') = Len(frames)
      /\ \A i \in 1..Len(frames) : frames'[i].who = frames[i].who /\ frames'[i].base = frames[i].base
      /\ Owned(stack', frames') /\ Kept(stack', frames', said)
  <2>1. Len(stack') = frames[Len(frames)].base + 1 + o
    BY <1>5 DEF f
  <2>2. \A k \in 1..Len(stack') :
           (k \in 1..Len(stack) /\ stack'[k] = stack[k]) \/ (stack'[k].of = frames[Len(frames)].who /\ k > Len(stack))
    BY <1>5 DEF f
  <2>3. /\ WithOps(frames, o) \in Seq(Frames) /\ Len(WithOps(frames, o)) = Len(frames)
        /\ \A i \in 1..Len(frames) : /\ WithOps(frames, o)[i].who = frames[i].who
                                     /\ WithOps(frames, o)[i].base = frames[i].base
        /\ Owned(stack', WithOps(frames, o)) /\ Kept(stack', WithOps(frames, o), said)
    BY <1>1, <1>2, <1>5, <2>1, <2>2, OperandsChanged
  <2> QED BY <1>5, <2>3
<1>7. MachineOK'
  BY <1>1, <1>5, <1>6 DEF MachineOK
<1>8. ASSUME NEW c \in Coroutines PROVE Alone(c)' /\ Saved(c)' /\ Bound(c)'
  <2>1. Alone(c) /\ Saved(c) /\ Bound(c)
    BY <1>1 DEF CoIInv
  <2>2. /\ In(frames', c) <=> In(frames, c)
        /\ Once(frames, c) => Once(frames', c)
        /\ \A x : SlotAt(frames, c, x) => SlotAt(frames', c, x)
    BY <1>6, SameWho
  <2> QED BY <1>1, <2>1, <2>2, Bystander, BystanderBound
<1> QED BY <1>1, <1>6, <1>7, <1>8 DEF CoIInv

LEMMA CaptureKeeps == CoIInv /\ captureUpvalues => CoIInv'
<1> SUFFICES ASSUME CoIInv, captureUpvalues PROVE CoIInv'
  OBVIOUS
<1> DEFINE me == Top.who
           e == [captured |-> TRUE, open |-> TRUE, index |-> Slot(Top), val |-> Undefined]
<1>1. MachineOK /\ ~shifted /\ Owned(stack, frames) /\ Kept(stack, frames, said) /\ frames # << >>
      /\ me \in Coroutines /\ up' = [up EXCEPT ![me] = e]
      /\ UNCHANGED <<stack, frames, body, said, shifted>>
  BY DEF CoIInv, captureUpvalues, InJS
<1>2. up \in [Coroutines -> Upvalues] /\ Slot(Top) \in Nat
  BY <1>1, TopRuns DEF MachineOK, Slot
<1>3. e \in Upvalues /\ e.captured /\ e.open /\ e.index = Slot(Top)
  BY <1>2, UndefinedIsValue, NewUpvalue
<1> HIDE DEF e
<1>4. up' \in [Coroutines -> Upvalues] /\ up'[me] = e /\ \A d \in Coroutines : d # me => up'[d] = up[d]
  BY <1>1, <1>2, <1>3, OthersKept
<1>5. MachineOK'
  BY <1>1, <1>4 DEF MachineOK
<1>6. ASSUME NEW c \in Coroutines PROVE Alone(c)' /\ Saved(c)' /\ Bound(c)'
  <2>1. Alone(c) /\ Saved(c) /\ Bound(c)
    BY <1>1 DEF CoIInv
  <2>2. Alone(c)' /\ Saved(c)'
    BY <1>1, <2>1 DEF Alone, Saved, Running, Suspended
  <2>3. CASE c # me
    <3>1. body'[c] = body[c] /\ up'[c] = up[c] /\ said'[c] = said[c] /\ frames' = frames
      BY <1>1, <1>4, <2>3
    <3>2. \A x : SlotAt(frames, c, x) => SlotAt(frames', c, x)
      BY <3>1
    <3> QED BY <2>1, <2>2, <3>1, <3>2, BystanderBound
  <2>4. CASE c = me
    <3>1. Running(c) /\ SlotAt(frames, c, Slot(Top))
      BY <1>1, <2>1, <2>4, TopRuns
    <3>2. Running(c)' /\ ~Suspended(c)' /\ body'[c].state # "new"
      BY <1>1, <3>1 DEF Running, Suspended
    <3>3. up'[c].captured /\ up'[c].open /\ SlotAt(frames', c, up'[c].index)
      BY <1>1, <1>3, <1>4, <2>4, <3>1
    <3>4. Bound(c)'
      BY <3>2, <3>3 DEF Bound
    <3> QED BY <2>2, <3>4
  <2> QED BY <2>3, <2>4
<1>7. Owned(stack', frames') /\ Kept(stack', frames', said')
  BY <1>1
<1> QED BY <1>1, <1>5, <1>6, <1>7 DEF CoIInv

LEMMA StoreLocalKeeps ==
  ASSUME CoIInv, NEW v \in Values, StoreLocal(v)
  PROVE  CoIInv'
<1> DEFINE me == Top.who
           n == Len(frames)
<1>1. MachineOK /\ ~shifted /\ Owned(stack, frames) /\ Kept(stack, frames, said) /\ frames # << >>
      /\ me \in Coroutines /\ Alone(me)
      /\ stack' = CellSet(stack, Slot(frames[n]), v) /\ said' = [said EXCEPT ![frames[n].who] = v]
      /\ UNCHANGED <<frames, body, up, shifted>>
  BY DEF CoIInv, StoreLocal, InJS, Top, CellSet
<1>2. stack \in Seq(Cells) /\ frames \in Seq(Frames) /\ said \in [Coroutines -> Values]
  BY <1>1 DEF MachineOK
<1>3. n \in 1..n /\ frames[n].who = me /\ Once(frames, me)
  BY <1>1, TopRuns DEF Alone, Top
<1>4. stack' \in Seq(Cells) /\ Owned(stack', frames) /\ Kept(stack', frames, said')
  BY <1>1, <1>2, <1>3, SlotWritten
<1>5. said' \in [Coroutines -> Values] /\ \A c \in Coroutines : c # me => said'[c] = said[c]
  BY <1>1, <1>2, <1>3
<1>6. MachineOK'
  BY <1>1, <1>4, <1>5 DEF MachineOK
<1>7. ASSUME NEW c \in Coroutines PROVE Alone(c)' /\ Saved(c)' /\ Bound(c)'
  <2>1. Alone(c) /\ Saved(c) /\ Bound(c)
    BY <1>1 DEF CoIInv
  <2>2. body'[c] = body[c] /\ up'[c] = up[c] /\ frames' = frames
    BY <1>1
  <2>3. Alone(c)' /\ Saved(c)'
    BY <2>1, <2>2 DEF Alone, Saved, Running, Suspended
  <2>4. CASE c # me
    <3>1. said'[c] = said[c]
      BY <1>5, <2>4
    <3> QED BY <2>1, <2>2, <2>3, <3>1, BystanderBound
  <2>5. CASE c = me
    <3>1. Running(c) /\ ~Suspended(c) /\ body[c].state # "new"
      BY <1>1, <2>1, <2>5, TopRuns DEF Running, Suspended
    <3>2. Bound(c)'
      BY <2>1, <2>2, <3>1 DEF Bound, Running, Suspended
    <3> QED BY <2>3, <3>2
  <2> QED BY <2>4, <2>5
<1> QED BY <1>1, <1>4, <1>6, <1>7 DEF CoIInv

LEMMA StoreUpvalueKeeps ==
  ASSUME CoIInv, NEW c \in Coroutines, NEW v \in Values, StoreUpvalue(c, v)
  PROVE  CoIInv'
<1>1. MachineOK /\ ~shifted /\ Owned(stack, frames) /\ Kept(stack, frames, said)
      /\ up[c].captured /\ said' = [said EXCEPT ![c] = v]
      /\ UNCHANGED <<frames, body, shifted>>
  BY DEF CoIInv, StoreUpvalue, InJS
<1>2. stack \in Seq(Cells) /\ frames \in Seq(Frames) /\ said \in [Coroutines -> Values]
      /\ up \in [Coroutines -> Upvalues]
  BY <1>1 DEF MachineOK
<1>3. said' \in [Coroutines -> Values] /\ said'[c] = v /\ \A d \in Coroutines : d # c => said'[d] = said[d]
  BY <1>1, <1>2
<1>4. Alone(c) /\ Saved(c) /\ Bound(c)
  BY DEF CoIInv, StoreUpvalue, InJS
<1>5. /\ stack' \in Seq(Cells) /\ Owned(stack', frames) /\ Kept(stack', frames, said')
      /\ up' \in [Coroutines -> Upvalues] /\ \A d \in Coroutines : d # c => up'[d] = up[d]
      /\ up'[c].captured = up[c].captured /\ up'[c].open = up[c].open /\ up'[c].index = up[c].index
      /\ ~up[c].open => up'[c].val = v
  <2>1. CASE up[c].open
    <3>1. stack' = CellSet(stack, up[c].index, v) /\ up' = up
      BY <2>1 DEF StoreUpvalue, CellSet
    <3>2. PICK i \in 1..Len(frames) : frames[i].who = c
      BY <1>4, <2>1 DEF Bound, Alone, In
    <3>3. up[c].index = Slot(frames[i]) /\ Once(frames, frames[i].who)
      BY <1>4, <2>1, <3>2 DEF Bound, SlotAt, Alone
    <3>4. stack' = CellSet(stack, Slot(frames[i]), v) /\ said' = [said EXCEPT ![frames[i].who] = v]
      BY <1>1, <3>1, <3>2, <3>3
    <3>5. stack' \in Seq(Cells) /\ Owned(stack', frames) /\ Kept(stack', frames, said')
      <4>1. frames[i].who \in Coroutines
        BY <3>2
      <4>2. LET t == CellSet(stack, Slot(frames[i]), v)
            IN  t \in Seq(Cells) /\ Owned(t, frames) /\ Kept(t, frames, [said EXCEPT ![frames[i].who] = v])
        BY <1>1, <1>2, <3>3, <4>1, SlotWritten
      <4> QED BY <3>4, <4>2
    <3> QED BY <1>2, <2>1, <3>1, <3>5
  <2>2. CASE ~up[c].open
    <3> DEFINE e == Assigned(up[c], v)
    <3>1. stack' = stack /\ up' = [up EXCEPT ![c] = e]
      BY <2>2 DEF StoreUpvalue, Assigned
    <3>2. e \in Upvalues /\ e.captured = up[c].captured /\ e.open = up[c].open /\ e.index = up[c].index /\ e.val = v
      <4>1. 0 \in Nat /\ up[c] \in Upvalues
        BY <1>2
      <4> QED BY <4>1, UpvalueChanged
    <3> HIDE DEF e
    <3>3. up' \in [Coroutines -> Upvalues] /\ up'[c] = e /\ \A d \in Coroutines : d # c => up'[d] = up[d]
      BY <1>2, <3>1, <3>2, OthersKept
    <3>4. Kept(stack', frames, said')
      <4> SUFFICES ASSUME NEW i \in 1..Len(frames), frames[i].who \in Awaiting
                   PROVE  stack'[Slot(frames[i])].val = said'[frames[i].who]
        BY DEF Kept
      <4>1. frames[i].who # c
        <5>1. frames[i].who = c => Running(c)
          BY <1>4 DEF Alone, In
        <5> QED BY <1>1, <1>4, <2>2, <5>1 DEF Bound
      <4>2. frames[i].who \in Coroutines
        BY DEF Awaiting, Coroutines
      <4> QED BY <1>1, <1>3, <3>1, <4>1, <4>2 DEF Kept
    <3> QED BY <1>1, <1>2, <2>2, <3>1, <3>2, <3>3, <3>4
  <2> QED BY <2>1, <2>2
<1>6. MachineOK'
  BY <1>1, <1>3, <1>5 DEF MachineOK
<1>7. ASSUME NEW d \in Coroutines PROVE Alone(d)' /\ Saved(d)' /\ Bound(d)'
  <2>1. Alone(d) /\ Saved(d) /\ Bound(d)
    BY <1>1 DEF CoIInv
  <2>2. body'[d] = body[d] /\ frames' = frames
    BY <1>1
  <2>3. Alone(d)' /\ Saved(d)'
    BY <2>1, <2>2 DEF Alone, Saved, Running, Suspended
  <2>4. CASE d # c
    <3>1. said'[d] = said[d] /\ up'[d] = up[d]
      BY <1>3, <1>5, <2>4
    <3> QED BY <2>1, <2>2, <2>3, <3>1, BystanderBound
  <2>5. CASE d = c
    <3>1. body'[c].state # "new" /\ said'[c] = v
      BY <1>1, <1>3, <1>4, <2>2, <2>5 DEF Bound
    <3>2. up'[c].captured /\ up'[c].open = up[c].open /\ up'[c].index = up[c].index /\ (~up[c].open => up'[c].val = v)
      BY <1>1, <1>5
    <3>3. Bound(c)'
      BY <1>4, <1>1, <2>2, <2>5, <3>1, <3>2 DEF Bound, Running, Suspended
    <3> QED BY <2>3, <2>5, <3>3
  <2> QED BY <2>4, <2>5
<1> QED BY <1>1, <1>5, <1>6, <1>7 DEF CoIInv

LEMMA SetupKeeps ==
  ASSUME CoIInv, NEW c \in Coroutines, setupFrame(c)
  PROVE  CoIInv'
<1> DEFINE f == [who |-> c, base |-> Len(stack), ops |-> 0]
           e == Cell(c, Undefined)
           b == InState(body[c], "executing")
<1>1. MachineOK /\ ~shifted /\ Owned(stack, frames) /\ Kept(stack, frames, said)
      /\ body[c].state = "new" /\ stack' = Append(stack, e) /\ frames' = Append(frames, f)
      /\ body' = [body EXCEPT ![c] = b] /\ UNCHANGED <<up, said, shifted>>
  BY DEF CoIInv, setupFrame, InJS, InState
<1>2. stack \in Seq(Cells) /\ frames \in Seq(Frames) /\ Len(stack) \in Nat /\ body \in [Coroutines -> Bodies]
  BY <1>1 DEF MachineOK
<1>3. f \in Frames /\ f.who = c /\ f.base = Len(stack) /\ LastCell(f) = Len(stack) + 1 /\ Slot(f) = Len(stack) + 1
  <2>1. 0 \in 0..MaxOps
    BY CoroutineAssumption
  <2> QED BY <1>2, <2>1 DEF Frames, LastCell, Slot
<1>4. e \in Cells /\ e.of = c /\ e.val = Undefined
  BY NewCell
<1>5. b \in Bodies /\ b.state = "executing"
  <2>1. "executing" \in States /\ body[c] \in Bodies
    BY <1>2 DEF States
  <2> QED BY <2>1, BodyChanged
<1> HIDE DEF f, e, b
<1>6. /\ stack' \in Seq(Cells) /\ Len(stack') = Len(stack) + 1 /\ stack'[Len(stack) + 1] = e
      /\ \A k \in 1..Len(stack) : stack'[k] = stack[k]
  BY <1>1, <1>2, <1>4, Added
<1>7. frames' \in Seq(Frames)
  BY <1>1, <1>2, <1>3, Added
<1>8. body' \in [Coroutines -> Bodies] /\ body'[c] = b /\ \A d \in Coroutines : d # c => body'[d] = body[d]
  BY <1>1, <1>2, <1>5, OthersKept
<1>9. MachineOK'
  BY <1>1, <1>6, <1>7, <1>8 DEF MachineOK
<1>10. Alone(c) /\ Bound(c) /\ said[c] = Undefined /\ ~up[c].captured /\ ~up[c].open /\ ~In(frames, c)
  BY <1>1 DEF CoIInv, Bound, Alone, Running
<1>11. Owned(stack', frames') /\ Kept(stack', frames', said)
  <2>1. \A k \in 1..Len(stack') : Slot(f) <= k => stack'[k].of = f.who
    BY <1>2, <1>3, <1>4, <1>6
  <2>2. stack'[Slot(f)].val = said[f.who]
    BY <1>3, <1>4, <1>6, <1>10
  <2> QED BY <1>1, <1>2, <1>3, <1>6, <2>1, <2>2, FramePushed
<1>12. ASSUME NEW d \in Coroutines PROVE Alone(d)' /\ Saved(d)' /\ Bound(d)'
  <2>1. Alone(d) /\ Saved(d) /\ Bound(d)
    BY <1>1 DEF CoIInv
  <2>2. /\ In(frames', d) <=> In(frames, d) \/ c = d
        /\ Once(frames, d) => Once(frames', d)
        /\ \A x : c # d /\ SlotAt(frames, d, x) => SlotAt(frames', d, x)
    BY <1>1, <1>2, <1>3, <1>10, PushedWho
  <2>3. CASE d # c
    <3>1. body'[d] = body[d] /\ up'[d] = up[d] /\ said'[d] = said[d]
      BY <1>1, <1>8, <2>3
    <3> QED BY <2>1, <2>2, <2>3, <3>1, Bystander, BystanderBound
  <2>4. CASE d = c
    <3>1. Running(c)' /\ ~Suspended(c)' /\ body'[c].state # "new"
      BY <1>5, <1>8 DEF Running, Suspended
    <3>2. Alone(d)' /\ Saved(d)'
      BY <2>1, <2>2, <2>4, <3>1 DEF Alone, Saved
    <3>3. ~up'[c].captured /\ ~up'[c].open
      BY <1>1, <1>10
    <3>4. Bound(d)'
      BY <2>4, <3>1, <3>3 DEF Bound
    <3> QED BY <3>2, <3>4
  <2> QED BY <2>3, <2>4
<1> QED BY <1>1, <1>9, <1>11, <1>12 DEF CoIInv

LEMMA ReturnValKeeps ==
  ASSUME CoIInv, NEW c \in Coroutines, returnVal(c)
  PROVE  CoIInv'
<1>1. MachineOK /\ ~shifted /\ Owned(stack, frames) /\ Kept(stack, frames, said)
      /\ UNCHANGED <<stack, frames, up, said, shifted>>
      /\ Alone(c) /\ Saved(c) /\ Bound(c)
  BY DEF CoIInv, returnVal, InJS
<1>2. body \in [Coroutines -> Bodies]
  BY <1>1 DEF MachineOK
<1>3. PICK b \in Bodies :
        /\ body' = [body EXCEPT ![c] = b] /\ b.state \in {"completed", "returned"}
        /\ b.state = "returned" <=> Running(c)
  <2>1. CASE body[c].state \in {"new", "yielded"} /\ body' = [body EXCEPT ![c] = [NewBody EXCEPT !.state = "completed"]]
    <3>1. InState(NewBody, "completed") \in Bodies /\ InState(NewBody, "completed").state = "completed"
      <4>1. "completed" \in States
        BY DEF States
      <4> QED BY <4>1, Fresh, BodyChanged
    <3>2. body' = [body EXCEPT ![c] = InState(NewBody, "completed")] /\ ~Running(c)
      BY <2>1 DEF InState, Running
    <3> QED BY <3>1, <3>2
  <2>2. CASE body[c].state = "executing" /\ body' = [body EXCEPT ![c].state = "returned"]
    <3>1. InState(body[c], "returned") \in Bodies /\ InState(body[c], "returned").state = "returned"
      <4>1. "returned" \in States /\ body[c] \in Bodies
        BY <1>2 DEF States
      <4> QED BY <4>1, BodyChanged
    <3>2. body' = [body EXCEPT ![c] = InState(body[c], "returned")] /\ Running(c)
      BY <2>2 DEF InState, Running
    <3> QED BY <3>1, <3>2
  <2> QED BY <2>1, <2>2 DEF returnVal
<1>4. body' \in [Coroutines -> Bodies] /\ body'[c] = b /\ \A d \in Coroutines : d # c => body'[d] = body[d]
  BY <1>2, <1>3, OthersKept
<1>5. MachineOK'
  BY <1>1, <1>4 DEF MachineOK
<1>6. ASSUME NEW d \in Coroutines PROVE Alone(d)' /\ Saved(d)' /\ Bound(d)'
  <2>1. Alone(d) /\ Saved(d) /\ Bound(d)
    BY <1>1 DEF CoIInv
  <2>2. up'[d] = up[d] /\ said'[d] = said[d] /\ frames' = frames
    BY <1>1
  <2>3. CASE d # c
    <3>1. body'[d] = body[d]
      BY <1>4, <2>3
    <3> QED BY <2>1, <2>2, <3>1, Bystander, BystanderBound
  <2>4. CASE d = c
    <3>1. (Running(c)' <=> Running(c)) /\ ~Suspended(c)' /\ body'[c].state # "new"
      BY <1>3, <1>4 DEF Running, Suspended
    <3>2. Alone(d)' /\ Saved(d)'
      BY <2>1, <2>2, <2>4, <3>1 DEF Alone, Saved
    <3>3. Bound(d)'
      BY <2>1, <2>2, <2>4, <3>1 DEF Bound
    <3> QED BY <3>2, <3>3
  <2> QED BY <2>3, <2>4
<1> QED BY <1>1, <1>5, <1>6 DEF CoIInv

SavedBody(how, me) ==
  [state |-> how, stack |-> Segment(Top), base |-> Top.base, closed |-> me \in Awaiting /\ up[me].open]

LEMMA SuspendKeeps ==
  ASSUME CoIInv, NEW how \in {"yielded", "awaiting"}, Suspend(how)
  PROVE  CoIInv'
<1>0. PICK me \in Coroutines : me = Top.who
  BY DEF Suspend
<1> DEFINE e == SavedBody(how, me)
<1>1. MachineOK /\ ~shifted /\ Owned(stack, frames) /\ Kept(stack, frames, said) /\ frames # << >>
      /\ stack' = SubSeq(stack, 1, frames[Len(frames)].base) /\ frames' = Front(frames) /\ shifted' = shifted
      /\ me = Top.who /\ Save(me, how)
  BY <1>0 DEF CoIInv, Suspend, InJS, Top
<1>2. stack \in Seq(Cells) /\ frames \in Seq(Frames) /\ body \in [Coroutines -> Bodies]
      /\ up \in [Coroutines -> Upvalues] /\ said \in [Coroutines -> Values]
  BY <1>1 DEF MachineOK
<1>3. Alone(me) /\ Saved(me) /\ Bound(me)
  BY <1>1 DEF CoIInv
<1>4. /\ frames[Len(frames)].base \in 0..Len(stack)
      /\ Owned(stack', frames') /\ Kept(stack', frames', said)
  BY <1>1, <1>2, FramePopped
<1>5. stack' \in Seq(Cells) /\ frames' \in Seq(Frames)
  BY <1>1, <1>2, <1>4, CutBack, FrontIs
<1>6. Slot(Top) \in 1..Len(stack) /\ Running(me) /\ (me \in Awaiting => stack[Slot(Top)].val = said[me])
  <2>1. Len(frames) \in 1..Len(frames) /\ Top = frames[Len(frames)]
    BY <1>1, TopRuns DEF Top
  <2> QED BY <1>1, <1>2, <1>3, <2>1, TopRuns, SlotsApart DEF Kept
<1>7. /\ Segment(Top) \in Seq(Cells) /\ SegmentOK(me, Segment(Top))
      /\ Segment(Top)[1] = stack[Slot(Top)]
  <2>1. /\ Segment(Top) \in Seq(Cells) /\ Len(Segment(Top)) = Len(stack) - Slot(Top) + 1
        /\ \A k \in 1..Len(stack) - Slot(Top) + 1 : Segment(Top)[k] = stack[Slot(Top) + k - 1]
    BY <1>2, <1>6, CutOff DEF Segment
  <2>2. Top.base \in Nat /\ Top.ops \in 0..MaxOps /\ Len(stack) \in Nat /\ MaxOps \in Nat
    BY <1>1, <1>2, TopRuns, CoroutineAssumption
  <2>3. LastCell(Top) = Len(stack) /\ LastCell(Top) = Top.base + 1 + Top.ops /\ Slot(Top) = Top.base + 1
    <3>1. Len(frames) \in 1..Len(frames)
      BY <1>1, TopRuns
    <3>2. LastCell(Top) = Len(stack)
      BY <1>1, <3>1 DEF Owned, Top
    <3> QED BY <3>2 DEF LastCell, Slot
  <2>4. Len(stack) - Slot(Top) + 1 = 1 + Top.ops /\ 1 + Top.ops \in 1..(1 + MaxOps)
    BY <2>2, <2>3
  <2>5. ASSUME NEW k \in 1..1 + Top.ops PROVE Segment(Top)[k].of = me
    <3>1. Slot(Top) + k - 1 \in 1..Len(stack) /\ Slot(Top) <= Slot(Top) + k - 1 /\ Slot(Top) + k - 1 <= LastCell(Top)
      BY <2>2, <2>3
    <3>2. stack[Slot(Top) + k - 1].of = me
      <4>1. Len(frames) \in 1..Len(frames)
        BY <1>1, TopRuns
      <4> QED BY <1>1, <3>1, <4>1 DEF Owned, Top
    <3> QED BY <2>1, <2>4, <3>2
  <2>6. 1 \in 1..1 + Top.ops /\ Slot(Top) + 1 - 1 = Slot(Top)
    BY <2>2, <2>3
  <2>7. Segment(Top)[1] = stack[Slot(Top)]
    BY <2>1, <2>4, <2>6
  <2>8. SegmentOK(me, Segment(Top))
    BY <2>1, <2>4, <2>5 DEF SegmentOK
  <2> QED BY <2>1, <2>7, <2>8
<1>8. /\ body' \in [Coroutines -> Bodies] /\ up' \in [Coroutines -> Upvalues] /\ said' \in [Coroutines -> Values]
      /\ \A d \in Coroutines : d # me => body'[d] = body[d] /\ up'[d] = up[d] /\ said'[d] = said[d]
      /\ ~Running(me)' /\ ~up'[me].open
      /\ \/ body'[me].state = "new" /\ said'[me] = Undefined /\ ~up'[me].captured
         \/ /\ body'[me].state = how /\ body'[me].stack = Segment(Top) /\ said' = said
            /\ body'[me].closed <=> me \in Awaiting /\ up[me].open
            /\ up'[me].captured = up[me].captured
            /\ up[me].open => up'[me].val = stack[Slot(Top)].val
  <2>1. CASE body[me].state = "returned"
    <3>1. body' = [body EXCEPT ![me] = NewBody] /\ up' = [up EXCEPT ![me] = NewUp] /\ said' = [said EXCEPT ![me] = Undefined]
      BY <1>1, <2>1 DEF Save
    <3>2. body' \in [Coroutines -> Bodies] /\ body'[me] = NewBody /\ \A d \in Coroutines : d # me => body'[d] = body[d]
      BY <1>1, <1>2, <3>1, Fresh, OthersKept
    <3>3. up' \in [Coroutines -> Upvalues] /\ up'[me] = NewUp /\ \A d \in Coroutines : d # me => up'[d] = up[d]
      BY <1>1, <1>2, <3>1, Fresh, OthersKept
    <3>4. said' \in [Coroutines -> Values] /\ said'[me] = Undefined /\ \A d \in Coroutines : d # me => said'[d] = said[d]
      BY <1>1, <1>2, <3>1, Fresh, OthersKept
    <3>5. ~Running(me)'
      BY <3>2, Fresh DEF Running
    <3> QED BY <3>2, <3>3, <3>4, <3>5, Fresh
  <2>2. CASE body[me].state # "returned"
    <3>1. body' = [body EXCEPT ![me] = e] /\ closeUpvalues(me, Top) /\ said' = said
      BY <1>1, <2>2 DEF Save, SavedBody
    <3>2. /\ e \in Bodies /\ e.state = how /\ e.stack = Segment(Top)
          /\ e.closed <=> me \in Awaiting /\ up[me].open
      <4>1. (me \in Awaiting /\ up[me].open) \in BOOLEAN /\ how \in States /\ Top.base \in Nat
        BY <1>1, TopRuns DEF States
      <4> QED BY <1>7, <4>1 DEF SavedBody, Bodies
    <3> HIDE DEF e
    <3>3. body' \in [Coroutines -> Bodies] /\ body'[me] = e /\ \A d \in Coroutines : d # me => body'[d] = body[d]
      BY <1>1, <1>2, <3>1, <3>2, OthersKept
    <3>4. /\ up' \in [Coroutines -> Upvalues] /\ \A d \in Coroutines : d # me => up'[d] = up[d]
          /\ up'[me].captured = up[me].captured /\ ~up'[me].open
          /\ up[me].open => up'[me].val = stack[Slot(Top)].val
      BY <1>1, <1>6, <3>1, UpvalueClosed
    <3>5. ~Running(me)'
      BY <3>2, <3>3 DEF Running
    <3> QED BY <1>2, <3>1, <3>2, <3>3, <3>4, <3>5
  <2> QED BY <2>1, <2>2
<1>9. MachineOK'
  BY <1>1, <1>5, <1>8 DEF MachineOK
<1>10. ASSUME NEW c \in Coroutines PROVE Alone(c)' /\ Saved(c)' /\ Bound(c)'
  <2>0. Alone(c) /\ Saved(c) /\ Bound(c)
    BY <1>1 DEF CoIInv
  <2>1. /\ In(frames', c) <=> In(frames, c) /\ me # c
        /\ Once(frames', c)
        /\ \A x : SlotAt(frames, c, x) => SlotAt(frames', c, x)
    BY <1>1, <1>2, <2>0, PoppedWho DEF Alone, Top
  <2>2. CASE c # me
    <3>1. body'[c] = body[c] /\ up'[c] = up[c] /\ said'[c] = said[c]
      BY <1>8, <2>2
    <3> QED BY <2>0, <2>1, <2>2, <3>1, Bystander, BystanderBound
  <2>3. CASE c = me
    <3>1. Alone(c)'
      BY <1>8, <2>1, <2>3 DEF Alone
    <3>2. CASE body'[me].state = "new" /\ said'[me] = Undefined /\ ~up'[me].captured
      <4>1. ~Suspended(me)'
        BY <3>2 DEF Suspended
      <4> QED BY <1>8, <2>3, <3>1, <3>2, <4>1 DEF Saved, Bound
    <3>3. CASE /\ body'[me].state = how /\ body'[me].stack = Segment(Top) /\ said' = said
               /\ body'[me].closed <=> me \in Awaiting /\ up[me].open
               /\ up'[me].captured = up[me].captured
               /\ up[me].open => up'[me].val = stack[Slot(Top)].val
      <4>1. Saved(c)'
        BY <1>7, <2>3, <3>3 DEF Saved
      <4>2. me \in Awaiting => stack[Slot(Top)].val = said[me] /\ (up[me].captured <=> up[me].open)
        BY <1>3, <1>6 DEF Bound
      <4>3. body'[me].state # "new" /\ ~up'[me].open /\ ~Running(me)'
        BY <1>8, <3>3
      <4>4. ASSUME me \in Awaiting
            PROVE  /\ up'[me].captured => up'[me].val = said'[me]
                   /\ body'[me].closed <=> up'[me].captured
                   /\ body'[me].stack[1].val = said'[me]
        BY <1>7, <3>3, <4>2, <4>4
      <4>5. Bound(me)'
        BY <4>3, <4>4 DEF Bound
      <4> QED BY <2>3, <3>1, <4>1, <4>5
    <3> QED BY <1>8, <3>2, <3>3
  <2> QED BY <2>2, <2>3
<1>11. Kept(stack', frames', said')
  <2> SUFFICES ASSUME NEW i \in 1..Len(frames'), frames'[i].who \in Awaiting
               PROVE  stack'[Slot(frames'[i])].val = said'[frames'[i].who]
    BY DEF Kept
  <2>1. frames'[i].who # me
    <3>1. ~In(frames', me)
      BY <1>8, <1>10, <1>1 DEF Alone
    <3> QED BY <3>1 DEF In
  <2>2. frames'[i].who \in Coroutines
    BY DEF Awaiting, Coroutines
  <2> QED BY <1>4, <1>8, <2>1, <2>2 DEF Kept
<1> QED BY <1>1, <1>4, <1>9, <1>10, <1>11 DEF CoIInv

\* A suspended body has no frame, so its upvalue is closed, and it can be put
\* on top of a stack.
LEMMA SuspendedHasNoFrame ==
  ASSUME NEW c \in Coroutines, Alone(c), Suspended(c)
  PROVE  ~Running(c) /\ ~In(frames, c)
BY DEF Alone, Running, Suspended

LEMMA ResumeKeeps ==
  ASSUME CoIInv, NEW c \in Coroutines, resume(c)
  PROVE  CoIInv'
<1> DEFINE g == body[c].stack
           f == [who |-> c, base |-> Len(stack), ops |-> Len(g) - 1]
           b == Emptied(body[c])
<1>1. MachineOK /\ ~shifted /\ Owned(stack, frames) /\ Kept(stack, frames, said)
      /\ c \in Generators /\ body[c].state = "yielded" /\ stack' = stack \o g /\ frames' = Append(frames, f)
      /\ body' = [body EXCEPT ![c] = b] /\ UNCHANGED <<up, said, shifted>>
  BY DEF CoIInv, resume, InJS, Emptied
<1>2. stack \in Seq(Cells) /\ frames \in Seq(Frames) /\ Len(stack) \in Nat /\ body \in [Coroutines -> Bodies]
  BY <1>1 DEF MachineOK
<1>3. Alone(c) /\ Saved(c) /\ Bound(c) /\ Suspended(c)
  BY <1>1 DEF CoIInv, Suspended
<1>4. g \in Seq(Cells) /\ SegmentOK(c, g) /\ Len(g) \in 1..(1 + MaxOps)
  <2>1. body[c] \in Bodies
    BY <1>2
  <2> QED BY <1>3, <2>1 DEF Bodies, Saved, SegmentOK
<1>5. /\ f \in Frames /\ f.who = c /\ f.base = Len(stack)
      /\ LastCell(f) = Len(stack) + Len(g) /\ Slot(f) = Len(stack) + 1
  <2>1. Len(g) - 1 \in 0..MaxOps /\ Len(g) \in Nat
    BY <1>4, CoroutineAssumption
  <2>2. f \in Frames
    BY <1>2, <2>1, NewFrame
  <2> HIDE DEF g
  <2> QED BY <1>2, <2>1, <2>2 DEF LastCell, Slot
<1>6. b \in Bodies /\ b.state = "executing"
  <2>1. "executing" \in States /\ body[c] \in Bodies
    BY <1>2 DEF States
  <2> QED BY <2>1, BodyChanged
<1> HIDE DEF f, b, g
<1>7. /\ stack' \in Seq(Cells) /\ Len(stack') = Len(stack) + Len(g) /\ Len(g) \in Nat
      /\ \A k \in 1..Len(stack) : stack'[k] = stack[k]
      /\ \A k \in 1..Len(g) : stack'[Len(stack) + k] = g[k]
  BY <1>1, <1>2, <1>4, Joined
<1>8. frames' \in Seq(Frames)
  BY <1>1, <1>2, <1>5, Added
<1>9. body' \in [Coroutines -> Bodies] /\ body'[c] = b /\ \A d \in Coroutines : d # c => body'[d] = body[d]
  BY <1>1, <1>2, <1>6, OthersKept
<1>10. MachineOK'
  BY <1>1, <1>7, <1>8, <1>9 DEF MachineOK
<1>11. Owned(stack', frames') /\ Kept(stack', frames', said)
  <2>1. ASSUME NEW k \in 1..Len(stack'), Slot(f) <= k PROVE stack'[k].of = f.who
    <3>1. k - Len(stack) \in 1..Len(g) /\ k = Len(stack) + (k - Len(stack))
      BY <1>2, <1>5, <1>7, <2>1
    <3>2. stack'[k] = g[k - Len(stack)]
      BY <1>7, <3>1
    <3> QED BY <1>4, <1>5, <3>1, <3>2 DEF SegmentOK
  <2>2. f.who \notin Awaiting
    BY <1>1, <1>5, CoroutineAssumption
  <2> QED BY <1>1, <1>2, <1>5, <1>7, <2>1, <2>2, FramePushed
<1>12. ASSUME NEW d \in Coroutines PROVE Alone(d)' /\ Saved(d)' /\ Bound(d)'
  <2>1. Alone(d) /\ Saved(d) /\ Bound(d)
    BY <1>1 DEF CoIInv
  <2>2. /\ In(frames', d) <=> In(frames, d) \/ c = d
        /\ Once(frames, d) => Once(frames', d)
        /\ \A x : c # d /\ SlotAt(frames, d, x) => SlotAt(frames', d, x)
    BY <1>1, <1>2, <1>3, <1>5, PushedWho, SuspendedHasNoFrame
  <2>3. CASE d # c
    <3>1. body'[d] = body[d] /\ up'[d] = up[d] /\ said'[d] = said[d]
      BY <1>1, <1>9, <2>3
    <3> QED BY <2>1, <2>2, <2>3, <3>1, Bystander, BystanderBound
  <2>4. CASE d = c
    <3>1. Running(c)' /\ ~Suspended(c)' /\ body'[c].state # "new"
      BY <1>6, <1>9 DEF Running, Suspended
    <3>2. Alone(d)' /\ Saved(d)'
      BY <2>1, <2>2, <2>4, <3>1 DEF Alone, Saved
    <3>3. ~up'[c].open /\ c \notin Awaiting
      BY <1>1, <1>3, SuspendedHasNoFrame, CoroutineAssumption DEF Bound
    <3>4. Bound(d)'
      BY <2>4, <3>1, <3>3 DEF Bound
    <3> QED BY <3>2, <3>4
  <2> QED BY <2>3, <2>4
<1> QED BY <1>1, <1>10, <1>11, <1>12 DEF CoIInv

LEMMA RestoreKeeps ==
  ASSUME CoIInv, ~shifted, NEW c \in Awaiting, Suspended(c), restoreFrame(c)
  PROVE  CoIInv'
<1> DEFINE base == body[c].base
           old == body[c].stack
           g == IF body[c].closed THEN CellSet(old, 1, up[c].val) ELSE old
           f == [who |-> c, base |-> base, ops |-> Len(old) - 1]
           b == Restored(body[c])
           u == Opened(up[c], base + 1)
<1>1. MachineOK /\ Owned(stack, frames) /\ Kept(stack, frames, said)
      /\ c \in Coroutines /\ Alone(c) /\ Saved(c) /\ Bound(c)
  BY DEF CoIInv, Awaiting, Coroutines
<1>2. stack \in Seq(Cells) /\ frames \in Seq(Frames) /\ Len(stack) \in Nat
      /\ body \in [Coroutines -> Bodies] /\ up \in [Coroutines -> Upvalues]
  BY <1>1 DEF MachineOK
<1>3. /\ stack' = Padded(base) \o g /\ frames' = Append(frames, f)
      /\ body' = [body EXCEPT ![c] = b] /\ reopenUpvalues(c, base)
      /\ shifted' = (frames # << >> /\ Len(stack) # base) /\ said' = said
  BY DEF restoreFrame, Restored, CellSet
<1>4. /\ base \in Nat /\ old \in Seq(Cells) /\ SegmentOK(c, old) /\ Len(old) \in 1..(1 + MaxOps)
      /\ up[c] \in Upvalues /\ up[c].val \in Values /\ body[c] \in Bodies
  <2>1. body[c] \in Bodies /\ up[c] \in Upvalues
    BY <1>1, <1>2
  <2> QED BY <1>1, <2>1 DEF Bodies, Upvalues, Saved, SegmentOK
<1>5. /\ ~Running(c) /\ ~In(frames, c) /\ ~up[c].open /\ (body[c].closed <=> up[c].captured)
      /\ IF body[c].closed THEN up[c].val = said[c] ELSE old[1].val = said[c]
  BY <1>1, SuspendedHasNoFrame DEF Bound
<1>6. g \in Seq(Cells) /\ Len(g) = Len(old) /\ g[1].val = said[c] /\ \A k \in 1..Len(g) : g[k].of = c
  <2>1. CASE body[c].closed
    <3> DEFINE e == [old[1] EXCEPT !.val = up[c].val]
    <3>1. old[1] \in Cells /\ 1 \in 1..Len(old) /\ old[1].of = c
      BY <1>4 DEF SegmentOK
    <3>2. e \in Cells /\ e.of = c /\ e.val = up[c].val
      BY <1>4, <3>1 DEF Cells
    <3>3. g = [old EXCEPT ![1] = e]
      BY <2>1 DEF CellSet
    <3> HIDE DEF e, g
    <3>4. g \in Seq(Cells) /\ Len(g) = Len(old) /\ g[1] = e /\ \A k \in 1..Len(old) : k # 1 => g[k] = old[k]
      BY <1>4, <3>1, <3>2, <3>3
    <3> QED BY <1>4, <1>5, <2>1, <3>2, <3>4 DEF SegmentOK
  <2>2. CASE ~body[c].closed
    BY <1>4, <1>5, <2>2 DEF SegmentOK
  <2> QED BY <2>1, <2>2
<1>7. f \in Frames /\ f.who = c /\ f.base = base /\ LastCell(f) = base + Len(g) /\ Slot(f) = base + 1
  <2>1. Len(old) - 1 \in 0..MaxOps /\ Len(old) \in Nat /\ Len(g) = Len(old)
    BY <1>4, <1>6, CoroutineAssumption
  <2>2. f \in Frames
    BY <1>1, <1>4, <2>1, NewFrame
  <2> HIDE DEF g
  <2> QED BY <1>4, <2>1, <2>2 DEF LastCell, Slot
<1>8. b \in Bodies /\ b.state = "executing"
  <2>1. "executing" \in States
    BY DEF States
  <2> QED BY <1>4, <2>1, BodyChanged
<1>9. u \in Upvalues /\ u.captured = up[c].captured /\ u.open /\ u.index = base + 1
  <2>1. base + 1 \in Nat
    BY <1>4
  <2>2. up[c] \in Upvalues /\ up[c].val \in Values
    BY <1>4
  <2> HIDE DEF base
  <2> QED BY <2>1, <2>2, UpvalueChanged
<1>10. /\ Padded(base) \in Seq(Cells) /\ Len(Padded(base)) = base
       /\ \A k \in 1..base : k \in 1..Len(stack) => Padded(base)[k] = stack[k]
  <2>1. DOMAIN stack = 1..Len(stack) /\ Cell(NoBody, Undefined) \in Cells
    BY <1>2, NewCell
  <2>2. ASSUME NEW k \in 1..base
        PROVE  (IF k \in DOMAIN stack THEN stack[k] ELSE Cell(NoBody, Undefined)) \in Cells
    BY <1>2, <2>1
  <2> QED BY <1>4, <2>1, <2>2 DEF Padded
<1> HIDE DEF f, b, u, g, base, old
<1>11. /\ stack' \in Seq(Cells) /\ Len(stack') = base + Len(g) /\ Len(g) \in Nat
       /\ \A k \in 1..base : stack'[k] = Padded(base)[k]
       /\ \A k \in 1..Len(g) : stack'[base + k] = g[k]
  <2> DEFINE p == Padded(base)
  <2>1. stack' = p \o g /\ p \in Seq(Cells) /\ g \in Seq(Cells) /\ Len(p) = base /\ \A k \in 1..base : p[k] = Padded(base)[k]
    BY <1>3, <1>6, <1>10
  <2> HIDE DEF p
  <2>2. /\ p \o g \in Seq(Cells) /\ Len(p \o g) = Len(p) + Len(g) /\ Len(g) \in Nat
        /\ \A k \in 1..Len(p) : (p \o g)[k] = p[k]
        /\ \A k \in 1..Len(g) : (p \o g)[Len(p) + k] = g[k]
    <3>1. p \in Seq(Cells) /\ g \in Seq(Cells)
      BY <2>1
    <3> QED BY <3>1, Joined
  <2> QED BY <2>1, <2>2
<1>12. frames' \in Seq(Frames)
  BY <1>2, <1>3, <1>7, Added
<1>13. body' \in [Coroutines -> Bodies] /\ body'[c] = b /\ \A d \in Coroutines : d # c => body'[d] = body[d]
  BY <1>1, <1>2, <1>3, <1>8, OthersKept
<1>14. /\ up' \in [Coroutines -> Upvalues] /\ \A d \in Coroutines : d # c => up'[d] = up[d]
       /\ up'[c] = IF body[c].closed THEN u ELSE up[c]
  <2>1. CASE body[c].closed
    <3>1. up' = [up EXCEPT ![c] = u]
      BY <1>3, <2>1 DEF reopenUpvalues, Opened, u
    <3> QED BY <1>1, <1>2, <1>9, <2>1, <3>1, OthersKept
  <2>2. CASE ~body[c].closed
    BY <1>2, <1>3, <2>2 DEF reopenUpvalues
  <2> QED BY <2>1, <2>2
<1>15. MachineOK'
  BY <1>1, <1>3, <1>11, <1>12, <1>13, <1>14 DEF MachineOK
<1>16. ASSUME NEW d \in Coroutines
       PROVE  /\ In(frames', d) <=> In(frames, d) \/ c = d
              /\ Once(frames, d) => Once(frames', d)
              /\ \A x : SlotAt(frames, d, x) /\ (c = d => x = base + 1) => SlotAt(frames', d, x)
  BY <1>2, <1>3, <1>5, <1>7, PushedWho
<1>17. ASSUME NEW d \in Coroutines PROVE Alone(d)' /\ Saved(d)' /\ Bound(d)'
  <2>1. Alone(d) /\ Saved(d) /\ Bound(d)
    BY DEF CoIInv
  <2>2. CASE d # c
    <3>1. body'[d] = body[d] /\ up'[d] = up[d] /\ said'[d] = said[d]
      BY <1>3, <1>13, <1>14, <2>2
    <3>2. /\ In(frames', d) <=> In(frames, d)
          /\ Once(frames, d) => Once(frames', d)
          /\ \A x : SlotAt(frames, d, x) => SlotAt(frames', d, x)
      BY <1>16, <2>2
    <3> QED BY <2>1, <3>1, <3>2, Bystander, BystanderBound
  <2>3. CASE d = c
    <3>1. Running(c)' /\ ~Suspended(c)' /\ body'[c].state # "new"
      BY <1>8, <1>13 DEF Running, Suspended
    <3>2. Alone(d)' /\ Saved(d)'
      BY <1>16, <2>1, <2>3, <3>1 DEF Alone, Saved
    <3>3. /\ up'[c].captured <=> up[c].captured
          /\ up'[c].open <=> up[c].captured
          /\ up'[c].open => SlotAt(frames', c, up'[c].index)
      <4>1. CASE body[c].closed
        <5>1. up'[c] = u /\ up[c].captured
          BY <1>5, <1>14, <4>1
        <5>2. SlotAt(frames, c, base + 1)
          BY <1>5 DEF SlotAt, In
        <5>3. SlotAt(frames', c, base + 1)
          BY <1>1, <1>16, <5>2
        <5> QED BY <1>9, <5>1, <5>3
      <4>2. CASE ~body[c].closed
        BY <1>5, <1>14, <4>2
      <4> QED BY <4>1, <4>2
    <3>4. Bound(d)'
      BY <2>3, <3>1, <3>3 DEF Bound
    <3> QED BY <3>2, <3>4
  <2> QED BY <2>2, <2>3
<1>18. ASSUME ~shifted' PROVE Owned(stack', frames') /\ Kept(stack', frames', said)
  <2>1. Len(frames) # 0 => f.base = Len(stack) /\ \A k \in 1..Len(stack) : stack'[k] = stack[k]
    <3> SUFFICES ASSUME Len(frames) # 0
                 PROVE  f.base = Len(stack) /\ \A k \in 1..Len(stack) : stack'[k] = stack[k]
      OBVIOUS
    <3>1. frames # << >>
      OBVIOUS
    <3>2. base = Len(stack)
      BY <1>3, <1>18, <3>1
    <3> QED BY <1>7, <1>10, <1>11, <3>2
  <2>2. ASSUME NEW k \in 1..Len(stack'), Slot(f) <= k PROVE stack'[k].of = f.who
    <3>1. k - base \in 1..Len(g) /\ k = base + (k - base)
      BY <1>4, <1>7, <1>11, <2>2
    <3>2. stack'[k] = g[k - base]
      BY <1>11, <3>1
    <3> QED BY <1>6, <1>7, <3>1, <3>2
  <2>3. stack'[Slot(f)].val = said[f.who]
    <3>1. 1 \in 1..Len(g)
      BY <1>4, <1>6
    <3> QED BY <1>6, <1>7, <1>11, <3>1
  <2> QED BY <1>1, <1>2, <1>3, <1>7, <1>11, <2>1, <2>2, <2>3, FramePushed
<1> QED BY <1>3, <1>15, <1>17, <1>18 DEF CoIInv

LEMMA InitCoIInv == CoInit => CoIInv
<1> SUFFICES ASSUME CoInit PROVE CoIInv
  OBVIOUS
<1>1. MachineOK
  <2>1. << >> \in Seq(Cells) /\ << >> \in Seq(Frames)
    OBVIOUS
  <2> QED BY <2>1, Fresh DEF CoInit, MachineOK
<1>2. Len(frames) = 0 /\ 1..0 = {}
  BY DEF CoInit
<1>3. Owned(stack, frames) /\ Kept(stack, frames, said)
  BY <1>2 DEF Owned, Kept
<1>4. ASSUME NEW c \in Coroutines PROVE Alone(c) /\ Saved(c) /\ Bound(c)
  <2>1. body[c] = NewBody /\ up[c] = NewUp /\ said[c] = Undefined
    BY DEF CoInit
  <2>2. ~Running(c) /\ ~Suspended(c)
    BY <2>1, Fresh DEF Running, Suspended
  <2>3. ~In(frames, c) /\ Once(frames, c)
    BY <1>2 DEF In, Once
  <2> QED BY <2>1, <2>2, <2>3, Fresh DEF Alone, Saved, Bound
<1> QED BY <1>1, <1>3, <1>4 DEF CoIInv

LEMMA StillCoIInv == CoIInv /\ UNCHANGED coVars => CoIInv'
<1> SUFFICES ASSUME CoIInv, UNCHANGED coVars PROVE CoIInv'
  OBVIOUS
<1>1. UNCHANGED <<stack, frames, body, up, said, shifted>>
  BY DEF coVars
<1>2. MachineOK'
  BY <1>1 DEF CoIInv, MachineOK
<1>3. ASSUME NEW c \in Coroutines PROVE Alone(c)' /\ Saved(c)' /\ (~shifted => Bound(c)')
  <2>1. Alone(c) /\ Saved(c) /\ (~shifted => Bound(c))
    BY DEF CoIInv
  <2>2. body'[c] = body[c] /\ up'[c] = up[c] /\ said'[c] = said[c] /\ frames' = frames
    BY <1>1
  <2> QED BY <2>1, <2>2, Bystander, BystanderBound
<1>4. ~shifted => Owned(stack', frames') /\ Kept(stack', frames', said')
  BY <1>1 DEF CoIInv
<1> QED BY <1>1, <1>2, <1>3, <1>4 DEF CoIInv

\* The invariant is inductive.
THEOREM CoInductive == CoSpec => []CoIInv
<1>1. CoIInv /\ [CoNext]_coVars => CoIInv'
  <2> SUFFICES ASSUME CoIInv, [CoNext]_coVars PROVE CoIInv'
    OBVIOUS
  <2>1. CASE callClosure
    BY <2>1, CallKeeps
  <2>2. CASE doReturn
    BY <2>2, ReturnKeeps
  <2>3. CASE Push \/ Pop
    BY <2>3, OperandKeeps
  <2>4. CASE captureUpvalues
    BY <2>4, CaptureKeeps
  <2>5. ASSUME NEW v \in Values, StoreLocal(v) PROVE CoIInv'
    BY <2>5, StoreLocalKeeps
  <2>6. ASSUME NEW c \in Coroutines, NEW v \in Values, StoreUpvalue(c, v) PROVE CoIInv'
    BY <2>6, StoreUpvalueKeeps
  <2>7. ASSUME NEW how \in {"yielded", "awaiting"}, Suspend(how) PROVE CoIInv'
    BY <2>7, SuspendKeeps
  <2>8. ASSUME NEW c \in Coroutines, setupFrame(c) PROVE CoIInv'
    BY <2>8, SetupKeeps
  <2>9. ASSUME NEW c \in Coroutines, resume(c) PROVE CoIInv'
    BY <2>9, ResumeKeeps
  <2>10. ASSUME NEW c \in Coroutines, runStep(c) PROVE CoIInv'
    <3>1. ~shifted /\ c \in Awaiting /\ Suspended(c) /\ restoreFrame(c)
      BY <2>10 DEF runStep, Suspended
    <3> QED BY <3>1, RestoreKeeps
  <2>11. ASSUME NEW c \in Coroutines, AsyncNext(c) PROVE CoIInv'
    <3>1. ~shifted /\ c \in Awaiting /\ Suspended(c) /\ restoreFrame(c)
      BY <2>11 DEF AsyncNext, InJS, Suspended, Awaiting
    <3> QED BY <3>1, RestoreKeeps
  <2>12. ASSUME NEW c \in Coroutines, returnVal(c) PROVE CoIInv'
    BY <2>12, ReturnValKeeps
  <2>13. CASE Lost \/ UNCHANGED coVars
    BY <2>13, StillCoIInv DEF Lost
  <2> QED BY <2>1, <2>2, <2>3, <2>4, <2>5, <2>6, <2>7, <2>8, <2>9, <2>10, <2>11, <2>12, <2>13 DEF CoNext
<1> QED BY InitCoIInv, <1>1, PTL DEF CoSpec

LEMMA TypesFollow == CoIInv => CoTypeOK
<1> SUFFICES ASSUME CoIInv PROVE CoTypeOK
  OBVIOUS
<1>1. MachineOK /\ \A c \in Coroutines : Alone(c)
  BY DEF CoIInv
<1>2. stack \in Seq(Cells) /\ frames \in Seq(Frames)
  BY <1>1 DEF MachineOK
<1>3. \A i \in DOMAIN stack : stack[i].of \in Coroutines \cup {Plain, NoBody} /\ stack[i].val \in Values
  <2>1. \A i \in DOMAIN stack : stack[i] \in Cells
    BY <1>2
  <2> QED BY <2>1 DEF Cells
<1>4. DOMAIN frames = 1..Len(frames) /\ \A i \in DOMAIN frames : frames[i] \in Frames
  BY <1>2
<1>5. \A i \in DOMAIN frames : frames[i].who \in Coroutines \cup {Plain} /\ frames[i].ops \in 0..MaxOps
  BY <1>4 DEF Frames
<1>6. ASSUME NEW c \in Coroutines
      PROVE  /\ body[c].state \in States /\ said[c] \in Values
             /\ Running(c) <=> Live(c)
             /\ \A i, j \in DOMAIN frames : frames[i].who = c /\ frames[j].who = c => i = j
  <2>1. body[c] \in Bodies /\ said[c] \in Values
    BY <1>1 DEF MachineOK
  <2>2. body[c].state \in States
    BY <2>1 DEF Bodies
  <2> QED BY <1>1, <1>4, <2>1, <2>2 DEF Alone, In, Once, Live
<1> QED BY <1>3, <1>5, <1>6 DEF CoTypeOK

\* Every frame, active or suspended, has its cells to itself.
THEOREM FramesStayIntact == CoSpec => []FramesIntact
<1>1. CoIInv => FramesIntact
  <2> SUFFICES ASSUME CoIInv PROVE FramesIntact
    OBVIOUS
  <2>1. MachineOK /\ CoTypeOK /\ \A c \in Coroutines : Saved(c)
    BY TypesFollow DEF CoIInv
  <2>2. stack \in Seq(Cells) /\ frames \in Seq(Frames) /\ body \in [Coroutines -> Bodies]
        /\ DOMAIN frames = 1..Len(frames) /\ Len(stack) \in Nat
    BY <2>1 DEF MachineOK
  <2>3. ASSUME ~shifted, NEW i \in DOMAIN frames
        PROVE  /\ EndOf(i) - frames[i].base = 1 + frames[i].ops
               /\ \A k \in (frames[i].base + 1)..EndOf(i) : stack[k].of = frames[i].who
    <3>1. i \in 1..Len(frames) /\ frames[i] \in Frames /\ Owned(stack, frames)
      BY <2>2, <2>3 DEF CoIInv
    <3>2. frames[i].base \in Nat /\ frames[i].ops \in Nat
      BY <3>1, CoroutineAssumption DEF Frames
    <3>3. EndOf(i) = LastCell(frames[i])
      <4>1. i # Len(frames) => i + 1 <= Len(frames)
        BY <3>1
      <4> QED BY <3>1, <4>1 DEF Owned, EndOf
    <3>4. LastCell(frames[i]) = frames[i].base + 1 + frames[i].ops
          /\ LastCell(frames[i]) <= Len(stack) /\ Slot(frames[i]) = frames[i].base + 1
      BY <3>1 DEF Owned, LastCell, Slot
    <3>5. ASSUME NEW k \in (frames[i].base + 1)..EndOf(i) PROVE stack[k].of = frames[i].who
      <4>1. k \in 1..Len(stack) /\ Slot(frames[i]) <= k /\ k <= LastCell(frames[i])
        BY <2>2, <3>2, <3>3, <3>4
      <4> QED BY <3>1, <4>1 DEF Owned
    <3> QED BY <3>2, <3>3, <3>4, <3>5
  <2>4. ASSUME NEW c \in Coroutines, body[c].state \in {"yielded", "awaiting"}
        PROVE  /\ Len(body[c].stack) \in 1..(1 + MaxOps)
               /\ \A k \in DOMAIN body[c].stack : body[c].stack[k].of = c
    <3>1. body[c].stack \in Seq(Cells)
      BY <2>2 DEF Bodies
    <3> QED BY <2>1, <2>4, <3>1 DEF Saved, Suspended, SegmentOK
  <2> QED BY <2>1, <2>3, <2>4 DEF FramesIntact
<1> QED BY CoInductive, <1>1, PTL

\* The running body and its closures read what either of them wrote last.
THEOREM VariableStaysOne == CoSpec => []OneVariable
<1>1. CoIInv => OneVariable
  <2> SUFFICES ASSUME CoIInv, ~shifted PROVE OneVariable
    BY DEF OneVariable
  <2>1. Kept(stack, frames, said) /\ \A c \in Coroutines : Alone(c) /\ Bound(c)
    BY DEF CoIInv
  <2>2. DOMAIN frames = 1..Len(frames)
    BY DEF CoIInv, MachineOK
  <2>3. ASSUME NEW c \in Coroutines, Live(c)
        PROVE  \E i \in 1..Len(frames) : frames[i].who = c /\ FrameOf(c) = frames[i]
    BY <2>2, <2>3 DEF Live, FrameOf
  <2>4. ASSUME NEW c \in Coroutines PROVE Running(c) <=> Live(c)
    BY <2>1, <2>2 DEF Alone, In, Live
  <2>5. ASSUME NEW c \in Coroutines, up[c].open PROVE Live(c) /\ up[c].index = Slot(FrameOf(c))
    <3>1. Live(c) /\ SlotAt(frames, c, up[c].index)
      BY <2>1, <2>4, <2>5 DEF Bound
    <3> QED BY <2>3, <3>1 DEF SlotAt
  <2>6. ASSUME NEW c \in Awaiting, Live(c) PROVE BodySees(c) = said[c]
    <3>1. c \in Coroutines
      BY DEF Awaiting, Coroutines
    <3> QED BY <2>1, <2>3, <2>6, <3>1 DEF Kept, BodySees
  <2>7. ASSUME NEW c \in Awaiting, up[c].captured PROVE ClosureSees(c) = said[c]
    <3>1. c \in Coroutines
      BY DEF Awaiting, Coroutines
    <3>2. CASE up[c].open
      BY <2>5, <2>6, <3>1, <3>2 DEF ClosureSees, BodySees
    <3>3. CASE ~up[c].open
      BY <2>1, <2>7, <3>1, <3>3 DEF ClosureSees, Bound
    <3> QED BY <3>2, <3>3
  <2> QED BY <2>5, <2>6, <2>7 DEF OneVariable
<1> QED BY CoInductive, <1>1, PTL
==============================================================================

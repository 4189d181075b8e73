--------------------------- MODULE Timers_proofs ---------------------------
(***************************************************************************)
(* Proofs about Timers, for any number of timers, delays and length of     *)
(* time: the loop's count is exact, it does not end before a timer that    *)
(* keeps it alive has run, and one-shot callbacks start in order.          *)
(***************************************************************************)
EXTENDS Timers, FiniteSetTheorems, WellFoundedInduction, TLAPS

-----------------------------------------------------------------------------
(* The inductive invariant                                                  *)

InSeq(i, s) == \E n \in 1..Len(s) : s[n] = i

\* Ids are given out in order; what waits to be pushed, is in the heap, or
\* was popped is a one-shot timer, what has a Ticker an interval.
Given ==
    /\ \A i \in Ids : i >= nextID => kind[i] = "none"
    /\ arming # 0 => nextID = arming + 1 /\ kind[arming] = "once" /\ arming \notin heap
    /\ \A i \in heap : kind[i] = "once"
    /\ \A n \in 1..Len(due) : kind[due[n]] = "once"
    /\ \A n \in 1..Len(ran) : kind[ran[n]] = "once"
    /\ \A n \in 1..Len(queue) : kind[queue[n]] # "none"
    /\ \A i \in Ids : ticker[i] = "on" => kind[i] = "interval"

\* Where the dispatcher and the JS thread are.
Control ==
    /\ fire \in {"run", "done"} <=> due # <<>>
    /\ js = "idle" => arming = 0
    /\ ended => js = "idle"
    /\ \A i \in Ids : stopped[i] => i \in cleared

\* A one-shot timer not yet run is on its way, and JS cleared it or its
\* reference is held or JS gave that back: posting comes before releasing.
Tracked ==
    ~ended =>
        /\ \A i \in Ids : kind[i] = "once" /\ i \notin cleared /\ ~InSeq(i, ran) =>
             InSeq(i, queue) \/ (Pending(i) /\ (held[i] \/ i \in unrefd))
        /\ fire = "done" => InSeq(Head(due), queue) \/ InSeq(Head(due), ran)

\* The deadline was set when the timer was, and that was in the order of ids.
SetInOrder ==
    /\ \A i \in Ids : kind[i] = "once" => delay[i] <= deadline[i] /\ deadline[i] - delay[i] <= now
    /\ \A i, j \in Ids : kind[i] = "once" /\ kind[j] = "once" /\ i < j =>
           deadline[i] - delay[i] <= deadline[j] - delay[j]

\* i cannot follow j: it is j, or was due no later and registered earlier.
NotAfter(i, j) ==
    kind[i] = "once" /\ kind[j] = "once" /\ (i = j \/ (i < j /\ deadline[i] <= deadline[j]))

\* The line of one-shot timers: those run, posted, popped, and the others.
RanInOrder == \A m, n \in 1..Len(ran) : m < n => ~NotAfter(ran[n], ran[m])
QueueInOrder == \A m, n \in 1..Len(queue) : m < n => ~NotAfter(queue[n], queue[m])
RanBeforeQueue == \A m \in 1..Len(ran), n \in 1..Len(queue) : ~NotAfter(queue[n], ran[m])
DueInOrder == \A m, n \in 1..Len(due) : m < n => Before(due[m], due[n])
DueComes(i) ==   \* i, run or posted, is before what was popped
    \A n \in 1..Len(due) : NotAfter(due[n], i) => n = 1 /\ fire = "done" /\ due[n] = i
HeapComes(i) ==  \* i, popped, is before what was not
    /\ \A k \in heap : ~NotAfter(k, i)
    /\ arming # 0 => ~NotAfter(arming, i)

Line ==
    /\ RanInOrder /\ QueueInOrder /\ RanBeforeQueue /\ DueInOrder
    /\ \A n \in 1..Len(ran) : DueComes(ran[n]) /\ HeapComes(ran[n])
    /\ \A n \in 1..Len(queue) : DueComes(queue[n]) /\ HeapComes(queue[n])
    /\ \A n \in 1..Len(due) : HeapComes(due[n])

\* A callback comes no earlier than the deadline.
OnTime ==
    /\ \A n \in 1..Len(due) : deadline[due[n]] <= now
    /\ \A n \in 1..Len(queue) : kind[queue[n]] = "once" => deadline[queue[n]] <= now
    /\ \A n \in 1..Len(ran) : deadline[ran[n]] <= now

IInv ==
    /\ CountExact /\ Given /\ Control /\ Tracked /\ EndsAfterTimers
    /\ SetInOrder /\ Line /\ OnTime

-----------------------------------------------------------------------------
(* Finite sets of naturals, and the order of the heap.                      *)

Smaller == {p \in Nat \X Nat : p[1] < p[2]}

LEMMA LeastNumber ==
    ASSUME NEW T, T \subseteq Nat, T # {}
    PROVE  \E n \in T : \A m \in T : n <= m
<1>1. IsWellFoundedOn(Smaller, Nat)
  BY NatLessThanWellFounded DEF OpToRel, Smaller
<1>2. PICK n \in T : \A m \in T : ~(<<m, n>> \in Smaller)
  BY <1>1, WFMin
<1>3. \A m \in T : m < n => <<m, n>> \in Smaller
  BY DEF Smaller
<1>4. \A m \in T : n <= m
  <2> SUFFICES ASSUME NEW m \in T PROVE n <= m
    OBVIOUS
  <2>1. m \in Nat /\ n \in Nat
    BY <1>2
  <2>2. ~(m < n)
    BY <1>2, <1>3
  <2> QED BY <2>1, <2>2
<1> QED BY <1>2, <1>4

LEMMA IdsFinite == IsFiniteSet(Ids) /\ \A S \in SUBSET Ids : IsFiniteSet(S) /\ Cardinality(S) \in Nat
<1>1. IsFiniteSet(Ids)
  BY FS_Interval, TimerConstants DEF Ids
<1>2. ASSUME NEW S \in SUBSET Ids PROVE IsFiniteSet(S) /\ Cardinality(S) \in Nat
  BY <1>1, FS_Subset, FS_CardinalityType
<1> QED BY <1>1, <1>2

\* A set of timers has one that the heap returns first.
LEMMA FirstOfHeap ==
    ASSUME deadline \in [Ids -> Nat], NEW S \in SUBSET Ids, S # {}
    PROVE  \E i \in S : \A j \in S \ {i} : Before(i, j)
<1> DEFINE D == {deadline[i] : i \in S}
<1>1. PICK d \in D : \A e \in D : d <= e
  <2>1. D \subseteq Nat /\ D # {}
    OBVIOUS
  <2> QED BY <2>1, LeastNumber
<1> DEFINE E == {i \in S : deadline[i] = d}
<1>2. PICK i \in E : \A j \in E : i <= j
  <2>1. Ids \subseteq Nat
    BY TimerConstants DEF Ids
  <2>2. E # {}
    BY <1>1
  <2> HIDE DEF D
  <2>3. E \subseteq Nat
    BY <2>1
  <2> QED BY <2>2, <2>3, LeastNumber
<1>3. ASSUME NEW j \in S \ {i} PROVE Before(i, j)
  <2>1. d <= deadline[j] /\ deadline[i] = d /\ d \in Nat /\ deadline[j] \in Nat
    BY <1>1, <1>2
  <2>2. CASE deadline[j] = d
    <3>1. i <= j /\ i # j /\ i \in Int /\ j \in Int
      BY <1>2, <2>2 DEF Ids
    <3> QED BY <2>1, <2>2, <3>1 DEF Before
  <2> QED BY <2>1, <2>2 DEF Before
<1> QED BY <1>2, <1>3

Sorted(s, S) == \A m, n \in 1..Cardinality(S) : m < n => Before(s[m], s[n])

\* One more at the front.
LEMMA FrontOfHeap ==
    ASSUME deadline \in [Ids -> Nat], NEW S \in SUBSET Ids, NEW i \in S,
           \A j \in S \ {i} : Before(i, j),
           NEW r \in [1..Cardinality(S \ {i}) -> S \ {i}], Sorted(r, S \ {i})
    PROVE  \E s \in [1..Cardinality(S) -> S] : Sorted(s, S)
<1> DEFINE N == Cardinality(S)
           T == S \ {i}
           s == [n \in 1..N |-> IF n = 1 THEN i ELSE r[n - 1]]
<1>1. N \in Nat \ {0} /\ Cardinality(T) = N - 1
  BY IdsFinite, FS_RemoveElement, FS_EmptySet
<1>2. \A n \in 1..N : n # 1 => n - 1 \in 1..Cardinality(T)
  BY <1>1
<1>3. s \in [1..N -> S]
  BY <1>2
<1>4. ASSUME NEW m \in 1..N, NEW n \in 1..N, m < n
      PROVE  Before(s[m], s[n])
  <2>0. n # 1
    BY <1>4
  <2>1. s[n] = r[n - 1] /\ s[n] \in T
    BY <1>2, <2>0
  <2>2. CASE m = 1
    BY <2>1, <2>2
  <2>3. CASE m # 1
    <3>1. m - 1 < n - 1 /\ s[m] = r[m - 1]
      BY <2>3, <1>4
    <3> QED BY <1>2, <2>0, <2>1, <2>3, <3>1 DEF Sorted
  <2> QED BY <2>2, <2>3
<1> HIDE DEF s, N, T
<1> QED BY <1>3, <1>4 DEF N, Sorted

\* Every set of timers can be put in the order of the heap: a smallest one
\* that could not would have a first element, and the rest could be.
LEMMA HeapOrderExists ==
    ASSUME deadline \in [Ids -> Nat], NEW S \in SUBSET Ids
    PROVE  \E s \in [1..Cardinality(S) -> S] : Sorted(s, S)
<1> DEFINE B == {T \in SUBSET Ids : ~ \E s \in [1..Cardinality(T) -> T] : Sorted(s, T)}
<1>1. SUFFICES ASSUME S \in B PROVE FALSE
  OBVIOUS
<1>2. PICK T \in B : \A U \in B : ~(<<U, T>> \in StrictSubsetOrdering(Ids))
  <2>1. IsWellFoundedOn(StrictSubsetOrdering(Ids), SUBSET Ids)
    BY IdsFinite, FS_FiniteSubsetsOfFinite, FS_StrictSubsetOrderingWellFounded
  <2>2. B \subseteq SUBSET Ids /\ B # {}
    BY <1>1
  <2> HIDE DEF B
  <2> QED BY <2>1, <2>2, WFMin
<1>3. T \in SUBSET Ids /\ ~ \E s \in [1..Cardinality(T) -> T] : Sorted(s, T)
  BY <1>2
<1>4. T # {}
  <2> SUFFICES ASSUME T = {} PROVE FALSE
    OBVIOUS
  <2>1. Cardinality(T) = 0
    BY FS_EmptySet
  <2>2. 1..Cardinality(T) = {}
    BY <2>1
  <2>3. [n \in {} |-> 0] \in [1..Cardinality(T) -> T]
    BY <2>2
  <2>4. Sorted([n \in {} |-> 0], T)
    BY <2>2 DEF Sorted
  <2> QED BY <1>3, <2>3, <2>4
<1>5. PICK i \in T : \A j \in T \ {i} : Before(i, j)
  BY <1>3, <1>4, FirstOfHeap
<1>6. T \ {i} \notin B
  <2>1. <<T \ {i}, T>> \in StrictSubsetOrdering(Ids)
    BY <1>3, <1>5 DEF StrictSubsetOrdering
  <2> HIDE DEF B
  <2> QED BY <1>2, <2>1
<1>7. PICK r \in [1..Cardinality(T \ {i}) -> T \ {i}] : Sorted(r, T \ {i})
  BY <1>3, <1>6
<1> QED BY <1>3, <1>5, <1>7, FrontOfHeap

\* The batch holds every entry popped, once, in order.
LEMMA HeapOrder ==
    ASSUME deadline \in [Ids -> Nat], NEW S \in SUBSET Ids
    PROVE  /\ InHeapOrder(S) \in Seq(S)
           /\ Len(InHeapOrder(S)) = Cardinality(S)
           /\ \A m, n \in 1..Len(InHeapOrder(S)) : m < n => Before(InHeapOrder(S)[m], InHeapOrder(S)[n])
           /\ \A i \in S : InSeq(i, InHeapOrder(S))
<1> DEFINE N == Cardinality(S)
           h == InHeapOrder(S)
<1>0. N \in Nat /\ IsFiniteSet(S)
  BY IdsFinite
<1>1. h \in [1..N -> S] /\ Sorted(h, S)
  BY HeapOrderExists DEF InHeapOrder, Sorted
<1>2. h \in Seq(S) /\ Len(h) = N
  BY <1>0, <1>1
<1>3. \A i \in S : InSeq(i, h)
  <2> SUFFICES ASSUME NEW i \in S, ~InSeq(i, h) PROVE FALSE
    OBVIOUS
  <2>1. \A n \in 1..N : h[n] \in S \ {i}
    BY <1>1, <1>2 DEF InSeq
  <2>2. IsFiniteSet(S \ {i}) /\ Cardinality(S \ {i}) = N - 1
    BY <1>0, FS_RemoveElement
  <2>3. IsFiniteSet(1..N) /\ Cardinality(1..N) = N
    BY <1>0, FS_Interval
  <2>4. h \in [1..N -> S \ {i}]
    BY <1>1, <2>1
  <2>5. PICK m \in 1..N, n \in 1..N : m # n /\ h[m] = h[n]
    <3>1. Cardinality(1..N) > Cardinality(S \ {i})
      BY <1>0, <2>2, <2>3
    <3> HIDE DEF h, N
    <3> QED BY <2>2, <2>3, <2>4, <3>1, FS_PigeonHole
  <2>6. ~Before(h[m], h[m])
    <3>1. h[m] \in Ids
      BY <1>1
    <3> QED BY <3>1 DEF Before, Ids
  <2>7. m < n \/ n < m
    BY <2>5
  <2> HIDE DEF h
  <2> QED BY <1>1, <2>5, <2>6, <2>7 DEF Sorted
<1> QED BY <1>1, <1>2, <1>3 DEF Sorted

-----------------------------------------------------------------------------
(* The count                                                                *)

Refs(h) == Cardinality({i \in Ids : h[i]})
Counted == active = Refs(held) + Len(queue) + (IF js = "callback" THEN 1 ELSE 0)

LEMMA RefsType ==
    ASSUME NEW h
    PROVE  Refs(h) \in Nat
BY IdsFinite DEF Refs

LEMMA NoRefs ==
    ASSUME NEW h, Refs(h) = 0
    PROVE  \A i \in Ids : ~h[i]
BY IdsFinite, FS_EmptySet DEF Refs

LEMMA AcquireCounts ==
    ASSUME held \in [Ids -> BOOLEAN], active \in Nat, NEW i \in Ids, Acquire(i)
    PROVE  /\ held' \in [Ids -> BOOLEAN] /\ held'[i]
           /\ \A j \in Ids : j # i => held'[j] = held[j]
           /\ active' - active = Refs(held') - Refs(held) /\ active' \in Nat
<1>1. CASE held[i]
  BY <1>1, RefsType DEF Acquire
<1>2. CASE ~held[i]
  <2>1. held' = [held EXCEPT ![i] = TRUE] /\ active' = active + 1
    BY <1>2 DEF Acquire
  <2>2. {j \in Ids : held'[j]} = {j \in Ids : held[j]} \cup {i}
    BY <2>1
  <2>3. Refs(held') = Refs(held) + 1
    BY <1>2, <2>2, IdsFinite, FS_AddElement DEF Refs
  <2> QED BY <2>1, <2>3, RefsType
<1> QED BY <1>1, <1>2

LEMMA ReleaseCounts ==
    ASSUME held \in [Ids -> BOOLEAN], active \in Nat, active >= Refs(held), NEW i \in Ids, Release(i)
    PROVE  /\ held' \in [Ids -> BOOLEAN] /\ ~held'[i]
           /\ \A j \in Ids : j # i => held'[j] = held[j]
           /\ active' - active = Refs(held') - Refs(held) /\ active' \in Nat
<1>1. CASE ~held[i]
  BY <1>1, RefsType DEF Release
<1>2. CASE held[i]
  <2>1. held' = [held EXCEPT ![i] = FALSE] /\ active' = active - 1
    BY <1>2 DEF Release
  <2>2. {j \in Ids : held'[j]} = {j \in Ids : held[j]} \ {i}
    BY <2>1
  <2>3. Refs(held') = Refs(held) - 1
    BY <1>2, <2>2, IdsFinite, FS_RemoveElement DEF Refs
  <2> QED BY <2>1, <2>3, RefsType
<1> QED BY <1>1, <1>2

LEMMA PostCounts ==
    ASSUME queue \in Seq(Ids), active \in Nat, ended \in BOOLEAN, NEW i \in Ids, Post(i)
    PROVE  /\ queue' \in Seq(Ids) /\ active' \in Nat
           /\ active' - active = Len(queue') - Len(queue)
           /\ ended => queue' = queue
           /\ ~ended => queue' = Append(queue, i)
<1>1. CASE ended
  BY <1>1 DEF Post
<1>2. CASE ~ended
  <2>1. active' = active + 1 /\ queue' = Append(queue, i)
    BY <1>2 DEF Post
  <2>2. Append(queue, i) \in Seq(Ids) /\ Len(Append(queue, i)) = Len(queue) + 1 /\ Len(queue) \in Nat
    OBVIOUS
  <2> QED BY <1>2, <2>1, <2>2
<1> QED BY <1>1, <1>2

LEMMA TailFacts ==
    ASSUME NEW S, NEW s \in Seq(S), s # << >>
    PROVE  /\ Head(s) \in S /\ Tail(s) \in Seq(S)
           /\ Len(s) >= 1 /\ Head(s) = s[1] /\ Len(Tail(s)) = Len(s) - 1
           /\ \A n \in 1..Len(s) - 1 : Tail(s)[n] = s[n + 1]
           /\ \A n \in 1..Len(s) : n # 1 => n - 1 \in 1..Len(Tail(s)) /\ s[n] = Tail(s)[n - 1]
OBVIOUS

LEMMA AppendFacts ==
    ASSUME NEW S, NEW s \in Seq(S), NEW e \in S
    PROVE  /\ Append(s, e) \in Seq(S) /\ Len(Append(s, e)) = Len(s) + 1
           /\ \A n \in 1..Len(s) : Append(s, e)[n] = s[n]
           /\ Append(s, e)[Len(s) + 1] = e
OBVIOUS

LEMMA CountStep ==
    ASSUME IInv, [Next]_vars
    PROVE  CountExact'
<1> USE DEF IInv
<1>0. TypeOK /\ Counted
  BY DEF CountExact, Counted, Refs
<1>1. SUFFICES TypeOK' /\ Counted'
  BY DEF CountExact, Counted, Refs
<1>2. Ids \subseteq Nat \ {0}
  BY TimerConstants DEF Ids
<1>3. Refs(held) \in Nat /\ Len(queue) \in Nat /\ active \in Nat
  BY <1>0, RefsType DEF TypeOK
<1>4. CASE Refuse \/ UNCHANGED vars
  BY <1>0, <1>4, TimerConstants DEF Refuse, InCode, TypeOK, Counted, vars, setVars, fireVars, tickVars, jsVars, histVars, endVars
<1>5. ASSUME NEW k \in Kinds, NEW d \in Delays, Schedule(k, d) PROVE TypeOK' /\ Counted'
  <2>1. nextID \in Ids /\ Acquire(nextID)
    BY <1>0, <1>5, TimerConstants DEF Schedule, TypeOK, Ids
  <2>2. held' \in [Ids -> BOOLEAN] /\ active' - active = Refs(held') - Refs(held) /\ active' \in Nat
    BY <1>0, <2>1, AcquireCounts DEF TypeOK
  <2>a. k \in {"once", "interval"} /\ d \in Nat /\ now + d \in Nat /\ nextID' \in 1..MaxId + 2
    BY <1>0, <1>5, <2>1, TimerConstants DEF Schedule, TypeOK, Ids
  <2>b. /\ kind' \in [Ids -> {"none", "once", "interval"}]
        /\ delay' \in [Ids -> Nat] /\ deadline' \in [Ids -> Nat]
    BY <1>0, <1>5, <2>1, <2>a DEF Schedule, TypeOK
  <2>c. arming' \in Ids \cup {0} /\ ticker' \in [Ids -> {"off", "on"}] /\ timers' \subseteq Ids
    BY <1>0, <1>5, <2>1 DEF Schedule, TypeOK
  <2>3. TypeOK'
    BY <1>0, <1>5, <2>2, <2>a, <2>b, <2>c
       DEF Schedule, TypeOK, setVars, fireVars, tickVars, jsVars, histVars, endVars
  <2>4. queue' = queue /\ js' = js
    BY <1>5 DEF Schedule, jsVars
  <2>5. Counted'
    BY <1>0, <1>3, <2>2, <2>4, RefsType DEF Counted
  <2> QED BY <2>3, <2>5
<1>6. CASE TickerPanics
  <2>1. nextID \in Ids /\ Acquire(nextID)
    BY <1>0, <1>6, TimerConstants DEF TickerPanics, TypeOK, Ids
  <2>2. held' \in [Ids -> BOOLEAN] /\ active' - active = Refs(held') - Refs(held) /\ active' \in Nat
    BY <1>0, <2>1, AcquireCounts DEF TypeOK
  <2>a. nextID' \in 1..MaxId + 2
    BY <1>0, <1>6, TimerConstants DEF TickerPanics, TypeOK
  <2>3. TypeOK'
    BY <1>0, <1>6, <2>2, <2>a
       DEF TickerPanics, TypeOK, setVars, fireVars, tickVars, jsVars, histVars, endVars
  <2>4. queue' = queue /\ js' = js
    BY <1>6 DEF TickerPanics, jsVars
  <2>5. Counted'
    BY <1>0, <1>3, <2>2, <2>4, RefsType DEF Counted
  <2> QED BY <2>3, <2>5
<1>7. CASE Arm
  BY <1>0, <1>7 DEF Arm, TypeOK, Counted, setVars, fireVars, tickVars, jsVars, histVars, endVars
<1>8. ASSUME NEW i \in Ids, Clear(i) \/ Unref(i) \/ Ref(i) PROVE TypeOK' /\ Counted'
  <2>1. active >= Refs(held)
    BY <1>0, <1>3 DEF Counted
  <2>2. held' \in [Ids -> BOOLEAN] /\ active' - active = Refs(held') - Refs(held) /\ active' \in Nat
    BY <1>0, <1>8, <2>1, AcquireCounts, ReleaseCounts DEF TypeOK, Clear, Unref, Ref
  <2>3. TypeOK'
    BY <1>0, <1>8, <2>2
       DEF Clear, Unref, Ref, TypeOK, setVars, fireVars, tickVars, jsVars, histVars, endVars
  <2>4. queue' = queue /\ js' = js
    BY <1>8 DEF Clear, Unref, Ref, jsVars
  <2>5. Counted'
    BY <1>0, <1>3, <2>2, <2>4, RefsType DEF Counted
  <2> QED BY <2>3, <2>5
<1>9. CASE Return
  <2>1. active' = IF js = "callback" THEN active - 1 ELSE active
    BY <1>9 DEF Return
  <2>2. active' \in Nat /\ active' = Refs(held) + Len(queue)
    BY <1>0, <1>3, <2>1 DEF Counted, TypeOK
  <2>3. TypeOK'
    BY <1>0, <1>9, <2>2 DEF Return, TypeOK, setVars, fireVars, tickVars, jsVars, histVars, endVars
  <2> QED BY <1>9, <2>2, <2>3 DEF Return, Counted
<1>10. CASE RunCallback
  <2>1. Head(queue) \in Ids /\ queue' = Tail(queue) /\ Tail(queue) \in Seq(Ids) /\ Len(queue') = Len(queue) - 1
    BY <1>0, <1>10, TailFacts DEF RunCallback, TypeOK
  <2>2. ran' \in Seq(Ids)
    BY <1>0, <1>10, <2>1 DEF RunCallback, TypeOK
  <2>3. TypeOK'
    BY <1>0, <1>10, <2>1, <2>2 DEF RunCallback, TypeOK, setVars, fireVars, tickVars, jsVars, histVars, endVars
  <2>4. js = "idle" /\ js' = "callback" /\ held' = held /\ active' = active
    BY <1>10 DEF RunCallback
  <2> QED BY <1>0, <1>3, <2>1, <2>3, <2>4 DEF Counted
<1>11. CASE EndLoop
  BY <1>0, <1>11 DEF EndLoop, TypeOK, Counted, setVars, fireVars, tickVars, jsVars, histVars, endVars
<1>12. CASE Scan
  <2> DEFINE popped == {i \in heap : deadline[i] <= now}
             rest == heap \ popped
  <2>1. \A S \in SUBSET heap : InHeapOrder(S) \in Seq(Ids) /\ Len(InHeapOrder(S)) = Cardinality(S)
    <3> SUFFICES ASSUME NEW S \in SUBSET heap
                 PROVE InHeapOrder(S) \in Seq(Ids) /\ Len(InHeapOrder(S)) = Cardinality(S)
      OBVIOUS
    <3>1. S \in SUBSET Ids /\ deadline \in [Ids -> Nat]
      BY <1>0 DEF TypeOK
    <3>2. InHeapOrder(S) \in Seq(S) /\ Len(InHeapOrder(S)) = Cardinality(S)
      BY <3>1, HeapOrder
    <3> QED BY <3>1, <3>2
  <2>2. rest # {} => Head(InHeapOrder(rest)) \in Ids
    <3> SUFFICES ASSUME rest # {} PROVE Head(InHeapOrder(rest)) \in Ids
      OBVIOUS
    <3>1. Cardinality(rest) # 0
      BY <1>0, IdsFinite, FS_EmptySet DEF TypeOK
    <3>2. InHeapOrder(rest) \in Seq(Ids) /\ InHeapOrder(rest) # << >>
      BY <2>1, <3>1
    <3> HIDE DEF rest
    <3> QED BY <3>2, TailFacts
  <2>3. next' \in Nat \cup {-1}
    BY <1>0, <1>12, <2>2 DEF Scan, ScanUpTo, TypeOK
  <2>4. due' \in Seq(Ids) /\ fire' \in {"sleep", "run"} /\ heap' \subseteq Ids
    BY <1>0, <1>12, <2>1 DEF Scan, ScanUpTo, TypeOK
  <2>5. UNCHANGED <<now, setVars, stopped, held, timers, wake, tickVars, active, queue, jsVars, histVars, endVars>>
    BY <1>12 DEF Scan, ScanUpTo
  <2>6. TypeOK'
    BY <1>0, <2>3, <2>4, <2>5 DEF TypeOK, setVars, tickVars, jsVars, histVars, endVars
  <2> QED BY <1>0, <2>5, <2>6 DEF Counted, jsVars
<1>13. CASE FireRun
  <2>1. due # << >>
    BY <1>13 DEF FireRun, Control
  <2>2. Head(due) \in Ids /\ Post(Head(due))
    BY <1>0, <1>13, <2>1, TailFacts DEF FireRun, TypeOK
  <2>3. queue' \in Seq(Ids) /\ active' \in Nat /\ active' - active = Len(queue') - Len(queue)
    BY <1>0, <2>2, PostCounts DEF TypeOK
  <2>4. TypeOK'
    BY <1>0, <1>13, <2>3 DEF FireRun, TypeOK, setVars, tickVars, jsVars, histVars, endVars
  <2>5. held' = held /\ js' = js
    BY <1>13 DEF FireRun, jsVars
  <2>6. Len(queue') \in Nat
    BY <2>3
  <2> QED BY <1>0, <1>3, <2>3, <2>4, <2>5, <2>6 DEF Counted
<1>14. CASE FireDone
  <2>1. due # << >>
    BY <1>14 DEF FireDone, Control
  <2>2. Head(due) \in Ids /\ Tail(due) \in Seq(Ids) /\ Release(Head(due))
    BY <1>0, <1>14, <2>1, TailFacts DEF FireDone, TypeOK
  <2>3. active >= Refs(held)
    BY <1>0, <1>3 DEF Counted
  <2>4. held' \in [Ids -> BOOLEAN] /\ active' - active = Refs(held') - Refs(held) /\ active' \in Nat
    BY <1>0, <2>2, <2>3, ReleaseCounts DEF TypeOK
  <2>5. TypeOK'
    BY <1>0, <1>14, <2>2, <2>4 DEF FireDone, TypeOK, setVars, tickVars, jsVars, histVars, endVars
  <2>6. queue' = queue /\ js' = js
    BY <1>14 DEF FireDone, jsVars
  <2> QED BY <1>0, <1>3, <2>4, <2>5, <2>6, RefsType DEF Counted
<1>15. CASE WakeUp
  BY <1>0, <1>15 DEF WakeUp, TypeOK, Counted, setVars, fireVars, tickVars, jsVars, histVars, endVars
<1>16. ASSUME NEW i \in Ids, TickerTicks(i) PROVE TypeOK' /\ Counted'
  <2>1. deadline[i] + delay[i] \in Nat
    BY <1>0, <1>16 DEF TypeOK
  <2>2. deadline' \in [Ids -> Nat]
    BY <1>0, <1>16, <2>1 DEF TypeOK, TickerTicks
  <2> QED BY <1>0, <1>16, <2>2 DEF TickerTicks, TypeOK, Counted, setVars, fireVars, tickVars, jsVars, histVars, endVars
<1>17. ASSUME NEW i \in Ids, TickPost(i) PROVE TypeOK' /\ Counted'
  <2>1. queue' \in Seq(Ids) /\ active' \in Nat /\ active' - active = Len(queue') - Len(queue)
    BY <1>0, <1>17, PostCounts DEF TypeOK, TickPost
  <2>2. TypeOK'
    BY <1>0, <1>17, <2>1 DEF TickPost, TypeOK, setVars, fireVars, tickVars, jsVars, histVars, endVars
  <2>3. held' = held /\ js' = js
    BY <1>17 DEF TickPost, jsVars
  <2>4. Len(queue') \in Nat
    BY <2>1
  <2> QED BY <1>0, <1>3, <2>1, <2>2, <2>3, <2>4 DEF Counted
<1>18. ASSUME NEW i \in Ids, TickerExit(i) PROVE TypeOK' /\ Counted'
  BY <1>0, <1>18 DEF TickerExit, TypeOK, Counted, setVars, fireVars, tickVars, jsVars, histVars, endVars
<1>19. CASE Tick
  BY <1>0, <1>19, TimerConstants DEF Tick, TypeOK, Counted, setVars, fireVars, tickVars, jsVars, histVars, endVars
<1> QED
  BY <1>4, <1>5, <1>6, <1>7, <1>8, <1>9, <1>10, <1>11, <1>12, <1>13, <1>14, <1>15, <1>16, <1>17, <1>18, <1>19
     DEF Next, JsCode, Dispatcher

-----------------------------------------------------------------------------
(* Ids and control                                                          *)

\* Most steps leave the line of timers as it is.
Quiet ==
    \/ Refuse \/ TickerPanics \/ Return \/ EndLoop \/ Tick \/ UNCHANGED vars
    \/ \E i \in Ids : Clear(i) \/ Unref(i) \/ Ref(i) \/ TickerExit(i)

LEMMA QuietFacts ==
    ASSUME TypeOK, Quiet
    PROVE  /\ UNCHANGED <<kind, delay, deadline, arming, heap, due, fire, queue, ran>>
           /\ nextID' >= nextID /\ (arming # 0 => nextID' = nextID)
           /\ \A i \in Ids : ticker'[i] = "on" => ticker[i] = "on"
           /\ now' >= now
<1>1. UNCHANGED <<kind, delay, deadline, arming, heap, due, fire, queue, ran>>
  BY DEF Quiet, Refuse, TickerPanics, Return, EndLoop, Tick, Clear, Unref, Ref, TickerExit,
         vars, setVars, fireVars, tickVars, jsVars, histVars, endVars
<1>2. nextID' >= nextID /\ (arming # 0 => nextID' = nextID)
  BY DEF Quiet, Refuse, TickerPanics, Return, EndLoop, Tick, Clear, Unref, Ref, TickerExit, InCode,
         vars, setVars, TypeOK
<1>3. ticker' = ticker \/ \E i \in Ids : ticker' = [ticker EXCEPT ![i] = "off"]
  BY DEF Quiet, Refuse, TickerPanics, Return, EndLoop, Tick, Clear, Unref, Ref, TickerExit, vars, tickVars
<1>4. \A i \in Ids : ticker'[i] = "on" => ticker[i] = "on"
  BY <1>3 DEF TypeOK
<1>5. now' >= now
  BY DEF Quiet, Refuse, TickerPanics, Return, EndLoop, Tick, Clear, Unref, Ref, TickerExit, vars, TypeOK
<1> QED BY <1>1, <1>2, <1>4, <1>5

LEMMA Steps ==
    ASSUME [Next]_vars
    PROVE  \/ Quiet
           \/ \E k \in Kinds, d \in Delays : Schedule(k, d)
           \/ Arm \/ RunCallback \/ Scan \/ FireRun \/ FireDone \/ WakeUp
           \/ \E i \in Ids : TickerTicks(i) \/ TickPost(i)
BY DEF Next, JsCode, Dispatcher, Quiet

\* What the dispatcher pops, and what it leaves.
LEMMA ScanFacts ==
    ASSUME TypeOK, Scan
    PROVE  /\ fire = "scan" /\ heap' \subseteq heap
           /\ \A i \in heap' : deadline[i] > now
           /\ due' \in Seq({i \in heap : deadline[i] <= now /\ ~stopped[i]})
           /\ \A m, n \in 1..Len(due') : m < n => Before(due'[m], due'[n])
           /\ \A i \in heap : i \in heap' \/ stopped[i] \/ InSeq(i, due')
           /\ fire' = IF due' = << >> THEN "sleep" ELSE "run"
           /\ UNCHANGED <<now, setVars, stopped, held, timers, wake, tickVars, active, queue, jsVars, histVars, endVars>>
<1> DEFINE popped == {i \in heap : deadline[i] <= now}
           batch == {i \in popped : ~stopped[i]}
<1>1. heap' = heap \ popped /\ due' = InHeapOrder(batch) /\ fire = "scan"
      /\ fire' = IF due' = << >> THEN "sleep" ELSE "run"
  BY DEF Scan, ScanUpTo
<1>2. UNCHANGED <<now, setVars, stopped, held, timers, wake, tickVars, active, queue, jsVars, histVars, endVars>>
  BY DEF Scan, ScanUpTo
<1>3. batch \in SUBSET Ids /\ deadline \in [Ids -> Nat]
  BY DEF TypeOK
<1>4. /\ due' \in Seq(batch)
      /\ \A m, n \in 1..Len(due') : m < n => Before(due'[m], due'[n])
      /\ \A i \in batch : InSeq(i, due')
  <2> HIDE DEF batch
  <2> QED BY <1>1, <1>3, HeapOrder
<1>5. \A i \in heap' : deadline[i] > now
  <2> SUFFICES ASSUME NEW i \in heap' PROVE deadline[i] > now
    OBVIOUS
  <2>1. ~(deadline[i] <= now)
    BY <1>1
  <2>2. deadline[i] \in Nat /\ now \in Nat
    BY <1>1, TimerConstants DEF TypeOK
  <2> QED BY <2>1, <2>2
<1>6. \A i \in heap : i \in heap' \/ stopped[i] \/ InSeq(i, due')
  <2> SUFFICES ASSUME NEW i \in heap, i \notin heap', ~stopped[i] PROVE InSeq(i, due')
    OBVIOUS
  <2>1. i \in batch
    BY <1>1
  <2> QED BY <1>4, <2>1
<1>7. batch = {i \in heap : deadline[i] <= now /\ ~stopped[i]}
  OBVIOUS
<1> HIDE DEF batch, popped
<1>8. heap' \subseteq heap
  BY <1>1
<1> QED BY <1>1, <1>2, <1>4, <1>5, <1>6, <1>7, <1>8

LEMMA GivenStep ==
    ASSUME IInv, [Next]_vars
    PROVE  Given'
<1>0. TypeOK /\ Given /\ Control
  BY DEF IInv, CountExact
<1>1. Ids \subseteq Nat \ {0} /\ nextID \in Nat /\ 0 \notin Ids
  BY <1>0, TimerConstants DEF Ids, TypeOK
<1>2. CASE Quiet
  <2>1. UNCHANGED <<kind, arming, heap, due, queue, ran>>
        /\ nextID' >= nextID /\ (arming # 0 => nextID' = nextID)
        /\ \A i \in Ids : ticker'[i] = "on" => ticker[i] = "on"
    BY <1>0, <1>2, QuietFacts
  <2>2. \A i \in Ids : i >= nextID' => i >= nextID
    <3>1. nextID' \in Nat
      BY CountStep, TimerConstants DEF CountExact, TypeOK
    <3> QED BY <1>1, <2>1, <3>1
  <2> QED BY <1>0, <2>1, <2>2 DEF Given
<1>3. ASSUME NEW k \in Kinds, NEW d \in Delays, Schedule(k, d) PROVE Given'
  <2>1. /\ nextID \in Ids /\ nextID' = nextID + 1 /\ arming = 0
        /\ kind' = [kind EXCEPT ![nextID] = k] /\ k \in {"once", "interval"}
        /\ UNCHANGED <<heap, due, queue, ran>>
    BY <1>0, <1>3, TimerConstants DEF Schedule, InCode, TypeOK, Ids, fireVars, jsVars
  <2>2. kind[nextID] = "none"
    BY <1>0, <1>1, <2>1 DEF Given
  <2>3. \A i \in Ids : kind[i] # "none" => kind'[i] = kind[i]
    BY <1>0, <2>1, <2>2 DEF TypeOK
  <2>4. \A i \in Ids : i >= nextID' => kind'[i] = "none"
    BY <1>0, <1>1, <2>1 DEF Given, TypeOK
  <2>5. arming' # 0 => nextID' = arming' + 1 /\ kind'[arming'] = "once" /\ arming' \notin heap'
    <3> SUFFICES ASSUME arming' # 0 PROVE arming' = nextID /\ k = "once" /\ nextID \notin heap
      BY <1>0, <2>1 DEF TypeOK
    <3>1. arming' = nextID /\ k = "once"
      BY <1>3, <2>1 DEF Schedule
    <3> QED BY <1>0, <2>2, <3>1 DEF Given
  <2>6. \A i \in Ids : ticker'[i] = "on" => kind'[i] = "interval"
    <3>1. CASE k = "once"
      <4>1. ticker' = ticker
        BY <1>3, <3>1 DEF Schedule
      <4> QED BY <1>0, <2>3, <4>1 DEF Given
    <3>2. CASE k = "interval"
      <4>1. ticker' = [ticker EXCEPT ![nextID] = "on"]
        BY <1>3, <3>2 DEF Schedule
      <4> QED BY <1>0, <2>1, <2>3, <3>2, <4>1 DEF Given, TypeOK
    <3> QED BY <2>1, <3>1, <3>2
  <2>7. /\ \A i \in heap : i \in Ids
        /\ \A n \in 1..Len(due) : due[n] \in Ids
        /\ \A n \in 1..Len(ran) : ran[n] \in Ids
        /\ \A n \in 1..Len(queue) : queue[n] \in Ids
    BY <1>0 DEF TypeOK
  <2> QED BY <1>0, <2>1, <2>3, <2>4, <2>5, <2>6, <2>7 DEF Given
<1>4. CASE Arm
  <2>1. /\ arming # 0 /\ arming' = 0 /\ heap' = heap \cup {arming}
        /\ UNCHANGED <<kind, nextID, due, queue, ran, ticker>>
    BY <1>4 DEF Arm, fireVars, jsVars, tickVars
  <2> QED BY <1>0, <2>1 DEF Given
<1>5. CASE RunCallback
  <2>1. UNCHANGED <<kind, nextID, arming, heap, due, ticker>> /\ queue # << >> /\ queue' = Tail(queue)
        /\ ran' = IF kind[Head(queue)] = "once" THEN Append(ran, Head(queue)) ELSE ran
    BY <1>5 DEF RunCallback, setVars, fireVars, tickVars
  <2>2. Head(queue) \in Ids /\ Len(Tail(queue)) = Len(queue) - 1 /\ \A n \in 1..Len(queue) - 1 : Tail(queue)[n] = queue[n + 1]
    BY <1>0, <2>1, TailFacts DEF TypeOK
  <2>3. \A n \in 1..Len(queue') : kind'[queue'[n]] # "none"
    <3> SUFFICES ASSUME NEW n \in 1..Len(queue') PROVE kind[queue'[n]] # "none"
      BY <2>1
    <3>1. n + 1 \in 1..Len(queue) /\ queue'[n] = queue[n + 1]
      BY <1>0, <2>1, <2>2 DEF TypeOK
    <3> QED BY <1>0, <3>1 DEF Given
  <2>4. \A n \in 1..Len(ran') : kind'[ran'[n]] = "once"
    <3>1. CASE kind[Head(queue)] = "once"
      <4>1. /\ ran' = Append(ran, Head(queue)) /\ Len(ran') = Len(ran) + 1 /\ ran'[Len(ran) + 1] = Head(queue)
            /\ \A n \in 1..Len(ran) : ran'[n] = ran[n]
        BY <1>0, <2>1, <2>2, <3>1, AppendFacts DEF TypeOK
      <4>2. Len(ran) \in Nat
        BY <1>0 DEF TypeOK
      <4>3. \A n \in 1..Len(ran') : n \in 1..Len(ran) \/ n = Len(ran) + 1
        BY <4>1, <4>2
      <4> QED BY <1>0, <2>1, <3>1, <4>1, <4>3 DEF Given
    <3>2. CASE kind[Head(queue)] # "once"
      BY <1>0, <2>1, <3>2 DEF Given
    <3> QED BY <3>1, <3>2
  <2> QED BY <1>0, <2>1, <2>3, <2>4 DEF Given
<1>6. CASE Scan
  <2>1. /\ heap' \subseteq heap /\ due' \in Seq({i \in heap : deadline[i] <= now /\ ~stopped[i]})
        /\ UNCHANGED <<kind, nextID, arming, queue, ran, ticker>>
    BY <1>0, <1>6, ScanFacts DEF setVars, tickVars, jsVars
  <2>2. \A n \in 1..Len(due') : due'[n] \in heap
    BY <2>1
  <2> QED BY <1>0, <2>1, <2>2 DEF Given
<1>7. CASE FireRun
  <2>1. due # << >> /\ Post(Head(due)) /\ UNCHANGED <<kind, nextID, arming, heap, due, ran, ticker>>
    BY <1>0, <1>7 DEF FireRun, Control, setVars, tickVars, jsVars
  <2>2. Head(due) \in Ids /\ Head(due) = due[1] /\ 1 \in 1..Len(due)
    BY <1>0, <2>1, TailFacts DEF TypeOK
  <2>3. kind[Head(due)] = "once"
    BY <1>0, <2>2 DEF Given
  <2>4. queue' = queue \/ queue' = Append(queue, Head(due))
    BY <1>0, <2>1, <2>2, PostCounts DEF TypeOK
  <2>5. \A n \in 1..Len(queue') : kind[queue'[n]] # "none"
    <3>1. CASE queue' = Append(queue, Head(due))
      <4>1. /\ Len(queue') = Len(queue) + 1 /\ queue'[Len(queue) + 1] = Head(due) /\ Len(queue) \in Nat
            /\ \A n \in 1..Len(queue) : queue'[n] = queue[n]
        BY <1>0, <2>2, <3>1, AppendFacts DEF TypeOK
      <4>2. \A n \in 1..Len(queue') : n \in 1..Len(queue) \/ n = Len(queue) + 1
        BY <4>1
      <4> QED BY <1>0, <2>3, <4>1, <4>2 DEF Given
    <3> QED BY <1>0, <2>4, <3>1 DEF Given
  <2> QED BY <1>0, <2>1, <2>5 DEF Given
<1>8. CASE FireDone
  <2>1. due # << >> /\ due' = Tail(due) /\ UNCHANGED <<kind, nextID, arming, heap, queue, ran, ticker>>
    BY <1>0, <1>8 DEF FireDone, Control, setVars, tickVars, jsVars
  <2>2. \A n \in 1..Len(due') : n + 1 \in 1..Len(due) /\ due'[n] = due[n + 1]
    BY <1>0, <2>1, TailFacts DEF TypeOK
  <2> QED BY <1>0, <2>1, <2>2 DEF Given
<1>9. CASE WakeUp
  BY <1>0, <1>9 DEF WakeUp, Given, setVars, tickVars, jsVars
<1>10. ASSUME NEW i \in Ids, TickerTicks(i) PROVE Given'
  BY <1>0, <1>10 DEF TickerTicks, Given, fireVars, jsVars
<1>11. ASSUME NEW i \in Ids, TickPost(i) PROVE Given'
  <2>1. Post(i) /\ ticker[i] = "on" /\ UNCHANGED <<kind, nextID, arming, heap, due, ran, ticker>>
    BY <1>11 DEF TickPost, setVars, fireVars, jsVars
  <2>2. kind[i] = "interval"
    BY <1>0, <2>1 DEF Given
  <2>3. queue' = queue \/ queue' = Append(queue, i)
    BY <1>0, <2>1, PostCounts DEF TypeOK
  <2>4. \A n \in 1..Len(queue') : kind[queue'[n]] # "none"
    <3>1. CASE queue' = Append(queue, i)
      <4>1. /\ Len(queue') = Len(queue) + 1 /\ queue'[Len(queue) + 1] = i /\ Len(queue) \in Nat
            /\ \A n \in 1..Len(queue) : queue'[n] = queue[n]
        BY <1>0, <3>1, AppendFacts DEF TypeOK
      <4>2. \A n \in 1..Len(queue') : n \in 1..Len(queue) \/ n = Len(queue) + 1
        BY <4>1
      <4> QED BY <1>0, <2>2, <4>1, <4>2 DEF Given
    <3> QED BY <1>0, <2>3, <3>1 DEF Given
  <2> QED BY <1>0, <2>1, <2>4 DEF Given
<1> QED BY <1>2, <1>3, <1>4, <1>5, <1>6, <1>7, <1>8, <1>9, <1>10, <1>11, Steps

LEMMA ControlStep ==
    ASSUME IInv, [Next]_vars
    PROVE  Control'
<1>0. TypeOK /\ Given /\ Control
  BY DEF IInv, CountExact
<1>1. CASE Quiet
  <2>1. UNCHANGED <<arming, due, fire>>
    BY <1>0, <1>1, QuietFacts
  <2>2. (js' = "idle" => arming = 0) /\ (ended' => js' = "idle")
    BY <1>0, <1>1 DEF Control, Quiet, Refuse, TickerPanics, Return, EndLoop, Tick, Clear, Unref, Ref, TickerExit,
         InCode, vars, jsVars, endVars
  <2>3. \A i \in Ids : stopped'[i] => i \in cleared'
    BY <1>0, <1>1 DEF Control, TypeOK, Quiet, Refuse, TickerPanics, Return, EndLoop, Tick, Clear, Unref, Ref, TickerExit,
         vars, histVars
  <2> QED BY <1>0, <2>1, <2>2, <2>3 DEF Control
<1>2. ASSUME NEW k \in Kinds, NEW d \in Delays, Schedule(k, d) PROVE Control'
  <2>1. js # "idle" /\ UNCHANGED <<js, ended, due, fire, stopped, cleared>>
    BY <1>2 DEF Schedule, InCode, fireVars, jsVars, histVars, endVars
  <2> QED BY <1>0, <2>1 DEF Control
<1>3. CASE Arm
  BY <1>0, <1>3 DEF Arm, Control, fireVars, jsVars, histVars, endVars
<1>4. CASE RunCallback
  BY <1>0, <1>4 DEF RunCallback, Control, setVars, fireVars, histVars, endVars
<1>5. CASE Scan
  <2>1. fire' = (IF due' = << >> THEN "sleep" ELSE "run") /\ UNCHANGED <<arming, js, ended, stopped, cleared>>
    BY <1>0, <1>5, ScanFacts DEF setVars, jsVars, histVars, endVars
  <2> QED BY <1>0, <2>1 DEF Control
<1>6. CASE FireRun
  BY <1>0, <1>6 DEF FireRun, Control, setVars, jsVars, histVars, endVars
<1>7. CASE FireDone
  BY <1>0, <1>7 DEF FireDone, Control, setVars, jsVars, histVars, endVars
<1>8. CASE WakeUp
  BY <1>0, <1>8 DEF WakeUp, Control, setVars, jsVars, histVars, endVars
<1>9. ASSUME NEW i \in Ids, TickerTicks(i) \/ TickPost(i) PROVE Control'
  BY <1>0, <1>9 DEF TickerTicks, TickPost, Control, setVars, fireVars, jsVars, histVars, endVars
<1> QED BY <1>1, <1>2, <1>3, <1>4, <1>5, <1>6, <1>7, <1>8, <1>9, Steps

-----------------------------------------------------------------------------
(* No timer is left behind                                                  *)

LEMMA InAppend ==
    ASSUME NEW s \in Seq(Ids), NEW e \in Ids
    PROVE  InSeq(e, Append(s, e)) /\ \A i \in Ids : InSeq(i, s) => InSeq(i, Append(s, e))
<1>1. Len(s) \in Nat /\ Len(Append(s, e)) = Len(s) + 1
  BY AppendFacts
<1> QED BY <1>1, AppendFacts DEF InSeq

LEMMA InTail ==
    ASSUME NEW s \in Seq(Ids), s # << >>
    PROVE  \A i \in Ids : InSeq(i, s) => i = Head(s) \/ InSeq(i, Tail(s))
BY TailFacts DEF InSeq

LEMMA TrackedStep ==
    ASSUME IInv, [Next]_vars
    PROVE  Tracked'
<1>0. TypeOK /\ Given /\ Control /\ Tracked /\ active >= Refs(held)
  <2>1. CountExact /\ Given /\ Control /\ Tracked
    BY DEF IInv
  <2>2. Refs(held) \in Nat /\ Len(queue) \in Nat
    BY <2>1, RefsType DEF CountExact, TypeOK
  <2> QED BY <2>1, <2>2 DEF CountExact, Refs
<1> SUFFICES ASSUME ~ended' PROVE Tracked'
  BY DEF Tracked
<1>1. ~ended
  BY <1>0, Steps DEF TypeOK, Quiet, Refuse, TickerPanics, Return, EndLoop, Tick, Clear, Unref, Ref, TickerExit,
     Schedule, Arm, RunCallback, Scan, ScanUpTo, FireRun, FireDone, WakeUp, TickerTicks, TickPost, vars, endVars
<1>2. ASSUME \A i \in Ids : kind'[i] = "once" /\ i \notin cleared' /\ ~InSeq(i, ran') =>
                 InSeq(i, queue') \/ (Pending(i)' /\ (held'[i] \/ i \in unrefd')),
             fire' = "done" => InSeq(Head(due'), queue') \/ InSeq(Head(due'), ran')
      PROVE  Tracked'
  BY <1>2 DEF Tracked, InSeq, Pending
<1>3. CASE Quiet
  <2>1. UNCHANGED <<kind, arming, heap, due, fire, queue, ran>>
    BY <1>0, <1>3, QuietFacts
  <2>2. \A i \in Ids : Pending(i)' <=> Pending(i)
    BY <2>1 DEF Pending
  <2>3. /\ cleared \subseteq cleared'
        /\ \A i \in Ids : i \notin cleared' /\ (held[i] \/ i \in unrefd) => held'[i] \/ i \in unrefd'
    <3>1. CASE \E j \in Ids : Clear(j) \/ Unref(j)
      <4>1. PICK j \in Ids : Clear(j) \/ Unref(j)
        BY <3>1
      <4>2. \A i \in Ids : i # j => held'[i] = held[i]
        BY <1>0, <4>1, ReleaseCounts DEF Clear, Unref, TypeOK
      <4> QED BY <4>1, <4>2 DEF Clear, Unref
    <3>2. CASE \E j \in Ids : Ref(j)
      <4>1. PICK j \in Ids : Ref(j)
        BY <3>2
      <4>2. held'[j] /\ \A i \in Ids : i # j => held'[i] = held[i]
        BY <1>0, <4>1, AcquireCounts DEF Ref, TypeOK
      <4> QED BY <4>1, <4>2 DEF Ref
    <3>3. CASE TickerPanics
      <4>1. nextID \in Ids /\ Acquire(nextID)
        BY <1>0, <3>3, TimerConstants DEF TickerPanics, TypeOK, Ids
      <4>2. held'[nextID] /\ \A i \in Ids : i # nextID => held'[i] = held[i]
        BY <1>0, <4>1, AcquireCounts DEF TypeOK
      <4> QED BY <3>3, <4>2 DEF TickerPanics, histVars
    <3>4. CASE Refuse \/ Return \/ EndLoop \/ Tick \/ UNCHANGED vars \/ \E i \in Ids : TickerExit(i)
      BY <3>4 DEF Refuse, Return, EndLoop, Tick, TickerExit, vars, histVars
    <3> QED BY <1>3, <3>1, <3>2, <3>3, <3>4 DEF Quiet
  <2> QED BY <1>0, <1>1, <2>1, <2>2, <2>3 DEF Tracked
<1>4. ASSUME NEW k \in Kinds, NEW d \in Delays, Schedule(k, d) PROVE Tracked'
  <2>1. /\ nextID \in Ids /\ arming = 0 /\ Acquire(nextID)
        /\ kind' = [kind EXCEPT ![nextID] = k]
        /\ k = "once" => arming' = nextID
        /\ UNCHANGED <<heap, due, fire, queue, ran, cleared, unrefd>>
    BY <1>0, <1>4, TimerConstants DEF Schedule, InCode, TypeOK, Ids, fireVars, jsVars, histVars
  <2>2. held'[nextID] /\ \A i \in Ids : i # nextID => held'[i] = held[i]
    BY <1>0, <2>1, AcquireCounts DEF TypeOK
  <2>3. \A i \in Ids : Pending(i) => Pending(i)'
    BY <1>0, <2>1, TimerConstants DEF Pending, Ids
  <2>4. \A i \in Ids : i = nextID /\ k = "once" => Pending(i)'
    BY <2>1 DEF Pending
  <2>5. \A i \in Ids : i # nextID => kind'[i] = kind[i]
    BY <1>0, <2>1 DEF TypeOK
  <2>6. kind'[nextID] = k
    BY <1>0, <2>1 DEF TypeOK
  <2>7. ASSUME NEW i \in Ids, kind'[i] = "once", i \notin cleared', ~InSeq(i, ran')
        PROVE  InSeq(i, queue') \/ (Pending(i)' /\ (held'[i] \/ i \in unrefd'))
    <3>1. CASE i = nextID
      BY <2>2, <2>4, <2>6, <2>7, <3>1
    <3>2. CASE i # nextID
      BY <1>0, <1>1, <2>1, <2>2, <2>3, <2>5, <2>7, <3>2 DEF Tracked
    <3> QED BY <3>1, <3>2
  <2> QED BY <1>0, <1>1, <1>2, <2>1, <2>7 DEF Tracked
<1>5. CASE Arm
  <2>1. /\ heap' = heap \cup {arming} /\ arming' = 0
        /\ UNCHANGED <<kind, due, fire, queue, ran, held, cleared, unrefd>>
    BY <1>5 DEF Arm, fireVars, jsVars, histVars
  <2>2. \A i \in Ids : Pending(i) => Pending(i)'
    BY <2>1 DEF Pending
  <2> QED BY <1>0, <1>1, <1>2, <2>1, <2>2 DEF Tracked
<1>6. CASE RunCallback
  <2>1. /\ UNCHANGED <<kind, arming, heap, due, fire, held, cleared, unrefd>>
        /\ queue # << >> /\ queue' = Tail(queue)
        /\ ran' = IF kind[Head(queue)] = "once" THEN Append(ran, Head(queue)) ELSE ran
    BY <1>6 DEF RunCallback, setVars, fireVars, histVars
  <2>2. Head(queue) \in Ids
    BY <1>0, <2>1, TailFacts DEF TypeOK
  <2>3. \A i \in Ids : InSeq(i, ran) => InSeq(i, ran')
    BY <1>0, <2>1, <2>2, InAppend DEF TypeOK
  <2>4. \A i \in Ids : kind[i] = "once" /\ InSeq(i, queue) => InSeq(i, queue') \/ InSeq(i, ran')
    <3> SUFFICES ASSUME NEW i \in Ids, kind[i] = "once", InSeq(i, queue), ~InSeq(i, queue')
                 PROVE  InSeq(i, ran')
      OBVIOUS
    <3>1. i = Head(queue)
      BY <1>0, <2>1, InTail DEF TypeOK
    <3> QED BY <1>0, <2>1, <3>1, InAppend DEF TypeOK
  <2>5. \A i \in Ids : Pending(i)' <=> Pending(i)
    BY <2>1 DEF Pending
  <2>6. fire = "done" => Head(due) \in Ids /\ kind[Head(due)] = "once"
    <3> SUFFICES ASSUME fire = "done" PROVE Head(due) \in Ids /\ kind[Head(due)] = "once"
      OBVIOUS
    <3>1. due # << >>
      BY <1>0 DEF Control
    <3>2. Head(due) \in Ids /\ Head(due) = due[1] /\ 1 \in 1..Len(due)
      BY <1>0, <3>1, TailFacts DEF TypeOK
    <3> QED BY <1>0, <3>2 DEF Given
  <2>7. fire' = "done" => InSeq(Head(due'), queue') \/ InSeq(Head(due'), ran')
    BY <1>0, <1>1, <2>1, <2>3, <2>4, <2>6 DEF Tracked
  <2> QED BY <1>0, <1>1, <1>2, <2>1, <2>3, <2>4, <2>5, <2>7 DEF Tracked
<1>7. CASE Scan
  <2>1. /\ \A i \in heap : i \in heap' \/ stopped[i] \/ InSeq(i, due')
        /\ fire = "scan" /\ fire' # "done"
        /\ UNCHANGED <<kind, arming, queue, ran, held, cleared, unrefd>>
    BY <1>0, <1>7, ScanFacts DEF setVars, jsVars, histVars
  <2>2. due = << >>
    BY <1>0, <2>1 DEF Control
  <2>3. \A i \in Ids : Pending(i) /\ i \notin cleared => Pending(i)'
    BY <1>0, <2>1, <2>2 DEF Pending, Control, InSeq
  <2> QED BY <1>0, <1>1, <1>2, <2>1, <2>3 DEF Tracked
<1>8. CASE FireRun
  <2>1. /\ due # << >> /\ Post(Head(due)) /\ UNCHANGED <<kind, arming, heap, due, ran, held, cleared, unrefd>>
    BY <1>0, <1>8 DEF FireRun, Control, setVars, jsVars, histVars
  <2>2. Head(due) \in Ids
    BY <1>0, <2>1, TailFacts DEF TypeOK
  <2>3. queue' = Append(queue, Head(due))
    BY <1>0, <1>1, <2>1, <2>2, PostCounts DEF TypeOK
  <2>4. InSeq(Head(due), queue') /\ \A i \in Ids : InSeq(i, queue) => InSeq(i, queue')
    BY <1>0, <2>2, <2>3, InAppend DEF TypeOK
  <2>5. \A i \in Ids : Pending(i)' <=> Pending(i)
    BY <2>1 DEF Pending
  <2> QED BY <1>0, <1>1, <1>2, <2>1, <2>4, <2>5 DEF Tracked
<1>9. CASE FireDone
  <2>1. /\ fire = "done" /\ fire' # "done" /\ due # << >> /\ due' = Tail(due) /\ Release(Head(due))
        /\ UNCHANGED <<kind, arming, heap, queue, ran, cleared, unrefd>>
    BY <1>0, <1>9 DEF FireDone, Control, setVars, jsVars, histVars
  <2>2. Head(due) \in Ids
    BY <1>0, <2>1, TailFacts DEF TypeOK
  <2>3. \A i \in Ids : i # Head(due) => held'[i] = held[i]
    BY <1>0, <2>1, <2>2, ReleaseCounts DEF TypeOK
  <2>4. InSeq(Head(due), queue) \/ InSeq(Head(due), ran)
    BY <1>0, <1>1, <2>1 DEF Tracked
  <2>5. \A i \in Ids : Pending(i) /\ i # Head(due) => Pending(i)'
    <3> SUFFICES ASSUME NEW i \in Ids, Pending(i), i # Head(due), ~(i = arming \/ i \in heap)
                 PROVE  InSeq(i, due')
      BY <2>1 DEF Pending, InSeq
    <3>1. InSeq(i, due)
      BY DEF Pending, InSeq
    <3> QED BY <1>0, <2>1, <3>1, InTail DEF TypeOK
  <2> QED BY <1>0, <1>1, <1>2, <2>1, <2>3, <2>4, <2>5 DEF Tracked
<1>10. CASE WakeUp
  <2>1. fire' = "scan" /\ UNCHANGED <<kind, arming, heap, due, queue, ran, held, cleared, unrefd>>
    BY <1>10 DEF WakeUp, setVars, jsVars, histVars
  <2>2. \A i \in Ids : Pending(i)' <=> Pending(i)
    BY <2>1 DEF Pending
  <2> QED BY <1>0, <1>1, <1>2, <2>1, <2>2 DEF Tracked
<1>11. ASSUME NEW j \in Ids, TickerTicks(j) \/ TickPost(j) PROVE Tracked'
  <2>1. UNCHANGED <<kind, arming, heap, due, fire, ran, held, cleared, unrefd>>
    BY <1>11 DEF TickerTicks, TickPost, setVars, fireVars, jsVars, histVars
  <2>2. queue' = queue \/ queue' = Append(queue, j)
    BY <1>0, <1>11, PostCounts DEF TickerTicks, TickPost, TypeOK
  <2>3. \A i \in Ids : InSeq(i, queue) => InSeq(i, queue')
    BY <1>0, <2>2, InAppend DEF TypeOK
  <2>4. \A i \in Ids : Pending(i)' <=> Pending(i)
    BY <2>1 DEF Pending
  <2>5. fire = "done" => Head(due) \in Ids
    BY <1>0, TailFacts DEF Control, TypeOK
  <2> QED BY <1>0, <1>1, <1>2, <2>1, <2>3, <2>4, <2>5 DEF Tracked
<1> QED BY <1>3, <1>4, <1>5, <1>6, <1>7, <1>8, <1>9, <1>10, <1>11, Steps

LEMMA EndsStep ==
    ASSUME IInv, [Next]_vars
    PROVE  EndsAfterTimers'
<1>0. TypeOK /\ Given /\ Control /\ Tracked /\ EndsAfterTimers /\ CountExact
  BY DEF IInv, CountExact
<1>1. CASE EndLoop
  <2>1. /\ js = "idle" /\ active = 0 /\ ~ended /\ UNCHANGED <<kind, cleared, unrefd, ran>>
    BY <1>1 DEF EndLoop, setVars, jsVars, histVars
  <2>2. Refs(held) = 0 /\ Len(queue) = 0
    <3>1. Refs(held) \in Nat /\ Len(queue) \in Nat
      BY <1>0, RefsType DEF TypeOK
    <3>2. active = Refs(held) + Len(queue)
      BY <1>0, <2>1, <3>1 DEF CountExact, Refs
    <3> QED BY <2>1, <3>1, <3>2
  <2>3. \A i \in Ids : ~held[i] /\ ~InSeq(i, queue)
    BY <2>2, NoRefs DEF InSeq
  <2> QED BY <1>0, <2>1, <2>3 DEF Tracked, EndsAfterTimers, InSeq
<1>2. CASE ended
  <2>1. js = "idle" /\ arming = 0
    BY <1>0, <1>2 DEF Control
  <2>2. UNCHANGED <<kind, cleared, unrefd, ran>>
    BY <1>0, <1>2, <2>1, Steps DEF TypeOK, Quiet, Refuse, TickerPanics, Return, EndLoop, Tick, Clear, Unref, Ref,
       TickerExit, Schedule, Arm, RunCallback, Scan, ScanUpTo, FireRun, FireDone, WakeUp, TickerTicks, TickPost, InCode,
       vars, setVars, jsVars, histVars
  <2> QED BY <1>0, <1>2, <2>2 DEF EndsAfterTimers
<1>3. CASE ~ended /\ ~EndLoop
  <2>1. ~ended'
    BY <1>0, <1>3, Steps DEF TypeOK, Quiet, Refuse, TickerPanics, Return, Tick, Clear, Unref, Ref, TickerExit,
     Schedule, Arm, RunCallback, Scan, ScanUpTo, FireRun, FireDone, WakeUp, TickerTicks, TickPost, vars, endVars
  <2> QED BY <2>1 DEF EndsAfterTimers
<1> QED BY <1>1, <1>2, <1>3

-----------------------------------------------------------------------------
(* The order of the line                                                    *)

LEMMA AppendCases ==
    ASSUME NEW s \in Seq(Ids), NEW e \in Ids
    PROVE  /\ Len(s) \in Nat /\ Len(Append(s, e)) = Len(s) + 1
           /\ \A n \in 1..Len(Append(s, e)) :
                (n \in 1..Len(s) /\ Append(s, e)[n] = s[n]) \/ (n = Len(s) + 1 /\ Append(s, e)[n] = e)
<1>1. Len(s) \in Nat /\ Len(Append(s, e)) = Len(s) + 1
  BY AppendFacts
<1>2. \A n \in 1..Len(Append(s, e)) : n \in 1..Len(s) \/ n = Len(s) + 1
  BY <1>1
<1> QED BY <1>1, <1>2, AppendFacts

LEMMA TailCases ==
    ASSUME NEW s \in Seq(Ids), s # << >>
    PROVE  /\ Head(s) \in Ids /\ Head(s) = s[1] /\ 1 \in 1..Len(s)
           /\ Tail(s) \in Seq(Ids)
           /\ \A n \in 1..Len(Tail(s)) : n + 1 \in 1..Len(s) /\ n + 1 > 1 /\ Tail(s)[n] = s[n + 1]
<1>1. Len(s) \in Nat /\ Len(s) >= 1 /\ Len(Tail(s)) = Len(s) - 1
  BY TailFacts
<1> QED BY <1>1, TailFacts

LEMMA SetInOrderStep ==
    ASSUME IInv, [Next]_vars
    PROVE  SetInOrder'
<1>0. TypeOK /\ Given /\ SetInOrder /\ now \in Nat /\ now' \in Nat
  <2>1. TypeOK /\ TypeOK' /\ Given /\ SetInOrder
    BY CountStep DEF IInv, CountExact
  <2>2. now \in 0..MaxTime /\ now' \in 0..MaxTime
    BY <2>1 DEF TypeOK
  <2>3. now \in Nat /\ now' \in Nat
    BY <2>2, TimerConstants
  <2> QED BY <2>1, <2>3
<1>1. \A i \in Ids : delay[i] \in Nat /\ deadline[i] \in Nat
  BY <1>0 DEF TypeOK
<1>2. ASSUME UNCHANGED <<kind, delay>>, \A i \in Ids : kind[i] = "once" => deadline'[i] = deadline[i], now' >= now
      PROVE  SetInOrder'
  BY <1>0, <1>1, <1>2 DEF SetInOrder
<1>3. CASE Quiet
  BY <1>0, <1>2, <1>3, QuietFacts
<1>4. ASSUME NEW k \in Kinds, NEW d \in Delays, Schedule(k, d) PROVE SetInOrder'
  <2>1. /\ nextID \in Ids /\ now' = now /\ d \in Nat
        /\ kind' = [kind EXCEPT ![nextID] = k]
        /\ delay' = [delay EXCEPT ![nextID] = d]
        /\ deadline' = [deadline EXCEPT ![nextID] = now + d]
    BY <1>0, <1>4, TimerConstants DEF Schedule, TypeOK, Ids
  <2>2. \A i \in Ids : i # nextID => kind'[i] = kind[i] /\ delay'[i] = delay[i] /\ deadline'[i] = deadline[i]
    BY <1>0, <2>1 DEF TypeOK
  <2>3. delay'[nextID] = d /\ deadline'[nextID] = now + d /\ (now + d) - d = now /\ d <= now + d
    BY <1>0, <2>1 DEF TypeOK
  <2>4. \A i \in Ids : kind'[i] = "once" => i = nextID \/ (kind[i] = "once" /\ i < nextID)
    <3> SUFFICES ASSUME NEW i \in Ids, kind'[i] = "once", i # nextID PROVE kind[i] = "once" /\ i < nextID
      OBVIOUS
    <3>1. kind[i] = "once" /\ i \in Nat /\ nextID \in Nat
      BY <2>1, <2>2, TimerConstants DEF Ids
    <3> QED BY <1>0, <3>1 DEF Given
  <2>5. \A i \in Ids : kind'[i] = "once" => delay'[i] <= deadline'[i] /\ deadline'[i] - delay'[i] <= now'
    BY <1>0, <1>1, <2>1, <2>2, <2>3, <2>4 DEF SetInOrder
  <2>6. ASSUME NEW i \in Ids, NEW j \in Ids, kind'[i] = "once", kind'[j] = "once", i < j
        PROVE  deadline'[i] - delay'[i] <= deadline'[j] - delay'[j]
    <3>1. i # nextID
      <4> SUFFICES ASSUME i = nextID PROVE FALSE
        OBVIOUS
      <4>1. j \in Nat /\ i \in Nat
        BY TimerConstants DEF Ids
      <4> QED BY <2>4, <2>6, <4>1
    <3>2. kind[i] = "once" /\ deadline'[i] = deadline[i] /\ delay'[i] = delay[i]
      BY <2>2, <2>4, <2>6, <3>1
    <3>3. CASE j = nextID
      BY <1>0, <2>3, <3>2, <3>3 DEF SetInOrder
    <3>4. CASE j # nextID
      BY <1>0, <2>2, <2>4, <2>6, <3>2, <3>4 DEF SetInOrder
    <3> QED BY <3>3, <3>4
  <2> QED BY <2>5, <2>6 DEF SetInOrder
<1>5. CASE Arm \/ RunCallback \/ Scan \/ FireRun \/ FireDone \/ WakeUp
  BY <1>0, <1>2, <1>5 DEF Arm, RunCallback, Scan, ScanUpTo, FireRun, FireDone, WakeUp, setVars
<1>6. ASSUME NEW i \in Ids, TickerTicks(i) \/ TickPost(i) PROVE SetInOrder'
  BY <1>0, <1>2, <1>6 DEF TickerTicks, TickPost, setVars, Given, TypeOK
<1> QED BY <1>3, <1>4, <1>5, <1>6, Steps

LEMMA OnTimeStep ==
    ASSUME IInv, [Next]_vars
    PROVE  OnTime'
<1>0. TypeOK /\ Given /\ Control /\ OnTime /\ now \in Nat /\ now' \in Nat
  <2>1. TypeOK /\ TypeOK' /\ Given /\ Control /\ OnTime
    BY CountStep DEF IInv, CountExact
  <2>2. now \in 0..MaxTime /\ now' \in 0..MaxTime
    BY <2>1 DEF TypeOK
  <2>3. now \in Nat /\ now' \in Nat
    BY <2>2, TimerConstants
  <2> QED BY <2>1, <2>3
<1>1. \A i \in Ids : deadline[i] \in Nat
  BY <1>0 DEF TypeOK
<1>2. /\ \A n \in 1..Len(due) : due[n] \in Ids /\ kind[due[n]] = "once"
      /\ \A n \in 1..Len(ran) : ran[n] \in Ids /\ kind[ran[n]] = "once"
      /\ \A n \in 1..Len(queue) : queue[n] \in Ids /\ kind[queue[n]] # "none"
  BY <1>0 DEF TypeOK, Given
<1>3. CASE Quiet
  <2>1. UNCHANGED <<kind, deadline, due, queue, ran>> /\ now' >= now
    BY <1>0, <1>3, QuietFacts
  <2> QED BY <1>0, <1>1, <1>2, <2>1 DEF OnTime
<1>4. ASSUME NEW k \in Kinds, NEW d \in Delays, Schedule(k, d) PROVE OnTime'
  <2>1. /\ nextID \in Ids /\ now' = now
        /\ kind' = [kind EXCEPT ![nextID] = k]
        /\ deadline' = [deadline EXCEPT ![nextID] = now + d]
        /\ UNCHANGED <<due, queue, ran>>
    BY <1>0, <1>4, TimerConstants DEF Schedule, TypeOK, Ids, fireVars, jsVars
  <2>2. kind[nextID] = "none"
    BY <1>0, <2>1, TimerConstants DEF Given, Ids
  <2>3. \A i \in Ids : kind[i] # "none" => kind'[i] = kind[i] /\ deadline'[i] = deadline[i]
    BY <1>0, <2>1, <2>2 DEF TypeOK
  <2> QED BY <1>0, <1>2, <2>1, <2>3 DEF OnTime
<1>5. CASE Arm \/ WakeUp
  BY <1>0, <1>5 DEF Arm, WakeUp, OnTime, setVars, fireVars, jsVars
<1>6. CASE RunCallback
  <2>1. /\ UNCHANGED <<kind, deadline, due, now>> /\ queue # << >> /\ queue' = Tail(queue)
        /\ ran' = IF kind[Head(queue)] = "once" THEN Append(ran, Head(queue)) ELSE ran
    BY <1>6 DEF RunCallback, setVars, fireVars
  <2>2. /\ Head(queue) \in Ids /\ Head(queue) = queue[1] /\ 1 \in 1..Len(queue)
        /\ \A n \in 1..Len(queue') : n + 1 \in 1..Len(queue) /\ queue'[n] = queue[n + 1]
    BY <1>0, <2>1, TailCases DEF TypeOK
  <2>3. \A n \in 1..Len(queue') : kind[queue'[n]] = "once" => deadline[queue'[n]] <= now
    BY <1>0, <2>2 DEF OnTime
  <2>4. \A n \in 1..Len(ran') : deadline[ran'[n]] <= now
    <3>1. CASE kind[Head(queue)] = "once"
      <4>1. deadline[Head(queue)] <= now
        BY <1>0, <2>2, <3>1 DEF OnTime
      <4>2. \A n \in 1..Len(ran') : (n \in 1..Len(ran) /\ ran'[n] = ran[n]) \/ ran'[n] = Head(queue)
        BY <1>0, <2>1, <2>2, <3>1, AppendCases DEF TypeOK
      <4> QED BY <1>0, <4>1, <4>2 DEF OnTime
    <3>2. CASE kind[Head(queue)] # "once"
      BY <1>0, <2>1, <3>2 DEF OnTime
    <3> QED BY <3>1, <3>2
  <2> QED BY <1>0, <2>1, <2>3, <2>4 DEF OnTime
<1>7. CASE Scan
  <2>1. /\ due' \in Seq({i \in heap : deadline[i] <= now /\ ~stopped[i]})
        /\ UNCHANGED <<kind, deadline, queue, ran, now>>
    BY <1>0, <1>7, ScanFacts DEF setVars, jsVars
  <2>2. \A n \in 1..Len(due') : deadline[due'[n]] <= now
    BY <2>1
  <2> QED BY <1>0, <2>1, <2>2 DEF OnTime
<1>8. CASE FireRun
  <2>1. due # << >> /\ Post(Head(due)) /\ UNCHANGED <<kind, deadline, due, ran, now>>
    BY <1>0, <1>8 DEF FireRun, Control, setVars, jsVars
  <2>2. Head(due) \in Ids /\ Head(due) = due[1] /\ 1 \in 1..Len(due)
    BY <1>0, <2>1, TailCases DEF TypeOK
  <2>3. queue' = queue \/ queue' = Append(queue, Head(due))
    BY <1>0, <2>1, <2>2, PostCounts DEF TypeOK
  <2>4. \A n \in 1..Len(queue') : (n \in 1..Len(queue) /\ queue'[n] = queue[n]) \/ queue'[n] = Head(due)
    <3>1. CASE queue' = Append(queue, Head(due))
      BY <1>0, <2>2, <3>1, AppendCases DEF TypeOK
    <3> QED BY <2>3, <3>1
  <2> QED BY <1>0, <2>1, <2>2, <2>4 DEF OnTime
<1>9. CASE FireDone
  <2>1. due # << >> /\ due' = Tail(due) /\ UNCHANGED <<kind, deadline, queue, ran, now>>
    BY <1>0, <1>9 DEF FireDone, Control, setVars, jsVars
  <2>2. \A n \in 1..Len(due') : n + 1 \in 1..Len(due) /\ due'[n] = due[n + 1]
    BY <1>0, <2>1, TailCases DEF TypeOK
  <2> QED BY <1>0, <2>1, <2>2 DEF OnTime
<1>10. ASSUME NEW i \in Ids, TickerTicks(i) PROVE OnTime'
  <2>1. /\ kind[i] = "interval" /\ deadline' = [deadline EXCEPT ![i] = @ + delay[i]]
        /\ UNCHANGED <<kind, due, queue, ran, now>>
    BY <1>0, <1>10 DEF TickerTicks, Given, fireVars, jsVars
  <2>2. \A j \in Ids : kind[j] = "once" => deadline'[j] = deadline[j]
    BY <1>0, <2>1 DEF TypeOK
  <2> QED BY <1>0, <1>2, <2>1, <2>2 DEF OnTime
<1>11. ASSUME NEW i \in Ids, TickPost(i) PROVE OnTime'
  <2>1. /\ kind[i] = "interval" /\ Post(i) /\ UNCHANGED <<kind, deadline, due, ran, now>>
    BY <1>0, <1>11 DEF TickPost, Given, setVars, fireVars, jsVars
  <2>3. queue' = queue \/ queue' = Append(queue, i)
    BY <1>0, <2>1, PostCounts DEF TypeOK
  <2>4. \A n \in 1..Len(queue') : (n \in 1..Len(queue) /\ queue'[n] = queue[n]) \/ queue'[n] = i
    <3>1. CASE queue' = Append(queue, i)
      BY <1>0, <3>1, AppendCases DEF TypeOK
    <3> QED BY <2>3, <3>1
  <2> QED BY <1>0, <2>1, <2>4 DEF OnTime
<1> QED BY <1>3, <1>4, <1>5, <1>6, <1>7, <1>8, <1>9, <1>10, <1>11, Steps

\* Steps that move nobody and change no one-shot timer keep the line.
LEMMA LineKept ==
    ASSUME TypeOK, Given, Line,
           UNCHANGED <<arming, heap, due, queue, ran>>,
           fire' = fire \/ (fire # "done" /\ fire' # "done"),
           \A i \in Ids : (kind'[i] = "once") <=> (kind[i] = "once"),
           \A i \in Ids : kind[i] = "once" => deadline'[i] = deadline[i]
    PROVE  Line'
<1>1. /\ \A n \in 1..Len(due) : due[n] \in Ids /\ kind[due[n]] = "once"
      /\ \A n \in 1..Len(ran) : ran[n] \in Ids
      /\ \A n \in 1..Len(queue) : queue[n] \in Ids
      /\ heap \subseteq Ids /\ (arming # 0 => arming \in Ids)
  BY DEF TypeOK, Given
<1>2. \A i, j \in Ids : NotAfter(i, j)' <=> NotAfter(i, j)
  BY DEF NotAfter
<1>3. RanInOrder' /\ QueueInOrder' /\ RanBeforeQueue'
  BY <1>1, <1>2 DEF Line, RanInOrder, QueueInOrder, RanBeforeQueue
<1>4. DueInOrder'
  BY <1>1 DEF Line, DueInOrder, Before
<1>5. \A i \in Ids : DueComes(i) => DueComes(i)'
  BY <1>1, <1>2 DEF DueComes
<1>6. \A i \in Ids : HeapComes(i) => HeapComes(i)'
  BY <1>1, <1>2 DEF HeapComes
<1>7. /\ \A n \in 1..Len(ran') : DueComes(ran[n])' /\ HeapComes(ran[n])'
      /\ \A n \in 1..Len(queue') : DueComes(queue[n])' /\ HeapComes(queue[n])'
      /\ \A n \in 1..Len(due') : HeapComes(due[n])'
  BY <1>1, <1>5, <1>6 DEF Line
<1> QED BY <1>3, <1>4, <1>7 DEF Line

LEMMA LineStep ==
    ASSUME IInv, [Next]_vars
    PROVE  Line'
<1>0. TypeOK /\ Given /\ Control /\ Line
  BY DEF IInv, CountExact
<1>1. /\ \A n \in 1..Len(due) : due[n] \in Ids /\ kind[due[n]] = "once"
      /\ \A n \in 1..Len(ran) : ran[n] \in Ids /\ kind[ran[n]] = "once"
      /\ \A n \in 1..Len(queue) : queue[n] \in Ids /\ kind[queue[n]] # "none"
      /\ heap \subseteq Ids /\ (arming # 0 => arming \in Ids)
      /\ \A i \in heap : kind[i] = "once"
  BY <1>0 DEF TypeOK, Given
<1>2. Ids \subseteq Nat \ {0} /\ \A i \in Ids : deadline[i] \in Nat
  BY <1>0, TimerConstants DEF Ids, TypeOK
<1>3. CASE Quiet
  <2>1. UNCHANGED <<kind, deadline, arming, heap, due, fire, queue, ran>>
    BY <1>0, <1>3, QuietFacts
  <2> QED BY <1>0, <2>1, LineKept
<1>4. CASE WakeUp
  <2>1. fire = "sleep" /\ fire' = "scan" /\ UNCHANGED <<kind, deadline, arming, heap, due, queue, ran>>
    BY <1>4 DEF WakeUp, setVars, jsVars
  <2> QED BY <1>0, <2>1, LineKept
<1>5. ASSUME NEW i \in Ids, TickerTicks(i) PROVE Line'
  <2>1. /\ kind[i] = "interval" /\ deadline' = [deadline EXCEPT ![i] = @ + delay[i]]
        /\ UNCHANGED <<kind, arming, heap, due, fire, queue, ran>>
    BY <1>0, <1>5 DEF TickerTicks, Given, fireVars, jsVars
  <2>2. \A j \in Ids : kind[j] = "once" => deadline'[j] = deadline[j]
    BY <1>0, <2>1 DEF TypeOK
  <2> QED BY <1>0, <2>1, <2>2, LineKept
<1>6. ASSUME NEW i \in Ids, TickPost(i) PROVE Line'
  <2>1. /\ kind[i] = "interval" /\ Post(i)
        /\ UNCHANGED <<kind, deadline, arming, heap, due, fire, ran>>
    BY <1>0, <1>6 DEF TickPost, Given, setVars, fireVars, jsVars
  <2>2. queue' = queue \/ queue' = Append(queue, i)
    BY <1>0, <2>1, PostCounts DEF TypeOK
  <2>3. CASE queue' = queue
    BY <1>0, <2>1, <2>3, LineKept
  <2>4. CASE queue' = Append(queue, i)
    <3>1. \A n \in 1..Len(queue') : (n \in 1..Len(queue) /\ queue'[n] = queue[n]) \/ (n = Len(queue) + 1 /\ queue'[n] = i)
      BY <1>0, <2>4, AppendCases DEF TypeOK
    <3>2. \A j : ~NotAfter(i, j) /\ ~NotAfter(j, i)
      BY <2>1 DEF NotAfter
    <3>3. \A a, b : NotAfter(a, b)' <=> NotAfter(a, b)
      BY <2>1 DEF NotAfter
    <3>4. RanInOrder'
      BY <1>0, <2>1, <3>3 DEF Line, RanInOrder
    <3>5. QueueInOrder'
      <4> SUFFICES ASSUME NEW m \in 1..Len(queue'), NEW n \in 1..Len(queue'), m < n
                   PROVE  ~NotAfter(queue'[n], queue'[m])
        BY <3>3 DEF QueueInOrder
      <4>1. CASE queue'[n] = i \/ queue'[m] = i
        BY <3>2, <4>1
      <4>2. CASE ~(queue'[n] = i \/ queue'[m] = i)
        BY <1>0, <3>1, <4>2 DEF Line, QueueInOrder
      <4> QED BY <4>1, <4>2
    <3>6. RanBeforeQueue'
      <4> SUFFICES ASSUME NEW m \in 1..Len(ran), NEW n \in 1..Len(queue')
                   PROVE  ~NotAfter(queue'[n], ran[m])
        BY <2>1, <3>3 DEF RanBeforeQueue
      <4> QED BY <1>0, <3>1, <3>2 DEF Line, RanBeforeQueue
    <3>7. DueInOrder'
      BY <1>0, <2>1 DEF Line, DueInOrder, Before
    <3>8. \A j : (DueComes(j)' <=> DueComes(j)) /\ (HeapComes(j)' <=> HeapComes(j))
      BY <2>1, <3>3 DEF DueComes, HeapComes
    <3>9. DueComes(i) /\ HeapComes(i)
      BY <3>2 DEF DueComes, HeapComes
    <3>10. \A n \in 1..Len(queue') : DueComes(queue'[n]) /\ HeapComes(queue'[n])
      BY <1>0, <3>1, <3>9 DEF Line
    <3>11. /\ \A n \in 1..Len(ran') : DueComes(ran'[n])  /\ HeapComes(ran'[n])
           /\ \A n \in 1..Len(due') : HeapComes(due'[n])
      BY <1>0, <2>1 DEF Line
    <3>12. /\ \A n \in 1..Len(ran') : DueComes(ran[n])'  /\ HeapComes(ran[n])'
           /\ \A n \in 1..Len(queue') : DueComes(queue[n])'  /\ HeapComes(queue[n])'
           /\ \A n \in 1..Len(due') : HeapComes(due[n])'
      BY <2>1, <3>8, <3>10, <3>11 DEF DueComes, HeapComes, NotAfter
    <3> QED BY <3>4, <3>5, <3>6, <3>7, <3>12 DEF Line
  <2> QED BY <2>2, <2>3, <2>4

<1>7. ASSUME NEW k \in Kinds, NEW d \in Delays, Schedule(k, d) PROVE Line'
  <2>1. /\ nextID \in Ids /\ arming = 0 /\ arming' \in {0, nextID}
        /\ kind' = [kind EXCEPT ![nextID] = k]
        /\ deadline' = [deadline EXCEPT ![nextID] = now + d]
        /\ UNCHANGED <<heap, due, fire, queue, ran>>
    BY <1>0, <1>7, TimerConstants DEF Schedule, InCode, TypeOK, Ids, fireVars, jsVars
  <2>2. kind[nextID] = "none"
    BY <1>0, <1>2, <2>1 DEF Given
  <2>3. \A i \in Ids : kind[i] # "none" => kind'[i] = kind[i] /\ deadline'[i] = deadline[i] /\ i < nextID
    <3> SUFFICES ASSUME NEW i \in Ids, kind[i] # "none" PROVE kind'[i] = kind[i] /\ deadline'[i] = deadline[i] /\ i < nextID
      OBVIOUS
    <3>1. i # nextID
      BY <2>2
    <3>2. i < nextID
      BY <1>0, <1>2, <2>1 DEF Given
    <3> QED BY <1>0, <2>1, <3>1, <3>2 DEF TypeOK
  <2>4. \A i, j \in Ids : kind[i] # "none" /\ kind[j] # "none" => (NotAfter(i, j)' <=> NotAfter(i, j))
    BY <2>3 DEF NotAfter
  <2>5. \A j \in Ids : kind[j] # "none" => ~NotAfter(nextID, j)
    BY <2>2 DEF NotAfter
  <2>6. \A i, j \in Ids : i = nextID /\ kind[j] # "none" => ~NotAfter(i, j)'
    BY <1>2, <2>3 DEF NotAfter
  <2>7. RanInOrder' /\ QueueInOrder' /\ RanBeforeQueue'
    <3>1. RanInOrder'
      BY <1>0, <1>1, <2>1, <2>4 DEF Line, RanInOrder
    <3>2. QueueInOrder'
      BY <1>0, <1>1, <2>1, <2>4 DEF Line, QueueInOrder
    <3>3. RanBeforeQueue'
      BY <1>0, <1>1, <2>1, <2>4 DEF Line, RanBeforeQueue
    <3> QED BY <3>1, <3>2, <3>3
  <2>8. DueInOrder'
    BY <1>0, <1>1, <2>1, <2>3 DEF Line, DueInOrder, Before
  <2>9. \A j \in Ids : kind[j] # "none" /\ DueComes(j) => DueComes(j)'
    BY <1>1, <2>1, <2>4 DEF DueComes
  <2>10. \A j \in Ids : kind[j] # "none" /\ HeapComes(j) => HeapComes(j)'
    BY <1>1, <2>1, <2>4, <2>6 DEF HeapComes
  <2>11. /\ \A n \in 1..Len(ran') : DueComes(ran[n])' /\ HeapComes(ran[n])'
         /\ \A n \in 1..Len(queue') : DueComes(queue[n])' /\ HeapComes(queue[n])'
         /\ \A n \in 1..Len(due') : HeapComes(due[n])'
    BY <1>0, <1>1, <2>1, <2>9, <2>10 DEF Line
  <2> QED BY <2>7, <2>8, <2>11 DEF Line
<1>8. CASE UNCHANGED <<kind, deadline>> /\ Arm
  <2>1. /\ heap' = heap \cup {arming} /\ arming # 0 /\ arming' = 0
        /\ UNCHANGED <<kind, deadline, due, fire, queue, ran>>
    BY <1>8 DEF Arm, fireVars, jsVars
  <2>2. \A a, b : NotAfter(a, b)' <=> NotAfter(a, b)
    BY <2>1 DEF NotAfter
  <2>3. RanInOrder' /\ QueueInOrder' /\ RanBeforeQueue' /\ DueInOrder'
    BY <1>0, <2>1, <2>2 DEF Line, RanInOrder, QueueInOrder, RanBeforeQueue, DueInOrder, Before
  <2>4. \A j : DueComes(j) => DueComes(j)'
    BY <2>1, <2>2 DEF DueComes
  <2>5. \A j : HeapComes(j) => HeapComes(j)'
    BY <2>1, <2>2 DEF HeapComes
  <2>6. /\ \A n \in 1..Len(ran') : DueComes(ran[n])' /\ HeapComes(ran[n])'
        /\ \A n \in 1..Len(queue') : DueComes(queue[n])' /\ HeapComes(queue[n])'
        /\ \A n \in 1..Len(due') : HeapComes(due[n])'
    BY <1>0, <2>1, <2>4, <2>5 DEF Line
  <2> QED BY <2>3, <2>6 DEF Line
<1>9. CASE RunCallback
  <2> DEFINE h == Head(queue)
  <2>1. /\ UNCHANGED <<kind, deadline, arming, heap, due, fire>> /\ queue # << >> /\ queue' = Tail(queue)
        /\ ran' = IF kind[h] = "once" THEN Append(ran, h) ELSE ran
    BY <1>9 DEF RunCallback, setVars, fireVars
  <2>2. /\ h \in Ids /\ h = queue[1] /\ 1 \in 1..Len(queue)
        /\ \A n \in 1..Len(queue') : n \in Nat /\ n + 1 \in 1..Len(queue) /\ n + 1 > 1 /\ queue'[n] = queue[n + 1]
    BY <1>0, <2>1, TailCases DEF TypeOK
  <2>3. \A n \in 1..Len(ran') : (n \in 1..Len(ran) /\ ran'[n] = ran[n]) \/ (n = Len(ran) + 1 /\ ran'[n] = h)
    BY <1>0, <2>1, <2>2, AppendCases DEF TypeOK
  <2>4. \A a, b : NotAfter(a, b)' <=> NotAfter(a, b)
    BY <2>1 DEF NotAfter
  <2>5. \A j : (DueComes(j)' <=> DueComes(j)) /\ (HeapComes(j)' <=> HeapComes(j))
    BY <2>1, <2>4 DEF DueComes, HeapComes
  <2> HIDE DEF h
  <2>6. RanInOrder'
    <3> SUFFICES ASSUME NEW m \in 1..Len(ran'), NEW n \in 1..Len(ran'), m < n
                 PROVE  ~NotAfter(ran'[n], ran'[m])
      BY <2>4 DEF RanInOrder
    <3>1. m \in 1..Len(ran) /\ ran'[m] = ran[m]
      <4>1. Len(ran) \in Nat
        BY <1>0 DEF TypeOK
      <4> QED BY <2>3, <4>1
    <3>2. CASE n \in 1..Len(ran) /\ ran'[n] = ran[n]
      BY <1>0, <3>1, <3>2 DEF Line, RanInOrder
    <3>3. CASE ran'[n] = h
      BY <1>0, <2>2, <3>1, <3>3 DEF Line, RanBeforeQueue
    <3> QED BY <2>3, <3>2, <3>3
  <2>7. QueueInOrder'
    <3> SUFFICES ASSUME NEW m \in 1..Len(queue'), NEW n \in 1..Len(queue'), m < n
                 PROVE  ~NotAfter(queue'[n], queue'[m])
      BY <2>4 DEF QueueInOrder
    <3>1. m + 1 < n + 1 /\ m + 1 \in 1..Len(queue) /\ n + 1 \in 1..Len(queue)
          /\ queue'[m] = queue[m + 1] /\ queue'[n] = queue[n + 1]
      BY <2>2
    <3> QED BY <1>0, <3>1 DEF Line, QueueInOrder
  <2>8. RanBeforeQueue'
    <3> SUFFICES ASSUME NEW m \in 1..Len(ran'), NEW n \in 1..Len(queue')
                 PROVE  ~NotAfter(queue'[n], ran'[m])
      BY <2>4 DEF RanBeforeQueue
    <3>1. n + 1 \in 1..Len(queue) /\ n + 1 > 1 /\ queue'[n] = queue[n + 1]
      BY <2>2
    <3>2. CASE m \in 1..Len(ran) /\ ran'[m] = ran[m]
      BY <1>0, <3>1, <3>2 DEF Line, RanBeforeQueue
    <3>3. CASE ran'[m] = h
      BY <1>0, <2>2, <3>1, <3>3 DEF Line, QueueInOrder
    <3> QED BY <2>3, <3>2, <3>3
  <2>9. DueInOrder'
    BY <1>0, <2>1 DEF Line, DueInOrder, Before
  <2>10. /\ \A n \in 1..Len(ran') : DueComes(ran'[n]) /\ HeapComes(ran'[n])
         /\ \A n \in 1..Len(queue') : DueComes(queue'[n]) /\ HeapComes(queue'[n])
         /\ \A n \in 1..Len(due') : HeapComes(due'[n])
    BY <1>0, <2>1, <2>2, <2>3 DEF Line
  <2>11. /\ \A n \in 1..Len(ran') : DueComes(ran[n])' /\ HeapComes(ran[n])'
         /\ \A n \in 1..Len(queue') : DueComes(queue[n])' /\ HeapComes(queue[n])'
         /\ \A n \in 1..Len(due') : HeapComes(due[n])'
    BY <2>1, <2>5, <2>10 DEF DueComes, HeapComes, NotAfter
  <2> QED BY <2>6, <2>7, <2>8, <2>9, <2>11 DEF Line
<1>10. CASE Scan
  <2>1. /\ heap' \subseteq heap /\ \A i \in heap' : deadline[i] > now
        /\ due' \in Seq({i \in heap : deadline[i] <= now /\ ~stopped[i]})
        /\ \A m, n \in 1..Len(due') : m < n => Before(due'[m], due'[n])
        /\ UNCHANGED <<now, kind, deadline, arming, queue, ran, nextID>>
    BY <1>0, <1>10, ScanFacts DEF setVars, jsVars
  <2>2. \A n \in 1..Len(due') : due'[n] \in heap /\ deadline[due'[n]] <= now
    BY <2>1
  <2>3. \A a, b : NotAfter(a, b)' <=> NotAfter(a, b)
    BY <2>1 DEF NotAfter
  <2>4. RanInOrder' /\ QueueInOrder' /\ RanBeforeQueue' /\ DueInOrder'
    BY <1>0, <2>1, <2>3 DEF Line, RanInOrder, QueueInOrder, RanBeforeQueue, DueInOrder, Before
  <2>5. \A j : HeapComes(j) => HeapComes(j)' /\ DueComes(j)'
    BY <2>1, <2>2, <2>3 DEF HeapComes, DueComes
  <2>6. ASSUME NEW j \in heap, deadline[j] <= now PROVE HeapComes(j)'
    <3>1. ASSUME NEW k \in heap' PROVE ~NotAfter(k, j)
      <4>1. k \in Ids /\ j \in Ids
        BY <1>1, <2>1
      <4>2. deadline[k] \in Nat /\ deadline[j] \in Nat /\ now \in Nat
        BY <1>0, <1>2, <4>1, TimerConstants DEF TypeOK
      <4>3. deadline[k] > now
        BY <2>1
      <4> QED BY <2>6, <4>2, <4>3 DEF NotAfter
    <3>2. ASSUME arming # 0 PROVE ~NotAfter(arming, j)
      <4>1. arming \in Nat /\ j \in Nat /\ j < nextID /\ nextID = arming + 1 /\ arming \notin heap
        BY <1>0, <1>1, <1>2, <3>2 DEF Given, TypeOK
      <4> QED BY <4>1 DEF NotAfter
    <3> QED BY <2>1, <2>3, <3>1, <3>2 DEF HeapComes
  <2>7. /\ \A n \in 1..Len(ran') : DueComes(ran[n])' /\ HeapComes(ran[n])'
        /\ \A n \in 1..Len(queue') : DueComes(queue[n])' /\ HeapComes(queue[n])'
    BY <1>0, <2>1, <2>5 DEF Line
  <2>8. \A n \in 1..Len(due') : HeapComes(due[n])'
    BY <2>2, <2>6 DEF HeapComes, NotAfter
  <2> QED BY <2>4, <2>7, <2>8 DEF Line
<1>11. CASE FireRun
  <2> DEFINE h == Head(due)
  <2>1. /\ due # << >> /\ Post(h) /\ fire = "run" /\ fire' = "done"
        /\ UNCHANGED <<kind, deadline, arming, heap, due, ran>>
    BY <1>0, <1>11 DEF FireRun, Control, setVars, jsVars
  <2>2. h \in Ids /\ h = due[1] /\ 1 \in 1..Len(due)
    BY <1>0, <2>1, TailCases DEF TypeOK
  <2>3. queue' = queue \/ queue' = Append(queue, h)
    BY <1>0, <2>1, <2>2, PostCounts DEF TypeOK
  <2>4. \A n \in 1..Len(queue') : (n \in 1..Len(queue) /\ queue'[n] = queue[n]) \/ (n = Len(queue) + 1 /\ queue'[n] = h)
    <3>1. CASE queue' = Append(queue, h)
      BY <1>0, <2>2, <3>1, AppendCases DEF TypeOK
    <3> QED BY <2>3, <3>1
  <2>5. \A a, b : NotAfter(a, b)' <=> NotAfter(a, b)
    BY <2>1 DEF NotAfter
  <2>6. \A j : HeapComes(j) => HeapComes(j)'
    BY <2>1, <2>5 DEF HeapComes
  <2>7. \A j : DueComes(j) => DueComes(j)' /\ ~NotAfter(h, j)
    BY <2>1, <2>2, <2>5 DEF DueComes
  <2>8. DueComes(h)'
    <3> SUFFICES ASSUME NEW n \in 1..Len(due), NotAfter(due[n], due[1]) PROVE n = 1
      BY <2>1, <2>2, <2>5 DEF DueComes
    <3> SUFFICES ASSUME n # 1 PROVE FALSE
      OBVIOUS
    <3>1. Before(due[1], due[n])
      BY <1>0, <2>2 DEF Line, DueInOrder
    <3>2. due[n] \in Ids /\ due[1] \in Ids
      BY <1>1, <2>2
    <3>3. /\ deadline[due[n]] \in Nat /\ deadline[due[1]] \in Nat
          /\ due[n] \in Nat /\ due[1] \in Nat
      BY <1>2, <3>2
    <3>4. due[n] = due[1] \/ (due[n] < due[1] /\ deadline[due[n]] <= deadline[due[1]])
      BY DEF NotAfter
    <3> QED BY <3>1, <3>3, <3>4 DEF Before
  <2>9. HeapComes(h)
    BY <1>0, <2>2 DEF Line
  <2> HIDE DEF h
  <2>10. RanInOrder' /\ DueInOrder'
    BY <1>0, <2>1, <2>5 DEF Line, RanInOrder, DueInOrder, Before
  <2>11. QueueInOrder'
    <3> SUFFICES ASSUME NEW m \in 1..Len(queue'), NEW n \in 1..Len(queue'), m < n
                 PROVE  ~NotAfter(queue'[n], queue'[m])
      BY <2>5 DEF QueueInOrder
    <3>1. m \in 1..Len(queue) /\ queue'[m] = queue[m]
      <4>1. Len(queue) \in Nat
        BY <1>0 DEF TypeOK
      <4> QED BY <2>4, <4>1
    <3>2. CASE n \in 1..Len(queue) /\ queue'[n] = queue[n]
      BY <1>0, <3>1, <3>2 DEF Line, QueueInOrder
    <3>3. CASE queue'[n] = h
      BY <1>0, <2>7, <3>1, <3>3 DEF Line
    <3> QED BY <2>4, <3>2, <3>3
  <2>12. RanBeforeQueue'
    <3> SUFFICES ASSUME NEW m \in 1..Len(ran), NEW n \in 1..Len(queue')
                 PROVE  ~NotAfter(queue'[n], ran[m])
      BY <2>1, <2>5 DEF RanBeforeQueue
    <3>1. CASE n \in 1..Len(queue) /\ queue'[n] = queue[n]
      BY <1>0, <3>1 DEF Line, RanBeforeQueue
    <3>2. CASE queue'[n] = h
      BY <1>0, <2>7, <3>2 DEF Line
    <3> QED BY <2>4, <3>1, <3>2
  <2>13. /\ \A n \in 1..Len(ran') : DueComes(ran[n])' /\ HeapComes(ran[n])'
         /\ \A n \in 1..Len(due') : HeapComes(due[n])'
    BY <1>0, <2>1, <2>6, <2>7 DEF Line
  <2>14. \A n \in 1..Len(queue') : DueComes(queue[n])' /\ HeapComes(queue[n])'
    <3> SUFFICES ASSUME NEW n \in 1..Len(queue') PROVE DueComes(queue[n])' /\ HeapComes(queue[n])'
      OBVIOUS
    <3>1. CASE n \in 1..Len(queue) /\ queue'[n] = queue[n]
      <4>1. DueComes(queue[n]) /\ HeapComes(queue[n])
        BY <1>0, <3>1 DEF Line
      <4>2. \A j : j = queue[n] => DueComes(j)' /\ HeapComes(j)'
        BY <2>6, <2>7, <4>1
      <4> QED BY <3>1, <4>2 DEF DueComes, HeapComes, NotAfter
    <3>2. CASE queue'[n] = h
      <4>1. \A j : j = h => DueComes(j)' /\ HeapComes(j)'
        <5>1. h' = h
          BY <2>1 DEF h
        <5>2. HeapComes(h)'
          BY <2>6, <2>9, <5>1
        <5> QED BY <2>8, <5>1, <5>2 DEF DueComes, HeapComes, NotAfter
      <4> QED BY <3>2, <4>1 DEF DueComes, HeapComes, NotAfter
    <3> QED BY <2>4, <3>1, <3>2
  <2> QED BY <2>10, <2>11, <2>12, <2>13, <2>14 DEF Line
<1>12. CASE FireDone
  <2>1. due # << >> /\ due' = Tail(due) /\ UNCHANGED <<kind, deadline, arming, heap, queue, ran>>
    BY <1>0, <1>12 DEF FireDone, Control, setVars, jsVars
  <2>2. \A n \in 1..Len(due') : n \in Nat /\ n + 1 \in 1..Len(due) /\ n + 1 > 1 /\ due'[n] = due[n + 1]
    BY <1>0, <2>1, TailCases DEF TypeOK
  <2>3. \A a, b : NotAfter(a, b)' <=> NotAfter(a, b)
    BY <2>1 DEF NotAfter
  <2>4. RanInOrder' /\ QueueInOrder' /\ RanBeforeQueue'
    BY <1>0, <2>1, <2>3 DEF Line, RanInOrder, QueueInOrder, RanBeforeQueue
  <2>5. DueInOrder'
    <3> SUFFICES ASSUME NEW m \in 1..Len(due'), NEW n \in 1..Len(due'), m < n
                 PROVE  Before(due'[m], due'[n])
      BY <2>1 DEF DueInOrder, Before
    <3>1. m + 1 < n + 1 /\ m + 1 \in 1..Len(due) /\ n + 1 \in 1..Len(due)
          /\ due'[m] = due[m + 1] /\ due'[n] = due[n + 1]
      BY <2>2
    <3> QED BY <1>0, <3>1 DEF Line, DueInOrder
  <2>6. \A j : (DueComes(j) => DueComes(j)') /\ (HeapComes(j) => HeapComes(j)')
    <3>1. \A j : HeapComes(j) => HeapComes(j)'
      BY <2>1, <2>3 DEF HeapComes
    <3>2. ASSUME NEW j, DueComes(j), NEW n \in 1..Len(due'), NotAfter(due'[n], j) PROVE FALSE
      <4>1. n + 1 \in 1..Len(due) /\ n + 1 # 1 /\ due'[n] = due[n + 1]
        BY <2>2
      <4> QED BY <3>2, <4>1 DEF DueComes
    <3>3. \A j : DueComes(j) => DueComes(j)'
      BY <2>3, <3>2 DEF DueComes
    <3> QED BY <3>1, <3>3
  <2>7. /\ \A n \in 1..Len(ran') : DueComes(ran[n])' /\ HeapComes(ran[n])'
        /\ \A n \in 1..Len(queue') : DueComes(queue[n])' /\ HeapComes(queue[n])'
    BY <1>0, <2>1, <2>6 DEF Line
  <2>8. \A n \in 1..Len(due') : HeapComes(due[n])'
    <3> SUFFICES ASSUME NEW n \in 1..Len(due') PROVE HeapComes(due[n])'
      OBVIOUS
    <3>1. HeapComes(due[n + 1]) /\ due'[n] = due[n + 1]
      BY <1>0, <2>2 DEF Line
    <3>2. \A j : j = due[n + 1] => HeapComes(j)'
      BY <2>6, <3>1
    <3> QED BY <3>1, <3>2 DEF HeapComes, NotAfter
  <2> QED BY <2>4, <2>5, <2>7, <2>8 DEF Line
<1>13. Arm => UNCHANGED <<kind, deadline>>
  BY DEF Arm
<1> QED BY <1>3, <1>4, <1>5, <1>6, <1>7, <1>8, <1>9, <1>10, <1>11, <1>12, <1>13, Steps

-----------------------------------------------------------------------------
(* Theorems                                                                 *)

LEMMA InitIInv == Init => IInv
<1> SUFFICES ASSUME Init PROVE IInv
  OBVIOUS
<1>1. TypeOK
  <2>1. 0 \in 0..MaxTime /\ 1 \in 1..MaxId + 2 /\ << >> \in Seq(Ids)
    BY TimerConstants
  <2> QED BY <2>1 DEF Init, TypeOK
<1>2. Refs(held) = 0
  <2>1. {i \in Ids : held[i]} = {}
    BY DEF Init
  <2> QED BY <2>1, FS_EmptySet DEF Refs
<1>3. CountExact
  BY <1>1, <1>2 DEF Init, CountExact, Refs
<1>4. Given /\ Control /\ Tracked /\ EndsAfterTimers
  BY DEF Init, Given, Control, Tracked, EndsAfterTimers
<1>5. SetInOrder /\ OnTime
  BY DEF Init, SetInOrder, OnTime
<1>6. Line
  BY DEF Init, Line, RanInOrder, QueueInOrder, RanBeforeQueue, DueInOrder
<1> QED BY <1>3, <1>4, <1>5, <1>6 DEF IInv

\* What the three properties rest on.
THEOREM Inductive == Spec => []IInv
<1>1. IInv /\ [Next]_vars => IInv'
  BY CountStep, GivenStep, ControlStep, TrackedStep, EndsStep, SetInOrderStep, LineStep, OnTimeStep DEF IInv
<1> QED BY <1>1, InitIInv, PTL DEF Spec

\* The event loop's count is that of the references held and the callbacks
\* posted and not finished.
THEOREM CountIsExact == Spec => []CountExact
<1>1. IInv => CountExact
  BY DEF IInv
<1> QED BY <1>1, Inductive, PTL

\* The event loop outlives every one-shot timer that JS neither cleared nor
\* left unref'd.
THEOREM NoTimerLeftBehind == Spec => []EndsAfterTimers
<1>1. IInv => EndsAfterTimers
  BY DEF IInv
<1> QED BY <1>1, Inductive, PTL

\* One-shot callbacks start at most once, not early, and in order.
THEOREM CallbacksInOrder == Spec => []StartsInOrder
<1>1. ASSUME IInv PROVE StartsInOrder
  <2>0. TypeOK /\ Given /\ SetInOrder /\ Line /\ OnTime
    BY <1>1 DEF IInv, CountExact
  <2>1. \A n \in 1..Len(ran) : ran[n] \in Ids /\ kind[ran[n]] = "once"
    BY <2>0 DEF TypeOK, Given
  <2>a. Ids \subseteq Nat \ {0} /\ arming \in Ids \cup {0}
    BY <2>0, TimerConstants DEF Ids, TypeOK
  <2>b. \A i \in Ids : deadline[i] \in Nat /\ delay[i] \in Nat
    BY <2>0 DEF TypeOK
  <2>2. Ids \subseteq Nat \ {0} /\ \A i \in Ids : deadline[i] \in Nat /\ delay[i] \in Nat
    BY <2>a, <2>b
  <2>3. ASSUME NEW m \in 1..Len(ran), NEW n \in 1..Len(ran), ran[m] = ran[n] PROVE m = n
    <3>1. ~(m < n) /\ ~(n < m)
      BY <2>0, <2>1, <2>3 DEF Line, RanInOrder, NotAfter
    <3> QED BY <3>1
  <2>4. \A n \in 1..Len(ran) : deadline[ran[n]] <= now
    BY <2>0 DEF OnTime
  <2>5. ASSUME NEW n \in 1..Len(ran), NEW i \in Ids, kind[i] = "once", i < ran[n], delay[i] <= delay[ran[n]]
        PROVE  ~Pending(i) /\ \A m \in n + 1..Len(ran) : ran[m] # i
    <3>1. deadline[i] <= deadline[ran[n]]
      <4>1. deadline[i] - delay[i] <= deadline[ran[n]] - delay[ran[n]]
        BY <2>0, <2>1, <2>5 DEF SetInOrder
      <4>2. /\ deadline[i] \in Nat /\ delay[i] \in Nat
            /\ deadline[ran[n]] \in Nat /\ delay[ran[n]] \in Nat
        BY <2>1, <2>2
      <4> QED BY <2>5, <4>1, <4>2
    <3>2. NotAfter(i, ran[n]) /\ i # ran[n]
      BY <2>1, <2>2, <2>5, <3>1 DEF NotAfter
    <3>3. DueComes(ran[n]) /\ HeapComes(ran[n])
      BY <2>0 DEF Line
    <3>4. ~Pending(i)
      BY <2>2, <3>2, <3>3 DEF Pending, DueComes, HeapComes
    <3>5. ASSUME NEW m \in n + 1..Len(ran) PROVE ran[m] # i
      <4>1. m \in 1..Len(ran) /\ n < m
        OBVIOUS
      <4> QED BY <2>0, <3>2, <4>1 DEF Line, RanInOrder
    <3> QED BY <3>4, <3>5
  <2>6. OlderFirst
    BY <2>5 DEF OlderFirst
  <2> QED BY <2>3, <2>4, <2>6 DEF StartsInOrder
<1> QED BY <1>1, Inductive, PTL
=============================================================================

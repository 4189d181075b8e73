--------------------------- MODULE Loader_proofs ---------------------------
(* Proofs about Loader for any modules, however many of them wait, have      *)
(* loaders of their own or require each other in a circle, and for any       *)
(* number of evaluations, tasks and changes of require.cache.                *)
EXTENDS Loader, SequenceTheorems, TLAPS

-----------------------------------------------------------------------------
(* The inductive invariant                                                  *)

Exports == [mod : Modules, body : {"run", "wait", "ok", "error", "injected"}]
Entries == [at : {"eval", "await", "resume", "custom", "task"}, id : Nat]

Typed ==
  /\ made \in Seq(Exports) /\ stack \in Seq(Entries) /\ edits \in Seq(Modules)
  /\ cache \in [Modules -> Nat] /\ jsCache \in [Modules -> Nat]
  /\ ret \in Ids \cup {0} /\ gone \subseteq Ids

\* require.cache names exports of its own module, and has an entry for every
\* module evaluated so far that the program has left alone: an evaluation that
\* failed leaves its entry there.
Entered ==
  /\ \A m \in Modules : jsCache[m] # 0 => jsCache[m] \in Ids /\ made[jsCache[m]].mod = m
  /\ \A i \in Ids : made[i].mod \notin Custom /\ made[i].mod \notin Range(edits) => jsCache[made[i].mod] # 0

\* A body that has not ended belongs to an evaluation that has not returned.
UnderWay == \A i \in Ids : made[i].body \in {"run", "wait"} => OnStack(i)

\* What was removed is neither in require.cache nor being evaluated.
Removed ==
  /\ \A m \in Modules : jsCache[m] \notin gone
  /\ \A i \in gone : ~OnStack(i)

\* A body runs in one place on the stack.
Active(e) == e.at \in {"eval", "resume", "custom"}
Running ==
  \A k \in DOMAIN stack : Active(stack[k]) =>
    /\ stack[k].id \in Ids /\ made[stack[k].id].body = "run"
    /\ \A l \in DOMAIN stack : Active(stack[l]) /\ stack[l].id = stack[k].id => l = k

Kept == Typed /\ Entered /\ EvaluatedOnce /\ UnderWay /\ ReturnsFinished /\ Removed /\ RemovedStaysGone
IInv == Kept /\ Running

-----------------------------------------------------------------------------
(* The stack                                                                *)

LEMMA AppendFacts ==
  ASSUME NEW S, NEW s \in Seq(S), NEW e \in S
  PROVE  /\ Append(s, e) \in Seq(S) /\ Len(s) \in Nat /\ Len(Append(s, e)) = Len(s) + 1
         /\ DOMAIN s = 1..Len(s) /\ DOMAIN Append(s, e) = 1..Len(s) + 1
         /\ Append(s, e)[Len(s) + 1] = e
         /\ \A k \in 1..Len(s) : Append(s, e)[k] = s[k]
OBVIOUS

LEMMA FrontFacts ==
  ASSUME NEW S, NEW s \in Seq(S), s # << >>
  PROVE  /\ Front(s) \in Seq(S) /\ Len(Front(s)) = Len(s) - 1 /\ Len(s) \in Nat /\ Len(s) > 0
         /\ DOMAIN s = 1..Len(s) /\ DOMAIN Front(s) = 1..Len(s) - 1
         /\ Last(s) = s[Len(s)]
         /\ \A k \in 1..Len(s) - 1 : Front(s)[k] = s[k]
<1>1. /\ Len(s) \in Nat /\ Len(s) > 0 /\ DOMAIN s = 1..Len(s) /\ Len(s) - 1 \in Nat
      /\ \A k \in 1..Len(s) - 1 : s[k] \in S
  OBVIOUS
<1>2. /\ SubSeq(s, 1, Len(s) - 1) \in Seq(S)
      /\ Len(SubSeq(s, 1, Len(s) - 1)) = IF 1 <= Len(s) - 1 THEN Len(s) - 1 - 1 + 1 ELSE 0
      /\ \A k \in 1..Len(s) - 1 - 1 + 1 : SubSeq(s, 1, Len(s) - 1)[k] = s[1 + k - 1]
  <2>1. 1 \in Int /\ Len(s) - 1 \in Int
    BY <1>1
  <2>2. QED
    BY <1>1, <2>1, SubSeqProperties
<1>3. Len(Front(s)) = Len(s) - 1 /\ Front(s) \in Seq(S)
  BY <1>1, <1>2 DEF Front
<1>4. DOMAIN Front(s) = 1..Len(s) - 1
  BY <1>3
<1>5. \A k \in 1..Len(s) - 1 : Front(s)[k] = s[k]
  BY <1>1, <1>2 DEF Front
<1>6. QED
  BY <1>1, <1>3, <1>4, <1>5 DEF Last

LEMMA TopFacts ==
  ASSUME stack \in Seq(Entries), NEW at, NEW i, Top(at, i)
  PROVE  /\ Len(stack) \in DOMAIN stack /\ stack[Len(stack)].at = at /\ stack[Len(stack)].id = i
         /\ DOMAIN stack = 1..Len(stack) /\ Len(stack) \in Nat
<1>1. stack # << >> /\ Last(stack) = Entry(at, i)
  BY DEF Top
<1>2. /\ DOMAIN stack = 1..Len(stack) /\ Len(stack) \in Nat /\ Len(stack) > 0
      /\ Last(stack) = stack[Len(stack)]
  BY <1>1, FrontFacts
<1>3. QED
  BY <1>1, <1>2 DEF Entry

LEMMA Pushed ==
  ASSUME stack \in Seq(Entries), NEW at \in {"eval", "await", "resume", "custom", "task"}, NEW i \in Nat, Push(at, i)
  PROVE  /\ stack' \in Seq(Entries)
         /\ \A j : OnStack(j)' <=> OnStack(j) \/ (j = i /\ at # "resume")
<1>1. Entry(at, i) \in Entries /\ Entry(at, i).id = i /\ Entry(at, i).at = at
  BY DEF Entry, Entries
<1>2. stack' = Append(stack, Entry(at, i))
  BY DEF Push
<1>3. /\ stack' \in Seq(Entries) /\ Len(stack) \in Nat
      /\ DOMAIN stack = 1..Len(stack) /\ DOMAIN stack' = 1..Len(stack) + 1
      /\ stack'[Len(stack) + 1] = Entry(at, i) /\ \A k \in 1..Len(stack) : stack'[k] = stack[k]
  BY <1>1, <1>2, AppendFacts
<1>4. ASSUME NEW j PROVE OnStack(j)' <=> OnStack(j) \/ (j = i /\ at # "resume")
  <2>1. OnStack(j) => OnStack(j)'
    BY <1>3 DEF OnStack
  <2>2. j = i /\ at # "resume" => OnStack(j)'
    BY <1>1, <1>3 DEF OnStack
  <2>3. OnStack(j)' => OnStack(j) \/ (j = i /\ at # "resume")
    <3>1. SUFFICES ASSUME NEW k \in DOMAIN stack', stack'[k].id = j, stack'[k].at # "resume"
                   PROVE  OnStack(j) \/ (j = i /\ at # "resume")
      BY DEF OnStack
    <3>2. k \in 1..Len(stack) \/ k = Len(stack) + 1
      BY <1>3
    <3>3. QED
      BY <1>1, <1>3, <3>1, <3>2 DEF OnStack
  <2>4. QED
    BY <2>1, <2>2, <2>3
<1>5. QED
  BY <1>3, <1>4

LEMMA Popped ==
  ASSUME stack \in Seq(Entries), NEW at, NEW i, Top(at, i), Pop
  PROVE  /\ stack' \in Seq(Entries)
         /\ \A j : OnStack(j)' => OnStack(j)
         /\ \A j : OnStack(j) /\ (j # i \/ at = "resume") => OnStack(j)'
         /\ at # "resume" => OnStack(i)
<1>1. stack # << >> /\ Last(stack) = Entry(at, i) /\ stack' = Front(stack)
  BY DEF Top, Pop
<1>2. /\ stack' \in Seq(Entries) /\ Len(stack) \in Nat /\ Len(stack) > 0
      /\ DOMAIN stack = 1..Len(stack) /\ DOMAIN stack' = 1..Len(stack) - 1
      /\ stack[Len(stack)] = Entry(at, i) /\ \A k \in 1..Len(stack) - 1 : stack'[k] = stack[k]
  BY <1>1, FrontFacts
<1>3. Entry(at, i).id = i /\ Entry(at, i).at = at
  BY DEF Entry
<1>4. \A j : OnStack(j)' => OnStack(j)
  BY <1>2 DEF OnStack
<1>5. ASSUME NEW j, OnStack(j), j # i \/ at = "resume" PROVE OnStack(j)'
  <2>1. PICK k \in 1..Len(stack) : stack[k].id = j /\ stack[k].at # "resume"
    BY <1>2, <1>5 DEF OnStack
  <2>2. k # Len(stack)
    BY <1>2, <1>3, <1>5, <2>1
  <2>3. k \in 1..Len(stack) - 1
    <3>1. Len(stack) \in Nat
      BY <1>2
    <3>2. QED
      BY <2>2, <3>1
  <2>4. QED
    BY <1>2, <2>1, <2>3 DEF OnStack
<1>6. at # "resume" => OnStack(i)
  BY <1>2, <1>3 DEF OnStack
<1>7. QED
  BY <1>2, <1>4, <1>5, <1>6

\* The evaluation of a module that has been called waits for its promise.
LEMMA Switched ==
  ASSUME stack \in Seq(Entries), NEW i \in Nat, Top("eval", i), Switch("await", i)
  PROVE  /\ stack' \in Seq(Entries)
         /\ \A j : OnStack(j)' <=> OnStack(j)
         /\ OnStack(i)
<1> DEFINE n == Len(stack)
<1>1. stack # << >> /\ Last(stack) = Entry("eval", i) /\ stack' = Append(Front(stack), Entry("await", i))
  BY DEF Top, Switch
<1>2. /\ Front(stack) \in Seq(Entries) /\ Len(Front(stack)) = n - 1 /\ n \in Nat /\ n > 0
      /\ DOMAIN stack = 1..n /\ stack[n] = Entry("eval", i)
      /\ \A k \in 1..n - 1 : Front(stack)[k] = stack[k]
  BY <1>1, FrontFacts
<1>3. Entry("await", i) \in Entries
  BY DEF Entry, Entries
<1>4. /\ stack' \in Seq(Entries) /\ DOMAIN stack' = 1..n - 1 + 1
      /\ stack'[n - 1 + 1] = Entry("await", i) /\ \A k \in 1..n - 1 : stack'[k] = stack[k]
  BY <1>1, <1>2, <1>3, AppendFacts
<1>5. DOMAIN stack' = 1..n /\ stack'[n] = Entry("await", i)
  BY <1>2, <1>4
<1>6. /\ Entry("eval", i).id = i /\ Entry("await", i).id = i
      /\ Entry("eval", i).at # "resume" /\ Entry("await", i).at # "resume"
  BY DEF Entry
<1>7. \A k \in 1..n : k \in 1..n - 1 \/ k = n
  BY <1>2
<1> HIDE DEF n
<1>8. \A j : OnStack(j)' <=> OnStack(j)
  BY <1>2, <1>4, <1>5, <1>6, <1>7 DEF OnStack
<1>9. n \in 1..n
  BY <1>2
<1>10. OnStack(i)
  BY <1>2, <1>6, <1>9 DEF OnStack
<1>11. QED
  BY <1>4, <1>8, <1>10

-----------------------------------------------------------------------------
(* The exports                                                              *)

LEMMA Begun ==
  ASSUME made \in Seq(Exports), NEW m \in Modules, NEW b \in {"run", "injected"},
         made' = Append(made, [mod |-> m, body |-> b])
  PROVE  /\ made' \in Seq(Exports) /\ Ids' = Ids \cup {New} /\ New \notin Ids /\ New \in Nat /\ New # 0
         /\ made'[New] = [mod |-> m, body |-> b] /\ \A i \in Ids : made'[i] = made[i]
         /\ Ids \subseteq Nat /\ 0 \notin Ids
<1>1. [mod |-> m, body |-> b] \in Exports
  BY DEF Exports
<1>2. /\ made' \in Seq(Exports) /\ Len(made) \in Nat
      /\ DOMAIN made = 1..Len(made) /\ DOMAIN made' = 1..Len(made) + 1
      /\ made'[Len(made) + 1] = [mod |-> m, body |-> b] /\ \A k \in 1..Len(made) : made'[k] = made[k]
  BY <1>1, AppendFacts
<1>3. QED
  BY <1>2 DEF Ids, New

LEMMA BodySet ==
  ASSUME made \in Seq(Exports), NEW i \in Ids, NEW b \in {"run", "wait", "ok", "error"}, Body(i, b)
  PROVE  /\ made' \in Seq(Exports) /\ Ids' = Ids /\ Ids \subseteq Nat /\ 0 \notin Ids
         /\ \A j \in Ids : made'[j].mod = made[j].mod /\ made'[j].body = IF j = i THEN b ELSE made[j].body
         /\ made[i].mod \in Modules
<1>1. made' = [made EXCEPT ![i].body = b] /\ DOMAIN made = 1..Len(made) /\ Len(made) \in Nat
  BY DEF Body
<1>2. \A j \in Ids : made[j] \in Exports
  BY DEF Ids
<1>3. DOMAIN made' = DOMAIN made /\ \A j \in Ids : made'[j] = IF j = i THEN [made[j] EXCEPT !.body = b] ELSE made[j]
  BY <1>1 DEF Ids
<1>4. \A j \in Ids : /\ made'[j] \in Exports /\ made'[j].mod = made[j].mod
                     /\ made'[j].body = IF j = i THEN b ELSE made[j].body
  BY <1>2, <1>3 DEF Exports
<1>5. made' \in Seq(Exports)
  <2>1. made' = [j \in 1..Len(made) |-> made'[j]]
    BY <1>1, <1>3
  <2>2. QED
    BY <1>1, <1>4, <2>1 DEF Ids
<1>6. made[i].mod \in Modules
  BY <1>2 DEF Exports
<1>7. QED
  BY <1>1, <1>3, <1>4, <1>5, <1>6 DEF Ids

-----------------------------------------------------------------------------
(* One kind of step at a time                                               *)

LEMMA InitHolds == Init => IInv
<1> SUFFICES ASSUME Init PROVE IInv
  OBVIOUS
<1>1. Ids = {} /\ made = << >> /\ stack = << >> /\ edits = << >>
  BY DEF Init, Ids
<1>2. Typed
  BY <1>1 DEF Init, Typed
<1>3. Entered /\ EvaluatedOnce /\ UnderWay /\ ReturnsFinished /\ Removed /\ RemovedStaysGone
  BY <1>1 DEF Init, Entered, EvaluatedOnce, UnderWay, ReturnsFinished, Removed, RemovedStaysGone
<1>4. Running
  BY <1>1 DEF Running
<1>5. QED
  BY <1>2, <1>3, <1>4 DEF IInv, Kept

\* A step that begins and edits nothing: bodies go on or end, and what is on
\* the stack stays there unless its body has ended.
LEMMA Continues ==
  ASSUME IInv, made' \in Seq(Exports), Ids' = Ids, stack' \in Seq(Entries), UNCHANGED <<edits, gone>>,
         cache' \in [Modules -> Nat],
         \A i \in Ids : made'[i].mod = made[i].mod,
         \A i \in Ids : made'[i].body \in {"run", "wait"} => OnStack(i)',
         \A i \in Ids : OnStack(i)' => OnStack(i),
         \/ jsCache' = jsCache
         \/ \E i \in Ids : i # 0 /\ i \in Nat /\ OnStack(i) /\ jsCache' = [jsCache EXCEPT ![made[i].mod] = i],
         \/ ret' = 0
         \/ ret' \in Ids /\ ret' \notin gone
             /\ (made'[ret'].body \in {"ok", "error", "injected"} \/ OnStack(ret)')
  PROVE  Kept'
<1>0. Typed /\ Entered /\ EvaluatedOnce /\ UnderWay /\ Removed
  BY DEF IInv, Kept
<1>1. \A i \in Ids : made[i].mod \in Modules
  <2>1. \A i \in Ids : made[i] \in Exports
    BY <1>0 DEF Typed, Ids
  <2>2. QED
    BY <2>1 DEF Exports
<1>2. /\ jsCache' \in [Modules -> Nat]
      /\ \A m \in Modules : jsCache[m] # 0 => jsCache'[m] # 0
      /\ \A m \in Modules : \/ jsCache'[m] = jsCache[m]
                            \/ jsCache'[m] \in Ids /\ made[jsCache'[m]].mod = m /\ jsCache'[m] \notin gone
  <2>1. CASE jsCache' = jsCache
    BY <1>0, <2>1 DEF Typed
  <2>2. ASSUME NEW i \in Ids, i # 0, i \in Nat, OnStack(i), jsCache' = [jsCache EXCEPT ![made[i].mod] = i]
        PROVE  <1>2!1 /\ <1>2!2 /\ <1>2!3
    BY <1>0, <1>1, <2>2 DEF Typed, Removed
  <2>3. QED
    BY <2>1, <2>2
<1>3. Typed'
  BY <1>0, <1>2 DEF Typed
<1>4. Entered'
  BY <1>0, <1>1, <1>2 DEF Entered
<1>5. EvaluatedOnce'
  BY <1>0 DEF EvaluatedOnce
<1>6. UnderWay'
  BY DEF UnderWay
<1>7. ReturnsFinished'
  BY DEF ReturnsFinished
<1>8. Removed'
  BY <1>0, <1>2 DEF Removed, Typed
<1>9. RemovedStaysGone'
  <2>1. 0 \notin gone
    BY <1>0 DEF Typed, Ids
  <2>2. QED
    BY <2>1 DEF RemovedStaysGone
<1>10. QED
  BY <1>3, <1>4, <1>5, <1>6, <1>7, <1>8, <1>9 DEF Kept

LEMMA IdsFacts ==
  ASSUME Typed
  PROVE  /\ Ids \subseteq Nat /\ 0 \notin Ids /\ \A i \in Ids : made[i] \in Exports /\ made[i].mod \in Modules
         /\ stack \in Seq(Entries) /\ made \in Seq(Exports)
         /\ cache \in [Modules -> Nat] /\ jsCache \in [Modules -> Nat]
<1>1. made \in Seq(Exports) /\ DOMAIN made = 1..Len(made) /\ Len(made) \in Nat
  BY DEF Typed
<1>2. \A i \in Ids : made[i] \in Exports
  BY <1>1 DEF Ids
<1>3. QED
  BY <1>1, <1>2 DEF Typed, Ids, Exports

\* require finds an entry, or a file it cannot read.
LEMMA RequireKeeps ==
  ASSUME IInv, NEW m \in Modules, RequireHit(m) \/ RequireUnreadable(m)
  PROVE  Kept'
<1>1. /\ Typed /\ Entered /\ UnderWay /\ Removed
      /\ \A i \in Ids : made[i] \in Exports
      /\ cache \in [Modules -> Nat] /\ jsCache \in [Modules -> Nat]
  BY IdsFacts DEF IInv, Kept
<1>2. UNCHANGED <<jsCache, made, stack, edits, gone>> /\ Ids' = Ids
  BY DEF RequireHit, RequireUnreadable, userVars, Ids
<1>3. cache' \in [Modules -> Nat]
  BY <1>1 DEF RequireHit, RequireUnreadable, Hits
<1>4. \A i \in Ids : OnStack(i)' <=> OnStack(i)
  BY <1>2 DEF OnStack
<1>5. \/ ret' = 0
      \/ ret' \in Ids /\ ret' \notin gone
          /\ (made'[ret'].body \in {"ok", "error", "injected"} \/ OnStack(ret)')
  <2>1. CASE RequireUnreadable(m)
    BY <2>1 DEF RequireUnreadable
  <2>2. CASE RequireHit(m)
    <3>1. ret' = jsCache[m] /\ jsCache[m] # 0
      BY <2>2 DEF RequireHit, Hits
    <3>2. jsCache[m] \in Ids /\ jsCache[m] \notin gone
      BY <1>1, <3>1 DEF Entered, Removed
    <3>3. made[jsCache[m]].body \in {"ok", "error", "injected"} \/ OnStack(jsCache[m])
      BY <1>1, <3>2 DEF UnderWay, Exports
    <3>4. made'[ret'].body \in {"ok", "error", "injected"} \/ OnStack(ret)'
      BY <1>2, <3>1, <3>3 DEF OnStack
    <3>5. QED
      BY <3>1, <3>2, <3>4
  <2>3. QED
    BY <2>1, <2>2
<1>6. QED
  BY <1>1, <1>2, <1>3, <1>4, <1>5, IdsFacts, Continues DEF Typed, UnderWay

\* A body goes on to its next await, or ends; a task begins or ends.
LEMMA BodyKeeps ==
  ASSUME IInv, NEW i \in Ids,
         (\E b \in {"ok", "error"} : BodyEnds(i, b)) \/ BodyAwaits(i) \/ BodyResumes(i)
  PROVE  Kept'
<1>1. /\ Typed /\ UnderWay
      /\ i \in Nat /\ 0 \notin Ids
      /\ cache \in [Modules -> Nat] /\ stack \in Seq(Entries) /\ made \in Seq(Exports)
  BY IdsFacts DEF IInv, Kept
<1>2. UNCHANGED <<cache, jsCache, edits, gone>> /\ ret' = 0
  BY DEF BodyEnds, BodyAwaits, BodyResumes, userVars
<1>3. PICK b \in {"run", "wait", "ok", "error"} : Body(i, b) /\ (b \in {"run", "wait"} => made[i].body = "wait" \/ Leaves(i))
  BY DEF BodyEnds, BodyAwaits, BodyResumes
<1>4. /\ made' \in Seq(Exports) /\ Ids' = Ids
      /\ \A j \in Ids : made'[j].mod = made[j].mod /\ made'[j].body = IF j = i THEN b ELSE made[j].body
  BY <1>1, <1>3, BodySet
<1>5. /\ stack' \in Seq(Entries)
      /\ \A j : OnStack(j)' <=> OnStack(j)
  <2>1. CASE Top("eval", i) /\ Switch("await", i)
    BY <1>1, <2>1, Switched
  <2>2. CASE Top("resume", i) /\ Pop
    BY <1>1, <2>2, Popped
  <2>3. CASE Push("resume", i)
    BY <1>1, <2>3, Pushed
  <2>4. QED
    BY <2>1, <2>2, <2>3 DEF BodyEnds, BodyAwaits, BodyResumes, Leaves
<1>6. b \in {"run", "wait"} => OnStack(i)
  <2>1. CASE BodyResumes(i)
    BY <1>1, <2>1 DEF BodyResumes, UnderWay
  <2>2. CASE Top("eval", i)
    <3>1. Len(stack) \in DOMAIN stack /\ stack[Len(stack)].at = "eval" /\ stack[Len(stack)].id = i
      BY <1>1, <2>2, TopFacts
    <3>2. QED
      BY <3>1 DEF OnStack
  <2>3. CASE Top("resume", i)
    <3>1. Len(stack) \in DOMAIN stack /\ stack[Len(stack)].at = "resume" /\ stack[Len(stack)].id = i
      BY <1>1, <2>3, TopFacts
    <3>2. made[i].body = "run"
      BY <3>1 DEF IInv, Running, Active
    <3>3. QED
      BY <1>1, <3>2 DEF UnderWay
  <2>4. QED
    BY <2>1, <2>2, <2>3 DEF BodyEnds, BodyAwaits, Leaves
<1>7. QED
  BY <1>1, <1>2, <1>4, <1>5, <1>6, Continues DEF UnderWay

LEMMA TaskKeeps ==
  ASSUME IInv, TaskBegins \/ TaskEnds
  PROVE  Kept'
<1>1. /\ Typed /\ UnderWay /\ Ids \subseteq Nat /\ 0 \notin Ids
      /\ cache \in [Modules -> Nat] /\ stack \in Seq(Entries) /\ made \in Seq(Exports)
  BY IdsFacts DEF IInv, Kept
<1>2. UNCHANGED <<cache, jsCache, made, edits, gone>> /\ ret' = 0 /\ Ids' = Ids
  BY DEF TaskBegins, TaskEnds, userVars, Ids
<1>3. stack' \in Seq(Entries) /\ \A i \in Ids : OnStack(i)' <=> OnStack(i)
  <2>1. CASE TaskBegins
    BY <1>1, <2>1, Pushed DEF TaskBegins
  <2>2. CASE TaskEnds
    BY <1>1, <2>2, Popped DEF TaskEnds
  <2>3. QED
    BY <2>1, <2>2
<1>4. QED
  BY <1>1, <1>2, <1>3, Continues DEF UnderWay

\* An evaluation returns or throws, or a loader of the program's own does.
LEMMA ReturnKeeps ==
  ASSUME IInv, NEW i \in Ids,
         LoaderReturns(i) \/ LoaderThrows(i) \/ EvaluationReturns(i) \/ EvaluationThrows(i)
  PROVE  Kept'
<1>1. /\ Typed /\ UnderWay /\ Removed /\ i \in Nat /\ 0 \notin Ids /\ made[i].mod \in Modules
      /\ cache \in [Modules -> Nat] /\ stack \in Seq(Entries) /\ made \in Seq(Exports)
  BY IdsFacts DEF IInv, Kept
<1>2. UNCHANGED <<edits, gone>> /\ Pop /\ \E at \in {"custom", "await"} : Top(at, i)
  BY DEF LoaderReturns, LoaderThrows, EvaluationReturns, EvaluationThrows, userVars, Waits
<1>3. cache' \in [Modules -> Nat]
  BY <1>1 DEF LoaderReturns, LoaderThrows, EvaluationReturns, EvaluationThrows
<1>4. jsCache' = jsCache \/ jsCache' = [jsCache EXCEPT ![made[i].mod] = i]
  BY DEF LoaderReturns, LoaderThrows, EvaluationReturns, EvaluationThrows
<1>5. /\ made' \in Seq(Exports) /\ Ids' = Ids
      /\ \A j \in Ids : made'[j].mod = made[j].mod /\ (j # i => made'[j].body = made[j].body)
      /\ made'[i].body \in {"ok", "error"}
  <2>1. CASE LoaderReturns(i) \/ LoaderThrows(i)
    <3>1. PICK b \in {"ok", "error"} : Body(i, b)
      BY <2>1 DEF LoaderReturns, LoaderThrows
    <3>2. QED
      BY <1>1, <3>1, BodySet
  <2>2. CASE EvaluationReturns(i) \/ EvaluationThrows(i)
    BY <1>1, <2>2 DEF EvaluationReturns, EvaluationThrows, Settled, Failed, Ids
  <2>3. QED
    BY <2>1, <2>2
<1>6. /\ stack' \in Seq(Entries) /\ OnStack(i)
      /\ \A j : OnStack(j)' => OnStack(j)
      /\ \A j : OnStack(j) /\ j # i => OnStack(j)'
  BY <1>1, <1>2, Popped
<1>7. \A j \in Ids : made'[j].body \in {"run", "wait"} => OnStack(j)'
  BY <1>1, <1>5, <1>6 DEF UnderWay
<1>8. ret' = 0 \/ ret' = i
  BY DEF LoaderReturns, LoaderThrows, EvaluationReturns, EvaluationThrows
<1>9. i \notin gone
  BY <1>1, <1>6 DEF Removed
<1>10. QED
  BY <1>1, <1>2, <1>3, <1>4, <1>5, <1>6, <1>7, <1>8, <1>9, Continues

\* An evaluation begins.
LEMMA EvaluateKeeps ==
  ASSUME IInv, NEW m \in Modules, Evaluate(m) \/ CallLoader(m)
  PROVE  Kept'
<1>1. /\ Typed /\ Entered /\ EvaluatedOnce /\ UnderWay /\ Removed
      /\ \A i \in Ids : made[i].mod \in Modules
      /\ cache \in [Modules -> Nat] /\ jsCache \in [Modules -> Nat] /\ stack \in Seq(Entries) /\ made \in Seq(Exports)
  BY IdsFacts DEF IInv, Kept
<1>2. /\ made' = Append(made, [mod |-> m, body |-> "run"]) /\ jsCache[m] = 0 /\ ret' = 0
      /\ UNCHANGED <<edits, gone>>
  BY DEF Evaluate, CallLoader, Begin, Misses, Hits, userVars
<1>3. /\ made' \in Seq(Exports) /\ Ids' = Ids \cup {New} /\ New \notin Ids /\ New \in Nat /\ New # 0
      /\ made'[New] = [mod |-> m, body |-> "run"] /\ \A i \in Ids : made'[i] = made[i]
      /\ Ids \subseteq Nat /\ 0 \notin Ids
  BY <1>1, <1>2, Begun
<1> HIDE DEF New
<1>4. stack' \in Seq(Entries) /\ \A j : OnStack(j)' <=> OnStack(j) \/ j = New
  <2>1. CASE Evaluate(m)
    BY <1>1, <1>3, <2>1, Pushed DEF Evaluate
  <2>2. CASE CallLoader(m)
    BY <1>1, <1>3, <2>2, Pushed DEF CallLoader
  <2>3. QED
    BY <2>1, <2>2
<1>5. /\ cache' \in [Modules -> Nat] /\ jsCache' \in [Modules -> Nat]
      /\ \A x \in Modules : x # m => jsCache'[x] = jsCache[x]
      /\ m \notin Custom => jsCache'[m] = New
      /\ jsCache'[m] \in {0, New}
  BY <1>1, <1>2, <1>3 DEF Evaluate, CallLoader
<1>6. Typed'
  BY <1>1, <1>2, <1>3, <1>4, <1>5 DEF Typed
<1>7. Entered'
  <2>1. ASSUME NEW x \in Modules, jsCache'[x] # 0 PROVE jsCache'[x] \in Ids' /\ made'[jsCache'[x]].mod = x
    BY <1>1, <1>3, <1>5, <2>1 DEF Entered
  <2>2. ASSUME NEW i \in Ids', made'[i].mod \notin Custom, made'[i].mod \notin Range(edits)
        PROVE  jsCache'[made'[i].mod] # 0
    <3>1. CASE i = New
      <4>1. made'[i].mod = m
        BY <1>3, <3>1
      <4>2. QED
        BY <1>3, <1>5, <2>2, <4>1
    <3>2. CASE i \in Ids
      <4>1. made'[i] = made[i] /\ made[i].mod \in Modules /\ jsCache[made[i].mod] # 0
        BY <1>1, <1>3, <2>2, <3>2 DEF Entered
      <4>2. made[i].mod # m
        BY <1>2, <4>1
      <4>3. QED
        BY <1>5, <4>1, <4>2
    <3>3. QED
      BY <1>3, <3>1, <3>2
  <2>3. QED
    BY <1>2, <2>1, <2>2 DEF Entered
<1>8. EvaluatedOnce'
  <2> SUFFICES ASSUME NEW i \in Ids', NEW j \in Ids', made'[i].mod = made'[j].mod,
                      made'[i].mod \notin Custom, made'[i].mod \notin Range(edits)
               PROVE  i = j
    BY <1>2 DEF EvaluatedOnce
  <2>1. CASE i \in Ids /\ j \in Ids
    BY <1>1, <1>3, <2>1 DEF EvaluatedOnce
  <2>2. ASSUME NEW k \in Ids, made[k].mod = m, m \notin Custom, m \notin Range(edits) PROVE FALSE
    BY <1>1, <1>2, <2>2 DEF Entered
  <2>3. made'[New].mod = m /\ \A k \in Ids : made'[k].mod = made[k].mod
    <3>1. made'[New] = [mod |-> m, body |-> "run"]
      BY <1>3
    <3>2. made'[New].mod = m
      BY <3>1
    <3>3. \A k \in Ids : made'[k] = made[k]
      BY <1>3
    <3>4. QED
      BY <3>2, <3>3
  <2>4. CASE i = New /\ j \in Ids
    <3>1. made[j].mod = m
      BY <2>3, <2>4
    <3>2. QED
      BY <2>2, <2>3, <2>4, <3>1
  <2>5. CASE j = New /\ i \in Ids
    <3>1. made[i].mod = m
      BY <2>3, <2>5
    <3>2. QED
      BY <2>2, <2>3, <2>5, <3>1
  <2>6. i \in Ids \cup {New} /\ j \in Ids \cup {New}
    BY <1>3
  <2>7. QED
    BY <2>1, <2>4, <2>5, <2>6
<1>9. UnderWay'
  BY <1>1, <1>3, <1>4 DEF UnderWay
<1>10. ReturnsFinished' /\ RemovedStaysGone'
  BY <1>1, <1>2, <1>3 DEF ReturnsFinished, RemovedStaysGone, Typed
<1>11. Removed'
  BY <1>1, <1>2, <1>3, <1>4, <1>5 DEF Removed, Typed
<1>12. QED
  BY <1>6, <1>7, <1>8, <1>9, <1>10, <1>11 DEF Kept

\* The program deletes an entry, or puts one of its own in.
LEMMA EditKeeps ==
  ASSUME IInv, NEW m \in Modules, Delete(m) \/ Inject(m)
  PROVE  Kept'
<1>1. /\ Typed /\ Entered /\ EvaluatedOnce /\ UnderWay /\ Removed
      /\ \A i \in Ids : made[i].mod \in Modules
      /\ cache \in [Modules -> Nat] /\ jsCache \in [Modules -> Nat] /\ stack \in Seq(Entries) /\ made \in Seq(Exports)
      /\ edits \in Seq(Modules) /\ 0 \notin Ids
  BY IdsFacts DEF IInv, Kept, Typed
<1>2. UNCHANGED <<cache, stack>> /\ ret' = 0 /\ edits' = Append(edits, m)
  BY DEF Delete, Inject
<1>3. edits' \in Seq(Modules) /\ Range(edits) \subseteq Range(edits') /\ m \in Range(edits')
  <2>1. /\ edits' \in Seq(Modules) /\ Len(edits) \in Nat
        /\ DOMAIN edits = 1..Len(edits) /\ DOMAIN edits' = 1..Len(edits) + 1
        /\ edits'[Len(edits) + 1] = m /\ \A k \in 1..Len(edits) : edits'[k] = edits[k]
    BY <1>1, <1>2, AppendFacts
  <2>2. QED
    BY <2>1 DEF Range
<1>4. \A j : OnStack(j)' <=> OnStack(j)
  BY <1>2 DEF OnStack
<1>5. PICK i \in Nat :
        /\ jsCache' = [jsCache EXCEPT ![m] = i]
        /\ made' \in Seq(Exports) /\ Ids' = Ids \cup ({i} \ {0}) /\ \A j \in Ids : made'[j] = made[j]
        /\ i # 0 => i \notin Ids /\ made'[i] = [mod |-> m, body |-> "injected"]
  <2>1. CASE Delete(m)
    <3>1. jsCache' = [jsCache EXCEPT ![m] = 0] /\ made' = made
      BY <2>1 DEF Delete
    <3>2. Ids' = Ids \cup ({0} \ {0})
      BY <3>1 DEF Ids
    <3>3. 0 \in Nat
      OBVIOUS
    <3>4. QED
      BY <1>1, <3>1, <3>2, <3>3
  <2>2. CASE Inject(m)
    <3>1. jsCache' = [jsCache EXCEPT ![m] = New] /\ made' = Append(made, [mod |-> m, body |-> "injected"])
      BY <2>2 DEF Inject
    <3>2. /\ made' \in Seq(Exports) /\ Ids' = Ids \cup {New} /\ New \notin Ids /\ New \in Nat /\ New # 0
          /\ made'[New] = [mod |-> m, body |-> "injected"] /\ \A j \in Ids : made'[j] = made[j]
      BY <1>1, <3>1, Begun
    <3> HIDE DEF New
    <3>3. QED
      BY <3>1, <3>2
  <2>3. QED
    BY <2>1, <2>2
<1>6. /\ jsCache' \in [Modules -> Nat] /\ jsCache'[m] = i
      /\ \A x \in Modules : x # m => jsCache'[x] = jsCache[x]
  BY <1>1, <1>5
<1>7. /\ gone' \subseteq gone \cup {jsCache[m]} /\ gone \subseteq gone'
      /\ jsCache[m] \in gone' => jsCache[m] # 0 /\ ~OnStack(jsCache[m])
  BY <1>1 DEF Delete, Inject, Removed, Typed
<1>8. \A j \in gone' : j \in Ids /\ ~OnStack(j)
  BY <1>1, <1>7 DEF Removed, Typed, Entered
<1>9. Typed'
  BY <1>1, <1>2, <1>3, <1>5, <1>6, <1>8 DEF Typed
<1>10. Entered'
  <2>1. ASSUME NEW x \in Modules, jsCache'[x] # 0 PROVE jsCache'[x] \in Ids' /\ made'[jsCache'[x]].mod = x
    BY <1>1, <1>5, <1>6, <2>1 DEF Entered
  <2>2. ASSUME NEW j \in Ids', made'[j].mod \notin Custom, made'[j].mod \notin Range(edits')
        PROVE  jsCache'[made'[j].mod] # 0
    <3>1. made'[j].mod # m
      BY <1>3, <2>2
    <3>2. j \in Ids
      BY <1>5, <3>1
    <3>3. QED
      BY <1>1, <1>3, <1>5, <1>6, <2>2, <3>1, <3>2 DEF Entered
  <2>3. QED
    BY <2>1, <2>2 DEF Entered
<1>11. EvaluatedOnce'
  <2> SUFFICES ASSUME NEW j \in Ids', NEW k \in Ids', made'[j].mod = made'[k].mod,
                      made'[j].mod \notin Custom, made'[j].mod \notin Range(edits')
               PROVE  j = k
    BY DEF EvaluatedOnce
  <2>1. made'[j].mod # m /\ made'[k].mod # m /\ made'[j].mod \notin Range(edits)
    BY <1>3
  <2>2. j \in Ids /\ k \in Ids
    BY <1>5, <2>1
  <2>3. QED
    BY <1>1, <1>5, <2>1, <2>2 DEF EvaluatedOnce
<1>12. UnderWay'
  <2> SUFFICES ASSUME NEW j \in Ids', made'[j].body \in {"run", "wait"} PROVE OnStack(j)'
    BY DEF UnderWay
  <2>1. j \in Ids
    BY <1>5
  <2>2. QED
    BY <1>1, <1>4, <1>5, <2>1 DEF UnderWay
<1>13. ReturnsFinished' /\ RemovedStaysGone'
  BY <1>1, <1>2, <1>8 DEF ReturnsFinished, RemovedStaysGone
<1>14. Removed'
  <2>1. ASSUME NEW x \in Modules, jsCache'[x] \in gone' PROVE FALSE
    <3>1. jsCache'[x] \in Ids
      BY <1>8, <2>1
    <3>2. x # m
      BY <1>1, <1>5, <1>6, <3>1
    <3>3. jsCache[x] \in gone' /\ jsCache[x] \notin gone
      BY <1>1, <1>6, <2>1, <3>2 DEF Removed
    <3>4. jsCache[x] = jsCache[m] /\ jsCache[x] # 0
      BY <1>7, <3>3
    <3>5. QED
      BY <1>1, <3>2, <3>4 DEF Entered
  <2>2. QED
    BY <1>4, <1>8, <2>1 DEF Removed
<1>15. QED
  BY <1>9, <1>10, <1>11, <1>12, <1>13, <1>14 DEF Kept

-----------------------------------------------------------------------------
(* A body runs in one place                                                 *)

\* Bodies that run and are not in i's place go on running.
GoOn(i) == \A j \in Ids : j # i /\ made[j].body = "run" => j \in Ids' /\ made'[j].body = "run"

LEMMA RunningPushed ==
  ASSUME stack \in Seq(Entries), Running, NEW at \in {"eval", "await", "resume", "custom", "task"}, NEW i \in Nat,
         Push(at, i), GoOn(i),
         i \in Ids => made[i].body # "run",
         at # "task" => i \in Ids' /\ made'[i].body = "run"
  PROVE  Running'
<1>1. Entry(at, i) \in Entries /\ Entry(at, i).id = i /\ Entry(at, i).at = at
  BY DEF Entry, Entries
<1>2. /\ Len(stack) \in Nat /\ DOMAIN stack = 1..Len(stack) /\ DOMAIN stack' = 1..Len(stack) + 1
      /\ stack'[Len(stack) + 1] = Entry(at, i) /\ \A k \in 1..Len(stack) : stack'[k] = stack[k]
  BY <1>1, AppendFacts DEF Push
<1>3. \A k \in DOMAIN stack' : k \in 1..Len(stack) \/ k = Len(stack) + 1
  BY <1>2
<1>4. \A k \in 1..Len(stack) : Active(stack'[k]) => Active(stack[k]) /\ stack[k].id # i
  BY <1>2 DEF Running, Active
<1>5. Active(stack'[Len(stack) + 1]) => at # "task" /\ stack'[Len(stack) + 1].id = i
  BY <1>1, <1>2 DEF Active
<1> SUFFICES ASSUME NEW k \in DOMAIN stack', Active(stack'[k])
             PROVE  /\ stack'[k].id \in Ids' /\ made'[stack'[k].id].body = "run"
                    /\ \A l \in DOMAIN stack' : Active(stack'[l]) /\ stack'[l].id = stack'[k].id => l = k
  BY DEF Running
<1>6. CASE k \in 1..Len(stack)
  <2>1. Active(stack[k]) /\ stack'[k] = stack[k] /\ stack[k].id # i
    BY <1>2, <1>4, <1>6
  <2>2. stack[k].id \in Ids /\ made[stack[k].id].body = "run"
    BY <1>2, <1>6, <2>1 DEF Running
  <2>3. stack[k].id \in Ids' /\ made'[stack[k].id].body = "run"
    BY <2>1, <2>2 DEF GoOn
  <2>4. ASSUME NEW l \in DOMAIN stack', Active(stack'[l]), stack'[l].id = stack'[k].id PROVE l = k
    <3>1. l # Len(stack) + 1
      BY <1>5, <2>1, <2>4
    <3>2. l \in 1..Len(stack) /\ stack'[l] = stack[l]
      BY <1>2, <1>3, <3>1
    <3>3. QED
      BY <1>2, <1>4, <1>6, <2>1, <2>4, <3>2 DEF Running
  <2>5. QED
    BY <2>1, <2>3, <2>4
<1>7. CASE k = Len(stack) + 1
  <2>1. at # "task" /\ stack'[k].id = i
    BY <1>5, <1>7
  <2>2. ASSUME NEW l \in DOMAIN stack', Active(stack'[l]), stack'[l].id = stack'[k].id PROVE l = k
    <3>1. l \notin 1..Len(stack)
      BY <1>2, <1>4, <2>1, <2>2
    <3>2. QED
      BY <1>3, <1>7, <3>1
  <2>3. QED
    BY <2>1, <2>2
<1>8. QED
  BY <1>3, <1>6, <1>7

LEMMA Below ==
  \A n \in Nat : /\ \A k \in 1..n : k \in 1..n - 1 \/ k = n
                 /\ \A k \in 1..n - 1 : k \in 1..n /\ k # n
OBVIOUS

\* The innermost entry goes, or becomes an evaluation that waits.
LEMMA RunningPopped ==
  ASSUME stack \in Seq(Entries), Running,
         NEW at \in {"eval", "await", "resume", "custom", "task"}, NEW i \in Nat, Top(at, i),
         Pop \/ Switch("await", i),
         GoOn(i), at \in {"await", "task"} => made' = made
  PROVE  Running'
<1> DEFINE n == Len(stack)
<1>1. /\ n \in DOMAIN stack /\ stack[n].at = at /\ stack[n].id = i
      /\ DOMAIN stack = 1..n /\ n \in Nat
  BY TopFacts
<1>2. /\ Front(stack) \in Seq(Entries) /\ Len(Front(stack)) = n - 1
      /\ DOMAIN Front(stack) = 1..n - 1 /\ \A k \in 1..n - 1 : Front(stack)[k] = stack[k]
  BY FrontFacts DEF Top
<1>3. /\ \A k \in 1..n - 1 : k \in DOMAIN stack' /\ stack'[k] = stack[k]
      /\ \A k \in DOMAIN stack' : k \in 1..n - 1 \/ (k = n /\ stack'[k].at = "await")
  <2>1. CASE Pop
    BY <1>2, <2>1 DEF Pop
  <2>2. CASE Switch("await", i)
    <3>1. Entry("await", i) \in Entries /\ Entry("await", i).at = "await"
      BY DEF Entry, Entries
    <3>2. /\ DOMAIN stack' = 1..n - 1 + 1 /\ stack'[n - 1 + 1] = Entry("await", i)
          /\ \A k \in 1..n - 1 : stack'[k] = stack[k]
      BY <1>2, <2>2, <3>1, AppendFacts DEF Switch
    <3>3. DOMAIN stack' = 1..n /\ stack'[n] = Entry("await", i)
      BY <1>1, <3>2
    <3>4. \A k \in 1..n : k \in 1..n - 1 \/ k = n
      BY <1>1, Below
    <3>5. \A k \in 1..n - 1 : k \in 1..n
      BY <1>1, Below
    <3>6. QED
      BY <3>1, <3>2, <3>3, <3>4, <3>5
  <2>3. QED
    BY <2>1, <2>2
<1>4. \A k \in 1..n - 1 : k \in DOMAIN stack /\ k # n
  BY <1>1, Below
<1> HIDE DEF n
<1>5. \A k \in DOMAIN stack' : Active(stack'[k]) => k \in 1..n - 1 /\ stack'[k] = stack[k] /\ k \in DOMAIN stack /\ Active(stack[k])
  BY <1>3, <1>4 DEF Active
<1> SUFFICES ASSUME NEW k \in DOMAIN stack', Active(stack'[k])
             PROVE  /\ stack'[k].id \in Ids' /\ made'[stack'[k].id].body = "run"
                    /\ \A l \in DOMAIN stack' : Active(stack'[l]) /\ stack'[l].id = stack'[k].id => l = k
  BY DEF Running
<1>6. /\ k \in DOMAIN stack /\ Active(stack[k]) /\ stack'[k] = stack[k] /\ k # n
      /\ stack[k].id \in Ids /\ made[stack[k].id].body = "run"
      /\ \A l \in DOMAIN stack : Active(stack[l]) /\ stack[l].id = stack[k].id => l = k
  BY <1>4, <1>5 DEF Running
<1>7. stack[k].id \in Ids' /\ made'[stack[k].id].body = "run"
  <2>1. CASE at \in {"await", "task"}
    BY <1>6, <2>1 DEF Ids
  <2>2. CASE at \in {"eval", "resume", "custom"}
    <3>1. Active(stack[n])
      BY <1>1, <2>2 DEF Active
    <3>2. stack[k].id # i
      BY <1>1, <1>6, <3>1
    <3>3. QED
      BY <1>6, <3>2 DEF GoOn
  <2>3. QED
    BY <2>1, <2>2
<1>8. QED
  BY <1>5, <1>6, <1>7

LEMMA RunningStep == IInv /\ [Next]_vars => Running'
<1> SUFFICES ASSUME IInv, [Next]_vars PROVE Running'
  OBVIOUS
<1>1. /\ Running /\ UnderWay /\ stack \in Seq(Entries) /\ made \in Seq(Exports)
      /\ Ids \subseteq Nat /\ 0 \notin Ids
  BY IdsFacts DEF IInv, Kept
\* Nothing changes on the stack, and no body ends.
<1>2. ASSUME stack' = stack, \A i \in Ids : i \in Ids' /\ made'[i] = made[i] PROVE Running'
  BY <1>1, <1>2 DEF Running, Active
<1>3. ASSUME NEW m \in Modules,
             RequireHit(m) \/ RequireUnreadable(m) \/ Evaluate(m) \/ CallLoader(m) \/ Delete(m) \/ Inject(m)
      PROVE  Running'
  <2>1. CASE RequireHit(m) \/ RequireUnreadable(m) \/ Delete(m)
    BY <1>2, <2>1 DEF RequireHit, RequireUnreadable, Delete, Ids
  <2>2. CASE Inject(m)
    <3>1. made' = Append(made, [mod |-> m, body |-> "injected"]) /\ stack' = stack
      BY <2>2 DEF Inject
    <3>2. \A i \in Ids : i \in Ids' /\ made'[i] = made[i]
      BY <1>1, <3>1, Begun
    <3>3. QED
      BY <1>2, <3>1, <3>2
  <2>3. CASE Evaluate(m) \/ CallLoader(m)
    <3>1. made' = Append(made, [mod |-> m, body |-> "run"])
      BY <2>3 DEF Evaluate, CallLoader, Begin
    <3>2. /\ Ids' = Ids \cup {New} /\ New \notin Ids /\ New \in Nat
          /\ made'[New] = [mod |-> m, body |-> "run"] /\ \A i \in Ids : made'[i] = made[i]
      BY <1>1, <3>1, Begun
    <3>3. \E at \in {"eval", "custom"} : Push(at, New)
      BY <2>3 DEF Evaluate, CallLoader
    <3> HIDE DEF New
    <3>4. GoOn(New) /\ New \in Ids' /\ made'[New].body = "run"
      BY <3>2 DEF GoOn
    <3>5. QED
      BY <1>1, <3>2, <3>3, <3>4, RunningPushed
  <2>4. QED
    BY <1>3, <2>1, <2>2, <2>3
<1>4. ASSUME NEW i \in Ids, BodyResumes(i) PROVE Running'
  <2>1. Push("resume", i) /\ Body(i, "run") /\ made[i].body = "wait"
    BY <1>4 DEF BodyResumes
  <2>2. Ids' = Ids /\ \A j \in Ids : made'[j].body = IF j = i THEN "run" ELSE made[j].body
    BY <1>1, <2>1, BodySet
  <2>3. GoOn(i) /\ i \in Ids' /\ made'[i].body = "run"
    BY <2>2 DEF GoOn
  <2>4. QED
    BY <1>1, <2>1, <2>3, RunningPushed
<1>5. ASSUME NEW i \in Ids,
             (\E b \in {"ok", "error"} : BodyEnds(i, b)) \/ BodyAwaits(i) \/ LoaderReturns(i) \/ LoaderThrows(i)
      PROVE  Running'
  <2>1. PICK b \in {"wait", "ok", "error"} : Body(i, b)
    BY <1>5 DEF BodyEnds, BodyAwaits, LoaderReturns, LoaderThrows
  <2>2. Ids' = Ids /\ \A j \in Ids : made'[j].body = IF j = i THEN b ELSE made[j].body
    BY <1>1, <2>1, BodySet
  <2>3. GoOn(i)
    BY <2>2 DEF GoOn
  <2>4. \E at \in {"eval", "resume", "custom"} : Top(at, i) /\ (Pop \/ Switch("await", i))
    BY <1>5 DEF BodyEnds, BodyAwaits, Leaves, LoaderReturns, LoaderThrows
  <2>5. QED
    BY <1>1, <2>3, <2>4, RunningPopped
<1>6. ASSUME NEW i \in Ids, EvaluationReturns(i) \/ EvaluationThrows(i) PROVE Running'
  <2>1. Top("await", i) /\ Pop /\ made' = made
    BY <1>6 DEF EvaluationReturns, EvaluationThrows, Waits
  <2>2. GoOn(i)
    BY <2>1 DEF GoOn, Ids
  <2>3. QED
    BY <1>1, <2>1, <2>2, RunningPopped
<1>7. CASE TaskBegins
  <2>1. Push("task", 0) /\ made' = made
    BY <1>7 DEF TaskBegins
  <2>2. GoOn(0)
    BY <2>1 DEF GoOn, Ids
  <2>3. QED
    BY <1>1, <2>1, <2>2, RunningPushed
<1>8. CASE TaskEnds
  <2>1. Top("task", 0) /\ Pop /\ made' = made
    BY <1>8 DEF TaskEnds
  <2>2. GoOn(0)
    BY <2>1 DEF GoOn, Ids
  <2>3. QED
    BY <1>1, <2>1, <2>2, RunningPopped
<1>9. CASE UNCHANGED vars
  BY <1>2, <1>9 DEF vars, Ids
<1>10. QED
  BY <1>3, <1>4, <1>5, <1>6, <1>7, <1>8, <1>9 DEF Next

-----------------------------------------------------------------------------
(* What follows                                                             *)

\* Both caches and the stack agree in every state that requires, awaits,
\* failures, cycles and edits can lead to.
THEOREM Inductive == Spec => []IInv
<1>1. IInv /\ [Next]_vars => IInv'
  <2> SUFFICES ASSUME IInv, [Next]_vars PROVE IInv'
    OBVIOUS
  <2>1. CASE UNCHANGED vars
    BY <2>1, RunningStep DEF IInv, Kept, vars, Typed, Entered, EvaluatedOnce, UnderWay, ReturnsFinished, Removed,
          RemovedStaysGone, OnStack, Ids
  <2>2. CASE Next
    <3>1. Kept'
      BY <2>2, RequireKeeps, EvaluateKeeps, EditKeeps, BodyKeeps, ReturnKeeps, TaskKeeps DEF Next
    <3>2. QED
      BY <3>1, RunningStep DEF IInv
  <2>3. QED
    BY <2>1, <2>2
<1>2. QED
  BY InitHolds, <1>1, PTL DEF Spec

\* RunPrecompiled is called once for a module that the program leaves alone in
\* require.cache: an entry is there from before its body runs, also after the
\* body has failed (loader.go:386-404, esm.go:44-52).
THEOREM ModulesEvaluatedOnce == Spec => []EvaluatedOnce
<1>1. IInv => EvaluatedOnce
  BY DEF IInv, Kept
<1>2. QED
  BY Inductive, <1>1, PTL

\* require returns exports whose evaluation has ended, or is under way below.
THEOREM RequireReturnsFinished == Spec => []ReturnsFinished
<1>1. IInv => ReturnsFinished
  BY DEF IInv, Kept
<1>2. QED
  BY Inductive, <1>1, PTL

\* An entry deleted from require.cache does not come back from the loader's own
\* cache (loader.go:386-404).
THEOREM DeletedStaysGone == Spec => []RemovedStaysGone
<1>1. IInv => RemovedStaysGone
  BY DEF IInv, Kept
<1>2. QED
  BY Inductive, <1>1, PTL
=============================================================================

----------------------- MODULE AsyncGenerator_proofs -----------------------
(* Proofs about AsyncGenerator for any set of generators and any bounds: a    *)
(* body is in one place at a time, the queue holds what is still to be        *)
(* served, and the whole implements RequestQueue.                             *)
EXTENDS AsyncGenerator, SequenceTheorems, TLAPS

-----------------------------------------------------------------------------
(* The inductive invariant                                                   *)

InStack(e) == \E i \in DOMAIN stack : stack[i] = e
Once(e) == \A i, j \in DOMAIN stack : stack[i] = e /\ stack[j] = e => i = j

Due1(g, i) == i \in DOMAIN jobs /\ jobs[i].gen = g
Waits1(g, h, r, i) ==
  /\ h \in Generators /\ r \in Requests /\ r \notin DOMAIN answers[h]
  /\ i \in DOMAIN waiters[h][r] /\ waiters[h][r][i] = g

OnStack(g) == InStack(Entry(g, "body"))
IsDue(g) == \E i \in DOMAIN jobs : Due1(g, i)
Waits(g) == \E h \in Generators, r \in Requests : \E i \in DOMAIN waiters[h][r] : Waits1(g, h, r, i)

\* Each kind of place has a body at most once, ...
DueOnce(g) == \A i, j \in DOMAIN jobs : Due1(g, i) /\ Due1(g, j) => i = j
WaitsOnce(g) ==
  \A h, k \in Generators, r, s \in Requests :
    \A i \in DOMAIN waiters[h][r], j \in DOMAIN waiters[k][s] :
      Waits1(g, h, r, i) /\ Waits1(g, k, s, j) => h = k /\ r = s /\ i = j
OnceEach(g) == Once(Entry(g, "body")) /\ DueOnce(g) /\ WaitsOnce(g)

\* ... no two of them have it at once, and one has it while a request is served.
OneKind(g) ==
  /\ OnStack(g) => ~IsDue(g) /\ ~Waits(g) /\ g \notin outside
  /\ IsDue(g) => ~Waits(g) /\ g \notin outside
  /\ Waits(g) => g \notin outside
  /\ current[g] # 0 <=> OnStack(g) \/ IsDue(g) \/ Waits(g) \/ g \in outside

Placed == \A g \in Generators : OnceEach(g) /\ OneKind(g)

\* The body's state tells whether a request is served, and whether it is over.
StatesAgree ==
  \A g \in Generators :
    /\ current[g] # 0 => state[g] = "executing"
    /\ state[g] # "completed" => ~Queue!Over(answers[g])

IInv == TypeOK /\ Placed /\ QueueExact /\ StatesAgree
-----------------------------------------------------------------------------
(* Sequences                                                                 *)

JobSet == [gen : Generators, throw : BOOLEAN]
EntrySet == [gen : Generators, at : {"pump", "body"}]

\* What Answer appends to the jobs.
LEMMA Moved ==
  ASSUME NEW q \in Seq(JobSet), NEW ws \in Seq(Generators), NEW t \in BOOLEAN,
         NEW m, m = q \o Reactions(ws, t)
  PROVE  /\ m \in Seq(JobSet) /\ Len(m) = Len(q) + Len(ws)
         /\ \A i \in 1..Len(q) : m[i] = q[i]
         /\ \A i \in 1..Len(ws) : m[Len(q) + i].gen = ws[i]
<1> DEFINE e == Reactions(ws, t)
<1>1. DOMAIN ws = 1..Len(ws) /\ Len(ws) \in Nat /\ \A i \in DOMAIN ws : ws[i] \in Generators
  BY LenProperties, ElementOfSeq
<1>2. e \in Seq(JobSet) /\ Len(e) = Len(ws)
  BY <1>1 DEF JobSet, Reactions
<1>3. \A i \in 1..Len(ws) : e[i].gen = ws[i]
  BY <1>1 DEF Reactions
<1> HIDE DEF e
<1>4. /\ q \o e \in Seq(JobSet) /\ Len(q \o e) = Len(q) + Len(e)
      /\ \A i \in 1..Len(q) + Len(e) : (q \o e)[i] = IF i <= Len(q) THEN q[i] ELSE e[i - Len(q)]
  BY <1>2, ConcatProperties
<1>5. Len(q) \in Nat
  BY LenProperties
<1>6. \A i \in 1..Len(q) : (q \o e)[i] = q[i]
  BY <1>1, <1>2, <1>4, <1>5
<1>7. \A i \in 1..Len(ws) : (q \o e)[Len(q) + i] = e[i]
  BY <1>1, <1>2, <1>4, <1>5
<1> QED
  BY <1>2, <1>3, <1>4, <1>6, <1>7 DEF e

\* The stack with a new top, without its top, and with another top.
LEMMA PushStack ==
  ASSUME stack \in Seq(EntrySet), NEW e \in EntrySet, stack' = <<e>> \o stack
  PROVE  /\ stack' \in Seq(EntrySet)
         /\ \A f : InStack(f)' <=> f = e \/ InStack(f)
         /\ \A f : Once(f) /\ (f # e \/ ~InStack(f)) => Once(f)'
<1>1. <<e>> \in Seq(EntrySet) /\ Len(<<e>>) = 1 /\ <<e>>[1] = e
  OBVIOUS
<1>2. Len(stack) \in Nat /\ DOMAIN stack = 1..Len(stack)
  BY LenProperties
<1>3. /\ stack' \in Seq(EntrySet) /\ Len(stack') = 1 + Len(stack)
      /\ \A i \in 1..1 + Len(stack) : stack'[i] = IF i <= 1 THEN <<e>>[i] ELSE stack[i - 1]
  BY <1>1, ConcatProperties
<1>4. DOMAIN stack' = 1..Len(stack) + 1
  BY <1>2, <1>3, LenProperties
<1>5. stack'[1] = e /\ \A i \in 2..Len(stack) + 1 : stack'[i] = stack[i - 1]
  BY <1>1, <1>2, <1>3
<1>6. \A i \in DOMAIN stack : i + 1 \in DOMAIN stack' /\ stack'[i + 1] = stack[i]
  BY <1>2, <1>4, <1>5
<1>7. \A i \in DOMAIN stack' : i # 1 => i - 1 \in DOMAIN stack /\ stack'[i] = stack[i - 1]
  BY <1>2, <1>4, <1>5
<1>8. 1 \in DOMAIN stack'
  BY <1>2, <1>4
<1>9. ASSUME NEW f PROVE InStack(f)' <=> f = e \/ InStack(f)
  <2>1. InStack(f) => InStack(f)'
    BY <1>6 DEF InStack
  <2>2. f = e => InStack(f)'
    BY <1>5, <1>8 DEF InStack
  <2>3. InStack(f)' => f = e \/ InStack(f)
    BY <1>5, <1>7 DEF InStack
  <2> QED
    BY <2>1, <2>2, <2>3
<1>10. ASSUME NEW f, Once(f), f # e \/ ~InStack(f) PROVE Once(f)'
  <2> SUFFICES ASSUME NEW i \in DOMAIN stack', NEW j \in DOMAIN stack', stack'[i] = f, stack'[j] = f
               PROVE  i = j
    BY DEF Once
  <2>1. CASE i # 1 /\ j # 1
    <3>1. i - 1 = j - 1
      BY <1>7, <1>10, <2>1 DEF Once
    <3> QED
      BY <1>2, <1>4, <3>1
  <2> QED
    BY <1>5, <1>7, <1>10, <2>1 DEF InStack
<1> QED
  BY <1>3, <1>9, <1>10

LEMMA PopStack ==
  ASSUME stack \in Seq(EntrySet), stack # << >>, stack' = Tail(stack)
  PROVE  /\ stack' \in Seq(EntrySet) /\ Head(stack) \in EntrySet
         /\ InStack(Head(stack))
         /\ \A f : f # Head(stack) => (InStack(f)' <=> InStack(f))
         /\ \A f : Once(f) => Once(f)'
         /\ Once(Head(stack)) => \A f : f = Head(stack) => ~InStack(f)'
<1>1. /\ Len(stack) \in Nat \ {0} /\ DOMAIN stack = 1..Len(stack) /\ Head(stack) = stack[1]
      /\ Head(stack) \in EntrySet
  BY LenProperties, EmptySeq, HeadTailProperties
<1>2. /\ stack' \in Seq(EntrySet) /\ Len(stack') = Len(stack) - 1
      /\ \A i \in 1..Len(stack') : stack'[i] = stack[i + 1]
  BY HeadTailProperties
<1>3. DOMAIN stack' = 1..Len(stack) - 1
  BY <1>1, <1>2, LenProperties
<1>4. \A i \in DOMAIN stack' : i + 1 \in DOMAIN stack /\ i + 1 # 1 /\ stack'[i] = stack[i + 1]
  BY <1>1, <1>2, <1>3
<1>5. \A i \in DOMAIN stack : i # 1 => i - 1 \in DOMAIN stack' /\ stack'[i - 1] = stack[i]
  BY <1>1, <1>2, <1>3
<1>6. 1 \in DOMAIN stack
  BY <1>1
<1>7. ASSUME NEW f, f # Head(stack) PROVE InStack(f)' <=> InStack(f)
  BY <1>1, <1>4, <1>5, <1>7 DEF InStack
<1>8. ASSUME NEW f, Once(f) PROVE Once(f)'
  <2> SUFFICES ASSUME NEW i \in DOMAIN stack', NEW j \in DOMAIN stack', stack'[i] = f, stack'[j] = f
               PROVE  i = j
    BY DEF Once
  <2>1. i + 1 = j + 1
    BY <1>4, <1>8 DEF Once
  <2> QED
    BY <1>3, <2>1
<1>9. ASSUME Once(Head(stack)), NEW f, f = Head(stack) PROVE ~InStack(f)'
  BY <1>1, <1>4, <1>6, <1>9 DEF Once, InStack
<1>10. InStack(Head(stack))
  BY <1>1, <1>6 DEF InStack
<1> QED
  BY <1>1, <1>2, <1>7, <1>8, <1>9, <1>10

LEMMA ReplaceTop ==
  ASSUME stack \in Seq(EntrySet), stack # << >>, NEW e \in EntrySet, stack' = <<e>> \o Tail(stack)
  PROVE  /\ stack' \in Seq(EntrySet) /\ InStack(e)' /\ InStack(Head(stack))
         /\ \A f : f # Head(stack) /\ f # e => (InStack(f)' <=> InStack(f))
         /\ \A f : Once(f) /\ (f # e \/ ~InStack(f)) => Once(f)'
         /\ Once(Head(stack)) => \A f : f = Head(stack) /\ f # e => ~InStack(f)'
<1>1. /\ Len(stack) \in Nat \ {0} /\ DOMAIN stack = 1..Len(stack) /\ Head(stack) = stack[1]
      /\ Tail(stack) \in Seq(EntrySet) /\ Len(Tail(stack)) = Len(stack) - 1
      /\ \A i \in 1..Len(Tail(stack)) : Tail(stack)[i] = stack[i + 1]
  BY LenProperties, EmptySeq, HeadTailProperties
<1>2. <<e>> \in Seq(EntrySet) /\ Len(<<e>>) = 1 /\ <<e>>[1] = e
  OBVIOUS
<1>3. /\ stack' \in Seq(EntrySet) /\ Len(stack') = 1 + Len(Tail(stack))
      /\ \A i \in 1..1 + Len(Tail(stack)) : stack'[i] = IF i <= 1 THEN <<e>>[i] ELSE Tail(stack)[i - 1]
  BY <1>1, <1>2, ConcatProperties
<1>4. DOMAIN stack' = DOMAIN stack /\ 1 \in DOMAIN stack
  BY <1>1, <1>3, LenProperties
<1>5. stack'[1] = e
  BY <1>1, <1>2, <1>3
<1>6. \A i \in DOMAIN stack : i # 1 => stack'[i] = stack[i]
  BY <1>1, <1>3
<1>7. InStack(e)' /\ InStack(Head(stack))
  BY <1>1, <1>4, <1>5 DEF InStack
<1>8. ASSUME NEW f, f # Head(stack), f # e PROVE InStack(f)' <=> InStack(f)
  BY <1>1, <1>4, <1>5, <1>6, <1>8 DEF InStack
<1>9. ASSUME NEW f, Once(f), f # e \/ ~InStack(f) PROVE Once(f)'
  BY <1>4, <1>5, <1>6, <1>9 DEF Once, InStack
<1>10. ASSUME Once(Head(stack)), NEW f, f = Head(stack), f # e PROVE ~InStack(f)'
  BY <1>1, <1>4, <1>5, <1>6, <1>10 DEF Once, InStack
<1> QED
  BY <1>3, <1>7, <1>8, <1>9, <1>10

-----------------------------------------------------------------------------
(* Answering: who waited for the answer is due, nobody else moves.           *)

WaitedFor(g, r, w) == \E i \in DOMAIN waiters[g][r] : waiters[g][r][i] = w

\* The jobs that stay: each resumes a body that was due, none twice.
Stay(q) ==
  /\ q \in Seq(JobSet)
  /\ \A i \in 1..Len(q) : IsDue(q[i].gen)
  /\ \A i, j \in 1..Len(q) : q[i].gen = q[j].gen => i = j
Stays(q, w) == \E i \in 1..Len(q) : q[i].gen = w

LEMMA AnswerMoves ==
  ASSUME TypeOK, Placed,
         NEW g \in Generators, NEW r \in Requests, r = Len(answers[g]) + 1,
         NEW res \in Queue!Results, NEW t \in BOOLEAN, NEW q, Stay(q),
         answers' = [answers EXCEPT ![g] = Append(@, [req |-> r, res |-> res])],
         jobs' = q \o Reactions(waiters[g][r], t),
         waiters' = waiters
  PROVE  /\ answers' \in [Generators -> Seq([req : Requests, res : Queue!Results])]
         /\ jobs' \in Seq(JobSet)
         /\ \A w \in Generators :
              /\ IsDue(w)' <=> WaitedFor(g, r, w) \/ Stays(q, w)
              /\ Waits(w)' <=> Waits(w) /\ ~WaitedFor(g, r, w)
              /\ WaitedFor(g, r, w) => Waits(w)
              /\ DueOnce(w)' /\ WaitsOnce(w)'
<1> DEFINE ws == waiters[g][r]
<1>0. /\ ws \in Seq(Generators) /\ answers[g] \in Seq([req : Requests, res : Queue!Results])
      /\ q \in Seq(JobSet)
      /\ \A i \in 1..Len(q) : IsDue(q[i].gen)
      /\ \A i, j \in 1..Len(q) : q[i].gen = q[j].gen => i = j
  BY DEF TypeOK, Stay
<1>1. /\ DOMAIN ws = 1..Len(ws) /\ Len(ws) \in Nat /\ Len(q) \in Nat
      /\ \A i \in DOMAIN ws : ws[i] \in Generators
  BY <1>0, LenProperties
<1>2. /\ jobs' \in Seq(JobSet) /\ Len(jobs') = Len(q) + Len(ws)
      /\ \A i \in 1..Len(q) : jobs'[i] = q[i]
      /\ \A i \in 1..Len(ws) : jobs'[Len(q) + i].gen = ws[i]
  <2>1. jobs' = q \o Reactions(ws, t)
    OBVIOUS
  <2>2. \A m : m = q \o Reactions(ws, t) =>
          /\ m \in Seq(JobSet) /\ Len(m) = Len(q) + Len(ws)
          /\ \A i \in 1..Len(q) : m[i] = q[i]
          /\ \A i \in 1..Len(ws) : m[Len(q) + i].gen = ws[i]
    <3> HIDE DEF ws
    <3> QED
      BY ONLY <1>0, Moved, t \in BOOLEAN
  <2> QED
    BY <2>1, <2>2
<1>3. DOMAIN jobs' = 1..Len(q) + Len(ws)
  BY <1>2, LenProperties
<1>4. answers' \in [Generators -> Seq([req : Requests, res : Queue!Results])]
  BY <1>0, AppendProperties DEF TypeOK
<1>5. \A h \in Generators, x \in Requests : x \in DOMAIN answers'[h] <=> x \in DOMAIN answers[h] \/ (h = g /\ x = r)
  <2>1. \A h \in Generators : h # g => answers'[h] = answers[h]
    BY DEF TypeOK
  <2>2. /\ answers'[g] = Append(answers[g], [req |-> r, res |-> res])
        /\ Len(answers'[g]) = Len(answers[g]) + 1
    BY <1>0, AppendProperties DEF TypeOK
  <2>3. /\ DOMAIN answers'[g] = 1..Len(answers[g]) + 1
        /\ DOMAIN answers[g] = 1..Len(answers[g]) /\ Len(answers[g]) \in Nat
    BY <1>0, <1>4, <2>2, LenProperties
  <2> QED
    BY <2>1, <2>3 DEF Requests
<1>6. r \notin DOMAIN answers[g]
  BY <1>0, LenProperties
<1>7. \A i \in DOMAIN ws : Waits1(ws[i], g, r, i)
  BY <1>1, <1>6 DEF Waits1
<1>8. \A i \in DOMAIN jobs' : i \notin 1..Len(q) =>
        i - Len(q) \in DOMAIN ws /\ jobs'[i].gen = ws[i - Len(q)]
  <2> SUFFICES ASSUME NEW i \in DOMAIN jobs', i \notin 1..Len(q)
               PROVE  i - Len(q) \in DOMAIN ws /\ jobs'[i].gen = ws[i - Len(q)]
    OBVIOUS
  <2>1. i - Len(q) \in 1..Len(ws) /\ i = Len(q) + (i - Len(q))
    BY <1>1, <1>3
  <2> QED
    BY <1>1, <1>2, <2>1
<1>9. \A i \in 1..Len(q) : i \in DOMAIN jobs'
  BY <1>1, <1>3
<1>10. \A i \in DOMAIN ws : Len(q) + i \in DOMAIN jobs' /\ jobs'[Len(q) + i].gen = ws[i]
  <2>1. \A i \in DOMAIN ws : Len(q) + i \in DOMAIN jobs'
    BY <1>1, <1>3
  <2> QED
    BY <1>1, <1>2, <2>1
<1> SUFFICES ASSUME NEW w \in Generators
             PROVE  /\ IsDue(w)' <=> WaitedFor(g, r, w) \/ Stays(q, w)
                    /\ Waits(w)' <=> Waits(w) /\ ~WaitedFor(g, r, w)
                    /\ WaitedFor(g, r, w) => Waits(w)
                    /\ DueOnce(w)' /\ WaitsOnce(w)'
  BY <1>2, <1>4
<1>11. OnceEach(w) /\ OneKind(w)
  BY DEF Placed
<1>12. \A h \in Generators, x \in Requests : \A i \in DOMAIN waiters[h][x] :
         Waits1(w, h, x, i)' <=> Waits1(w, h, x, i) /\ ~(h = g /\ x = r)
  BY <1>5 DEF Waits1
<1>13. WaitedFor(g, r, w) => Waits(w)
  BY <1>7 DEF WaitedFor, Waits
<1>14. IsDue(w)' <=> WaitedFor(g, r, w) \/ Stays(q, w)
  <2>1. IsDue(w)' <=> \E i \in DOMAIN jobs' : jobs'[i].gen = w
    BY DEF IsDue, Due1
  <2>2. ASSUME NEW i \in 1..Len(q), q[i].gen = w PROVE IsDue(w)'
    BY <1>2, <1>9, <2>1, <2>2
  <2>3. ASSUME NEW i \in DOMAIN ws, ws[i] = w PROVE IsDue(w)'
    BY <1>10, <2>1, <2>3
  <2>4. ASSUME NEW i \in DOMAIN jobs', jobs'[i].gen = w
        PROVE  WaitedFor(g, r, w) \/ \E k \in 1..Len(q) : q[k].gen = w
    BY <1>2, <1>8, <2>4 DEF WaitedFor
  <2> QED
    BY <2>1, <2>2, <2>3, <2>4 DEF WaitedFor, Stays
<1>15. Waits(w)' <=> Waits(w) /\ ~WaitedFor(g, r, w)
  <2>1. ASSUME Waits(w)' PROVE Waits(w) /\ ~WaitedFor(g, r, w)
    BY <2>1, <1>7, <1>11, <1>12 DEF Waits, WaitedFor, OnceEach, WaitsOnce
  <2>2. ASSUME Waits(w), ~WaitedFor(g, r, w) PROVE Waits(w)'
    BY <2>2, <1>12 DEF Waits, WaitedFor, Waits1
  <2> QED
    BY <2>1, <2>2
<1>19. \A k \in 1..Len(q), l \in DOMAIN ws : q[k].gen = w => ws[l] # w
  BY <1>0, <1>7, <1>11 DEF OneKind, Waits
<1>16. ASSUME NEW i \in DOMAIN jobs', NEW j \in DOMAIN jobs', jobs'[i].gen = w, jobs'[j].gen = w PROVE i = j
  <2>1. CASE i \in 1..Len(q) /\ j \in 1..Len(q)
    BY <1>0, <1>2, <1>16, <2>1
  <2>2. CASE i \notin 1..Len(q) /\ j \notin 1..Len(q)
    <3>1. i - Len(q) \in DOMAIN ws /\ j - Len(q) \in DOMAIN ws /\ ws[i - Len(q)] = w /\ ws[j - Len(q)] = w
      BY <1>8, <1>16, <2>2
    <3>2. i - Len(q) = j - Len(q)
      BY <1>7, <1>11, <3>1 DEF OnceEach, DueOnce, WaitsOnce
    <3> QED
      BY <1>1, <1>3, <3>2
  <2>3. CASE i \in 1..Len(q) /\ j \notin 1..Len(q)
    <3>1. q[i].gen = w /\ j - Len(q) \in DOMAIN ws /\ ws[j - Len(q)] = w
      BY <1>2, <1>8, <1>16, <2>3
    <3> QED
      BY <1>19, <2>3, <3>1
  <2>4. CASE i \notin 1..Len(q) /\ j \in 1..Len(q)
    <3>1. q[j].gen = w /\ i - Len(q) \in DOMAIN ws /\ ws[i - Len(q)] = w
      BY <1>2, <1>8, <1>16, <2>4
    <3> QED
      BY <1>19, <2>4, <3>1
  <2> QED
    BY <2>1, <2>2, <2>3, <2>4
<1>17. DueOnce(w)'
  BY <1>16 DEF DueOnce, Due1
<1>18. WaitsOnce(w)'
  BY <1>11, <1>12 DEF OnceEach, WaitsOnce
<1> QED
  BY <1>13, <1>14, <1>15, <1>17, <1>18
-----------------------------------------------------------------------------
(* What holds before a request is taken, and before the body goes on.        *)

LEMMA TakeFacts ==
  ASSUME IInv, NEW g \in Generators, Take(g)
  PROVE  /\ current[g] = 0 /\ stack # << >> /\ Head(stack) = Entry(g, "pump")
         /\ Request(g) \in Requests /\ Request(g) = Len(answers[g]) + 1 /\ Request(g) \in DOMAIN asked[g]
         /\ requests' \in [Generators -> Seq(Requests)]
         /\ \A h \in Generators : h # g => requests'[h] = requests[h]
         /\ Len(requests'[g]) = Len(requests[g]) - 1 /\ Len(requests[g]) \in Nat
         /\ \A i \in DOMAIN requests'[g] : requests'[g][i] = Len(answers[g]) + 1 + i
<1>1. /\ current[g] = 0 /\ requests[g] # << >> /\ requests[g] \in Seq(Requests)
      /\ answers[g] \in Seq([req : Requests, res : Queue!Results]) /\ asked[g] \in Seq(Kinds)
      /\ stack # << >> /\ Head(stack) = Entry(g, "pump")
      /\ requests' = [requests EXCEPT ![g] = Tail(@)]
  BY DEF IInv, TypeOK, Take, Serves, Top
<1>2. /\ Len(requests[g]) \in Nat \ {0} /\ DOMAIN requests[g] = 1..Len(requests[g])
      /\ Len(answers[g]) \in Nat /\ DOMAIN asked[g] = 1..Len(asked[g]) /\ Len(asked[g]) \in Nat
  BY <1>1, LenProperties, EmptySeq
<1>3. /\ Len(asked[g]) = Len(answers[g]) + Len(requests[g])
      /\ \A i \in DOMAIN requests[g] : requests[g][i] = Len(answers[g]) + i
  <2>1. /\ Len(asked[g]) = Served(g) + Len(requests[g])
        /\ \A i \in DOMAIN requests[g] : requests[g][i] = Served(g) + i
    BY DEF IInv, QueueExact
  <2>2. Served(g) = Len(answers[g])
    BY <1>1, <1>2 DEF Served
  <2> QED
    BY <2>1, <2>2
<1>4. Request(g) = requests[g][1] /\ 1 \in DOMAIN requests[g] /\ Request(g) \in Requests
  BY <1>1, <1>2, HeadTailProperties DEF Request
<1>5. Request(g) = Len(answers[g]) + 1 /\ Request(g) \in DOMAIN asked[g]
  <2>1. Request(g) = Len(answers[g]) + 1
    BY <1>3, <1>4
  <2> DEFINE n == Len(answers[g])
             m == Len(requests[g])
             k == Len(asked[g])
  <2>2. n \in Nat /\ m \in Nat \ {0} /\ k = n + m /\ DOMAIN asked[g] = 1..k
    BY <1>2, <1>3
  <2> HIDE DEF n, m, k
  <2>3. n + 1 \in 1..k
    BY <2>2
  <2> QED
    BY <2>1, <2>2, <2>3 DEF n
<1>6. /\ Tail(requests[g]) \in Seq(Requests) /\ Len(Tail(requests[g])) = Len(requests[g]) - 1
      /\ \A i \in 1..Len(Tail(requests[g])) : Tail(requests[g])[i] = requests[g][i + 1]
  BY <1>1, HeadTailProperties
<1>7. /\ requests' \in [Generators -> Seq(Requests)] /\ requests'[g] = Tail(requests[g])
      /\ \A h \in Generators : h # g => requests'[h] = requests[h]
  BY <1>1, <1>6 DEF IInv, TypeOK
<1>8. DOMAIN requests'[g] = 1..Len(requests[g]) - 1
  BY <1>2, <1>6, <1>7, LenProperties
<1>9. \A i \in DOMAIN requests'[g] : i + 1 \in DOMAIN requests[g] /\ requests'[g][i] = requests[g][i + 1]
  BY <1>2, <1>6, <1>7, <1>8
<1>10. ASSUME NEW i \in DOMAIN requests'[g] PROVE requests'[g][i] = Len(answers[g]) + 1 + i
  <2>1. requests'[g][i] = Len(answers[g]) + (i + 1) /\ i \in Nat
    BY <1>2, <1>3, <1>8, <1>9
  <2> DEFINE n == Len(answers[g])
  <2>2. n \in Nat
    BY <1>2
  <2> HIDE DEF n
  <2>3. n + (i + 1) = n + 1 + i
    BY <2>1, <2>2
  <2> QED
    BY <2>1, <2>3 DEF n
<1> QED
  BY <1>1, <1>2, <1>4, <1>5, <1>6, <1>7, <1>10

LEMMA BodyFacts ==
  ASSUME IInv, NEW g \in Generators, OnStack(g) \/ IsDue(g)
  PROVE  /\ current[g] \in Requests /\ current[g] # 0 /\ current[g] = Len(answers[g]) + 1
         /\ current[g] \in DOMAIN asked[g] /\ state[g] = "executing"
<1>1. /\ current[g] # 0 /\ current[g] \in Requests /\ state[g] = "executing"
      /\ answers[g] \in Seq([req : Requests, res : Queue!Results])
      /\ asked[g] \in Seq(Kinds) /\ requests[g] \in Seq(Requests)
  BY DEF IInv, TypeOK, Placed, OneKind, StatesAgree
<1>2. /\ Len(answers[g]) \in Nat /\ Len(requests[g]) \in Nat
      /\ DOMAIN asked[g] = 1..Len(asked[g])
  BY <1>1, LenProperties
<1>3. current[g] = Len(answers[g]) + 1 /\ Len(asked[g]) = Len(answers[g]) + 1 + Len(requests[g])
  BY <1>1 DEF IInv, QueueExact, Served
<1>4. current[g] \in DOMAIN asked[g]
  <2> DEFINE n == Len(answers[g])
             m == Len(requests[g])
             k == Len(asked[g])
  <2>1. n \in Nat /\ m \in Nat /\ k = n + 1 + m /\ DOMAIN asked[g] = 1..k /\ current[g] = n + 1
    BY <1>2, <1>3
  <2> HIDE DEF n, m, k
  <2>2. n + 1 \in 1..k
    BY <2>1
  <2> QED
    BY <2>1, <2>2
<1> QED
  BY <1>1, <1>3, <1>4
\* Answer, when all jobs stay.
LEMMA AnswerJobs ==
  ASSUME IInv, NEW g \in Generators, NEW r \in Requests, r = Len(answers[g]) + 1,
         NEW res \in Queue!Results, Answer(g, r, res), waiters' = waiters
  PROVE  /\ answers' \in [Generators -> Seq([req : Requests, res : Queue!Results])]
         /\ jobs' \in Seq(JobSet)
         /\ \A w \in Generators :
              /\ DueOnce(w)' /\ WaitsOnce(w)'
              /\ IsDue(w) \/ Waits(w) <=> (IsDue(w) \/ Waits(w))'
              /\ IsDue(w)' => ~Waits(w)'
<1> DEFINE t == res = "rejected"
<1>1. TypeOK /\ Placed /\ jobs \in Seq(JobSet) /\ t \in BOOLEAN
  BY DEF IInv, TypeOK, JobSet
<1>2. DOMAIN jobs = 1..Len(jobs)
  BY <1>1, LenProperties
<1>3. \A i \in 1..Len(jobs) : IsDue(jobs[i].gen)
  BY <1>2 DEF IsDue, Due1
<1>4. \A i, j \in 1..Len(jobs) : jobs[i].gen = jobs[j].gen => i = j
  <2>1. \A i \in 1..Len(jobs) : jobs[i] \in JobSet
    BY <1>1, ElementOfSeq
  <2>2. \A i \in 1..Len(jobs) : jobs[i].gen \in Generators
    BY <2>1 DEF JobSet
  <2>3. \A w \in Generators : \A i, j \in DOMAIN jobs : jobs[i].gen = w /\ jobs[j].gen = w => i = j
    BY <1>1 DEF Placed, OnceEach, DueOnce, Due1
  <2> QED
    BY <1>2, <2>2, <2>3
<1>5. /\ answers' = [answers EXCEPT ![g] = Append(@, [req |-> r, res |-> res])]
      /\ jobs' = jobs \o Reactions(waiters[g][r], t)
  BY DEF Answer
<1>6. Stay(jobs)
  BY <1>1, <1>3, <1>4 DEF Stay
<1> HIDE DEF t
<1>7. /\ answers' \in [Generators -> Seq([req : Requests, res : Queue!Results])]
      /\ jobs' \in Seq(JobSet)
      /\ \A w \in Generators :
           /\ IsDue(w)' <=> WaitedFor(g, r, w) \/ Stays(jobs, w)
           /\ Waits(w)' <=> Waits(w) /\ ~WaitedFor(g, r, w)
           /\ WaitedFor(g, r, w) => Waits(w)
           /\ DueOnce(w)' /\ WaitsOnce(w)'
  BY <1>1, <1>5, <1>6, AnswerMoves
<1>8. \A w \in Generators : IsDue(w) <=> Stays(jobs, w)
  BY <1>2 DEF IsDue, Due1, Stays
<1>9. \A w \in Generators : IsDue(w) => ~Waits(w)
  BY <1>1 DEF Placed, OneKind
<1> QED
  BY <1>7, <1>8, <1>9

\* What a step leaves alone.
LEMMA SameJobs ==
  ASSUME jobs' = jobs PROVE \A w : (IsDue(w)' <=> IsDue(w)) /\ (DueOnce(w)' <=> DueOnce(w))
BY DEF IsDue, DueOnce, Due1

LEMMA SameWaits ==
  ASSUME waiters' = waiters, answers' = answers
  PROVE  \A w : (Waits(w)' <=> Waits(w)) /\ (WaitsOnce(w)' <=> WaitsOnce(w))
BY DEF Waits, WaitsOnce, Waits1

LEMMA SameStack ==
  ASSUME stack' = stack PROVE \A e : (InStack(e)' <=> InStack(e)) /\ (Once(e)' <=> Once(e))
BY DEF InStack, Once

LEMMA NewStack ==
  ASSUME stack = << >>, NEW e \in EntrySet, stack' = <<e>>
  PROVE  stack' \in Seq(EntrySet) /\ \A f : ~InStack(f) /\ (InStack(f)' <=> f = e) /\ Once(f)'
<1>1. stack' \in Seq(EntrySet) /\ Len(stack') = 1 /\ stack'[1] = e
  OBVIOUS
<1>2. DOMAIN stack' = {1} /\ DOMAIN stack = {}
  OBVIOUS
<1> QED
  BY <1>1, <1>2 DEF InStack, Once

LEMMA Entries ==
  /\ \A g \in Generators : Entry(g, "pump") \in EntrySet /\ Entry(g, "body") \in EntrySet
  /\ \A g, h : Entry(g, "pump") # Entry(h, "body")
  /\ \A g, h : Entry(g, "pump") = Entry(h, "pump") => g = h
  /\ \A g, h : Entry(g, "body") = Entry(h, "body") => g = h
BY DEF Entry, EntrySet

LEMMA Types ==
  ASSUME TypeOK PROVE jobs \in Seq(JobSet) /\ stack \in Seq(EntrySet)
BY DEF TypeOK, JobSet, EntrySet

\* The job at the head goes, the others stay.
LEMMA TailJobs ==
  ASSUME TypeOK, Placed, jobs # << >>, NEW g \in Generators, Head(jobs).gen = g
  PROVE  /\ IsDue(g) /\ Stay(Tail(jobs))
         /\ \A w : Stays(Tail(jobs), w) <=> IsDue(w) /\ w # g
<1> DEFINE q == Tail(jobs)
<1>1. jobs \in Seq(JobSet)
  BY Types
<1>2. /\ Len(jobs) \in Nat \ {0} /\ DOMAIN jobs = 1..Len(jobs)
      /\ Head(jobs) = jobs[1] /\ \A i \in 1..Len(jobs) : jobs[i] \in JobSet
  BY <1>1, LenProperties, EmptySeq, HeadTailProperties, ElementOfSeq
<1>3. /\ q \in Seq(JobSet) /\ Len(q) = Len(jobs) - 1
      /\ \A i \in 1..Len(q) : q[i] = jobs[i + 1]
  BY <1>1, HeadTailProperties
<1> HIDE DEF q
<1>4. \A i \in 1..Len(q) : i + 1 \in DOMAIN jobs /\ i + 1 # 1 /\ q[i] = jobs[i + 1]
  BY <1>2, <1>3
<1>5. \A i \in DOMAIN jobs : i # 1 => i - 1 \in 1..Len(q) /\ q[i - 1] = jobs[i]
  BY <1>2, <1>3
<1>6. 1 \in DOMAIN jobs /\ jobs[1].gen = g
  BY <1>2
<1>7. \A i, j \in DOMAIN jobs : jobs[i].gen = jobs[j].gen => i = j
  <2>1. \A i \in DOMAIN jobs : jobs[i].gen \in Generators
    BY <1>2 DEF JobSet
  <2> QED
    BY <2>1 DEF Placed, OnceEach, DueOnce, Due1
<1>8. \A w : IsDue(w) <=> \E i \in DOMAIN jobs : jobs[i].gen = w
  BY DEF IsDue, Due1
<1>9. \A i \in 1..Len(q) : IsDue(q[i].gen) /\ q[i].gen # g
  BY <1>4, <1>6, <1>7, <1>8
<1>10. ASSUME NEW i \in 1..Len(q), NEW j \in 1..Len(q), q[i].gen = q[j].gen PROVE i = j
  <2>1. i + 1 = j + 1
    BY <1>4, <1>7, <1>10
  <2> QED
    BY <2>1
<1>11. Stay(q)
  BY <1>3, <1>9, <1>10 DEF Stay
<1>12. ASSUME NEW w PROVE Stays(q, w) <=> IsDue(w) /\ w # g
  <2>1. Stays(q, w) => IsDue(w) /\ w # g
    BY <1>9 DEF Stays
  <2>2. IsDue(w) /\ w # g => Stays(q, w)
    BY <1>5, <1>6, <1>8 DEF Stays
  <2> QED
    BY <2>1, <2>2
<1> QED
  BY <1>6, <1>8, <1>11, <1>12 DEF q

\* The jobs that stay, and no other.
LEMMA StayJobs ==
  ASSUME NEW q, Stay(q), jobs' = q
  PROVE  jobs' \in Seq(JobSet) /\ \A w : (IsDue(w)' <=> Stays(q, w)) /\ DueOnce(w)'
<1>1. q \in Seq(JobSet) /\ DOMAIN q = 1..Len(q)
  BY LenProperties DEF Stay
<1>2. \A i, j \in 1..Len(q) : q[i].gen = q[j].gen => i = j
  BY DEF Stay
<1>3. \A w : IsDue(w)' <=> Stays(q, w)
  BY <1>1 DEF IsDue, Due1, Stays
<1>4. \A w : DueOnce(w)'
  BY <1>1, <1>2 DEF DueOnce, Due1
<1> QED
  BY <1>1, <1>3, <1>4

\* One job more.
LEMMA AppendJob ==
  ASSUME jobs \in Seq(JobSet), NEW g \in Generators, NEW t \in BOOLEAN,
         jobs' = Append(jobs, [gen |-> g, throw |-> t]), ~IsDue(g)
  PROVE  /\ jobs' \in Seq(JobSet)
         /\ \A w : IsDue(w)' <=> IsDue(w) \/ w = g
         /\ \A w : DueOnce(w) => DueOnce(w)'
<1> DEFINE e == [gen |-> g, throw |-> t]
<1>1. e \in JobSet /\ e.gen = g
  BY DEF JobSet
<1> HIDE DEF e
<1>2. Len(jobs) \in Nat /\ DOMAIN jobs = 1..Len(jobs)
  BY LenProperties
<1>3. /\ jobs' \in Seq(JobSet) /\ Len(jobs') = Len(jobs) + 1
      /\ \A i \in 1..Len(jobs) : jobs'[i] = jobs[i]
      /\ jobs'[Len(jobs) + 1] = e
  BY <1>1, AppendProperties DEF e
<1>4. DOMAIN jobs' = 1..Len(jobs) + 1
  BY <1>3, LenProperties
<1>5. \A i \in DOMAIN jobs : i \in DOMAIN jobs' /\ jobs'[i] = jobs[i]
  BY <1>2, <1>3, <1>4
<1>6. \A i \in DOMAIN jobs' : i \in DOMAIN jobs \/ (i = Len(jobs) + 1 /\ jobs'[i].gen = g)
  BY <1>1, <1>2, <1>3, <1>4
<1>7. Len(jobs) + 1 \in DOMAIN jobs' /\ jobs'[Len(jobs) + 1].gen = g
  BY <1>1, <1>2, <1>3, <1>4
<1>8. ASSUME NEW w PROVE IsDue(w)' <=> IsDue(w) \/ w = g
  BY <1>5, <1>6, <1>7 DEF IsDue, Due1
<1>9. ASSUME NEW w, DueOnce(w) PROVE DueOnce(w)'
  BY <1>5, <1>6, <1>9 DEF IsDue, DueOnce, Due1
<1> QED
  BY <1>3, <1>8, <1>9

\* One waiter more.
LEMMA AppendWaiter ==
  ASSUME TypeOK, NEW g \in Generators, NEW h \in Generators, NEW r \in Requests,
         r \notin DOMAIN answers[h], answers' = answers, ~Waits(g),
         waiters' = [waiters EXCEPT ![h][r] = Append(@, g)]
  PROVE  /\ waiters' \in [Generators -> [Requests -> Seq(Generators)]]
         /\ \A w : Waits(w)' <=> Waits(w) \/ w = g
         /\ \A w : WaitsOnce(w) => WaitsOnce(w)'
<1> DEFINE n == Len(waiters[h][r])
<1>1. waiters[h][r] \in Seq(Generators) /\ waiters[h] \in [Requests -> Seq(Generators)]
  BY DEF TypeOK
<1>2. n \in Nat /\ DOMAIN waiters[h][r] = 1..n
  BY <1>1, LenProperties
<1>3. waiters' \in [Generators -> [Requests -> Seq(Generators)]]
  BY <1>1, AppendProperties DEF TypeOK
<1>4. waiters'[h][r] = Append(waiters[h][r], g)
  BY <1>1 DEF TypeOK
<1>5. \A k \in Generators, s \in Requests : k # h \/ s # r => waiters'[k][s] = waiters[k][s]
  BY <1>1 DEF TypeOK
<1>6. /\ Len(waiters'[h][r]) = n + 1 /\ waiters'[h][r][n + 1] = g
      /\ \A i \in 1..n : waiters'[h][r][i] = waiters[h][r][i]
  BY <1>1, <1>4, AppendProperties
<1>7. DOMAIN waiters'[h][r] = 1..n + 1
  <2>1. waiters'[h][r] \in Seq(Generators)
    BY <1>3
  <2> QED
    BY <1>6, <2>1, LenProperties
<1> HIDE DEF n
<1>8. \A i \in DOMAIN waiters[h][r] : i \in DOMAIN waiters'[h][r] /\ waiters'[h][r][i] = waiters[h][r][i]
  BY <1>2, <1>6, <1>7
<1>9. \A i \in DOMAIN waiters'[h][r] : i \in DOMAIN waiters[h][r] \/ (i = n + 1 /\ waiters'[h][r][i] = g)
  BY <1>2, <1>6, <1>7
<1>10. n + 1 \in DOMAIN waiters'[h][r] /\ waiters'[h][r][n + 1] = g
  BY <1>2, <1>6, <1>7
<1>11. \A w, k, s, i : Waits1(w, k, s, i) => Waits1(w, k, s, i)'
  BY <1>5, <1>8 DEF Waits1
<1>12. \A w, k, s, i : Waits1(w, k, s, i)' => Waits1(w, k, s, i) \/ (w = g /\ k = h /\ s = r /\ i = n + 1)
  BY <1>5, <1>8, <1>9 DEF Waits1
<1>13. \A i : i = n + 1 => Waits1(g, h, r, i)'
  <2>1. r \notin DOMAIN answers'[h]
    OBVIOUS
  <2> QED
    BY ONLY <1>10, <2>1, h \in Generators, r \in Requests DEF Waits1
<1>14. \A w : Waits(w) <=> \E k, s, i : Waits1(w, k, s, i)
  BY DEF Waits, Waits1
<1>15. \A w : Waits(w)' <=> \E k, s, i : Waits1(w, k, s, i)'
  BY DEF Waits, Waits1
<1>16. ASSUME NEW w PROVE Waits(w)' <=> Waits(w) \/ w = g
  <2>1. Waits(w)' => Waits(w) \/ w = g
    BY <1>12, <1>14, <1>15
  <2>2. Waits(w) => Waits(w)'
    BY <1>11, <1>14, <1>15
  <2>3. w = g => Waits(w)'
    BY <1>13, <1>15
  <2> QED
    BY <2>1, <2>2, <2>3
<1>17. ASSUME NEW w, WaitsOnce(w) PROVE WaitsOnce(w)'
  <2> SUFFICES ASSUME NEW k \in Generators, NEW l \in Generators, NEW s \in Requests, NEW u \in Requests,
                      NEW i, NEW j, Waits1(w, k, s, i)', Waits1(w, l, u, j)'
               PROVE  k = l /\ s = u /\ i = j
    BY DEF WaitsOnce
  <2>1. CASE w = g
    BY <1>12, <1>14, <2>1
  <2>2. CASE w # g
    <3>1. Waits1(w, k, s, i) /\ Waits1(w, l, u, j)
      BY <1>12, <2>2
    <3>2. i \in DOMAIN waiters[k][s] /\ j \in DOMAIN waiters[l][u]
      BY <3>1 DEF Waits1
    <3> QED
      BY <1>17, <3>1, <3>2 DEF WaitsOnce
  <2> QED
    BY <2>1, <2>2
<1> QED
  BY <1>3, <1>16, <1>17

-----------------------------------------------------------------------------
(* The queue and the answers                                                 *)

QueueOf(g) ==
  /\ current[g] # 0 => current[g] = Served(g)
  /\ Len(asked[g]) = Served(g) + Len(requests[g])
  /\ \A i \in DOMAIN requests[g] : requests[g][i] = Served(g) + i
  /\ current[g] = 0 /\ requests[g] # << >> => InStack(Entry(g, "pump"))

LEMMA QueueParts == QueueExact <=> \A g \in Generators : QueueOf(g)
BY DEF QueueExact, QueueOf, InStack

\* A generator of which nothing changes but what is on the stack.
LEMMA QueueSame ==
  ASSUME NEW g \in Generators, QueueOf(g),
         asked'[g] = asked[g], answers'[g] = answers[g], requests'[g] = requests[g], current'[g] = current[g],
         InStack(Entry(g, "pump")) => InStack(Entry(g, "pump"))' \/ current[g] # 0 \/ requests[g] = << >>
  PROVE  QueueOf(g)'
BY DEF QueueOf, Served

\* An answer given to the request in service.
LEMMA AnswerGrows ==
  ASSUME TypeOK, NEW g \in Generators, NEW r \in Requests, r = Len(answers[g]) + 1,
         NEW res \in Queue!Results,
         answers' = [answers EXCEPT ![g] = Append(@, [req |-> r, res |-> res])]
  PROVE  /\ \A h \in Generators : h # g => answers'[h] = answers[h]
         /\ Len(answers[g]) \in Nat /\ Len(answers'[g]) = Len(answers[g]) + 1
         /\ Queue!Over(answers'[g]) <=> Queue!Over(answers[g]) \/ res # "yield"
<1> DEFINE n == Len(answers[g])
<1>1. answers[g] \in Seq([req : Requests, res : Queue!Results])
  BY DEF TypeOK
<1>2. n \in Nat /\ DOMAIN answers[g] = 1..n
  BY <1>1, LenProperties
<1>3. answers'[g] = Append(answers[g], [req |-> r, res |-> res])
  BY DEF TypeOK
<1>4. /\ answers'[g] \in Seq([req : Requests, res : Queue!Results])
      /\ Len(answers'[g]) = n + 1 /\ answers'[g][n + 1] = [req |-> r, res |-> res]
      /\ \A i \in 1..n : answers'[g][i] = answers[g][i]
  <2> DEFINE e == [req |-> r, res |-> res]
             A == [req : Requests, res : Queue!Results]
  <2>1. e \in A
    OBVIOUS
  <2> HIDE DEF e, A
  <2>2. \A a \in Seq(A) : /\ Append(a, e) \in Seq(A) /\ Len(Append(a, e)) = Len(a) + 1
                          /\ Append(a, e)[Len(a) + 1] = e
                          /\ \A i \in 1..Len(a) : Append(a, e)[i] = a[i]
    BY <2>1, AppendProperties
  <2>3. answers[g] \in Seq(A) /\ answers'[g] = Append(answers[g], e)
    BY <1>1, <1>3 DEF e, A
  <2>4. /\ answers'[g] \in Seq(A)
        /\ Len(answers'[g]) = n + 1 /\ answers'[g][n + 1] = e
        /\ \A i \in 1..n : answers'[g][i] = answers[g][i]
    BY <2>2, <2>3
  <2> QED
    BY <2>4 DEF e, A
<1>5. DOMAIN answers'[g] = 1..n + 1
  BY <1>4, LenProperties
<1>6. \A h \in Generators : h # g => answers'[h] = answers[h]
  BY DEF TypeOK
<1> HIDE DEF n
<1>7. \A i \in DOMAIN answers[g] : i \in DOMAIN answers'[g] /\ answers'[g][i].res = answers[g][i].res
  BY <1>2, <1>4, <1>5
<1>8. \A i \in DOMAIN answers'[g] : i \in DOMAIN answers[g] \/ answers'[g][i].res = res
  BY <1>2, <1>4, <1>5
<1>9. \E i \in DOMAIN answers'[g] : answers'[g][i].res = res
  BY <1>2, <1>4, <1>5
<1>10. Queue!Over(answers'[g]) <=> Queue!Over(answers[g]) \/ res # "yield"
  <2>1. \A s : Queue!Over(s) <=> \E i \in DOMAIN s : s[i].res # "yield"
    BY DEF Queue!Over
  <2>2. Queue!Over(answers'[g]) <=> \E i \in DOMAIN answers'[g] : answers'[g][i].res # "yield"
    BY <2>1
  <2>3. Queue!Over(answers[g]) <=> \E i \in DOMAIN answers[g] : answers[g][i].res # "yield"
    BY <2>1
  <2>4. Queue!Over(answers'[g]) => Queue!Over(answers[g]) \/ res # "yield"
    BY <1>7, <1>8, <2>2, <2>3
  <2>5. Queue!Over(answers[g]) => Queue!Over(answers'[g])
    BY <1>7, <2>2, <2>3
  <2>6. res # "yield" => Queue!Over(answers'[g])
    BY <1>9, <2>2
  <2> QED
    BY <2>4, <2>5, <2>6
<1> QED
  BY <1>2, <1>4, <1>6, <1>10 DEF n

\* A request answered without the body: off the queue, into the answers.
LEMMA QueueTaken ==
  ASSUME IInv, NEW g \in Generators, Take(g), NEW res \in Queue!Results,
         answers' = [answers EXCEPT ![g] = Append(@, [req |-> Request(g), res |-> res])],
         asked' = asked, current' = current, stack' = stack
  PROVE  QueueExact'
<1> SUFFICES ASSUME NEW h \in Generators PROVE QueueOf(h)'
  BY QueueParts DEF QueueExact, QueueOf, InStack
<1>1. QueueOf(h) /\ QueueOf(g)
  BY QueueParts DEF IInv
<1>2. /\ \A k \in Generators : k # g => answers'[k] = answers[k]
      /\ Len(answers[g]) \in Nat /\ Len(answers'[g]) = Len(answers[g]) + 1
  BY TakeFacts, AnswerGrows DEF IInv
<1>3. /\ current[g] = 0 /\ stack # << >> /\ Head(stack) = Entry(g, "pump")
      /\ \A k \in Generators : k # g => requests'[k] = requests[k]
      /\ Len(requests'[g]) = Len(requests[g]) - 1 /\ Len(requests[g]) \in Nat
      /\ \A i \in DOMAIN requests'[g] : requests'[g][i] = Len(answers[g]) + 1 + i
  BY TakeFacts
<1>4. CASE h # g
  BY <1>1, <1>2, <1>3, <1>4, QueueSame, SameStack
<1>5. CASE h = g
  <2> DEFINE n == Len(answers[g])
             m == Len(requests[g])
             k == Len(asked[g])
  <2>1. n \in Nat /\ m \in Nat /\ Served(g) = n /\ k = n + m
    BY <1>1, <1>2, <1>3 DEF QueueOf, Served
  <2>2. Served(g)' = n + 1 /\ Len(requests'[g]) = m - 1 /\ asked'[g] = asked[g] /\ current'[g] = 0
    BY <1>2, <1>3, <2>1 DEF Served
  <2>3. InStack(Entry(g, "pump"))'
    <3>1. stack[1] = Entry(g, "pump") /\ 1 \in DOMAIN stack
      BY <1>3, Types, EmptySeq, LenProperties, HeadTailProperties DEF IInv
    <3> QED
      BY <3>1 DEF InStack
  <2>4. Len(asked'[g]) = k
    BY <2>2
  <2> HIDE DEF n, m, k
  <2>5. Len(asked'[g]) = Served(g)' + Len(requests'[g])
    BY <2>1, <2>2, <2>4
  <2>6. \A i \in DOMAIN requests'[g] : requests'[g][i] = Served(g)' + i
    BY <1>3, <2>2 DEF n
  <2> QED
    BY <1>5, <2>2, <2>3, <2>5, <2>6 DEF QueueOf
<1> QED
  BY <1>4, <1>5

\* The request in service answered.
LEMMA QueueServed ==
  ASSUME IInv, NEW g \in Generators, OnStack(g) \/ IsDue(g), NEW res \in Queue!Results,
         answers' = [answers EXCEPT ![g] = Append(@, [req |-> current[g], res |-> res])],
         current' = [current EXCEPT ![g] = 0], asked' = asked, requests' = requests,
         InStack(Entry(g, "pump"))',
         \A h \in Generators : h # g => (InStack(Entry(h, "pump")) => InStack(Entry(h, "pump"))')
  PROVE  QueueExact'
<1> SUFFICES ASSUME NEW h \in Generators PROVE QueueOf(h)'
  BY QueueParts DEF QueueExact, QueueOf, InStack
<1>1. QueueOf(h) /\ QueueOf(g)
  BY QueueParts DEF IInv
<1>2. current[g] \in Requests /\ current[g] # 0 /\ current[g] = Len(answers[g]) + 1
  BY BodyFacts
<1>3. /\ \A k \in Generators : k # g => answers'[k] = answers[k]
      /\ Len(answers[g]) \in Nat /\ Len(answers'[g]) = Len(answers[g]) + 1
  BY <1>2, AnswerGrows DEF IInv
<1>4. current'[g] = 0 /\ \A k \in Generators : k # g => current'[k] = current[k]
  BY DEF IInv, TypeOK
<1>5. CASE h # g
  BY <1>1, <1>3, <1>4, <1>5, QueueSame
<1>6. CASE h = g
  <2>1. Served(g)' = Len(answers[g]) + 1 + 0 /\ Served(g) = Len(answers[g]) + 1
    BY <1>2, <1>3, <1>4 DEF Served
  <2>2. Served(g)' = Served(g)
    BY <1>3, <2>1
  <2> QED
    BY <1>1, <1>4, <1>6, <2>2 DEF QueueOf
<1> QED
  BY <1>5, <1>6

-----------------------------------------------------------------------------
(* The steps                                                                 *)

\* The head of the stack is on it.
LEMMA HeadInStack ==
  ASSUME stack \in Seq(EntrySet), stack # << >> PROVE InStack(Head(stack))
BY EmptySeq, LenProperties, HeadTailProperties DEF InStack

LEMMA AskKeeps ==
  ASSUME IInv, NEW g \in Generators, NEW kind \in Kinds, Ask(g, kind) PROVE IInv'
<1> DEFINE e == Entry(g, "pump")
<1>1. /\ stack \in Seq(EntrySet) /\ e \in EntrySet /\ stack' = <<e>> \o stack
      /\ asked' = [asked EXCEPT ![g] = Append(@, kind)] /\ Len(asked[g]) < MaxAsked
      /\ requests' = [requests EXCEPT ![g] = Append(@, Len(asked[g]) + 1)]
      /\ asked[g] \in Seq(Kinds) /\ requests[g] \in Seq(Requests)
      /\ UNCHANGED <<answers, current, state, hasState, awaits, outside, waiters, jobs>>
  BY Types, Entries DEF IInv, TypeOK, Ask, awaitVars
<1>2. /\ stack' \in Seq(EntrySet)
      /\ \A f : InStack(f)' <=> f = e \/ InStack(f)
      /\ \A f : Once(f) /\ (f # e \/ ~InStack(f)) => Once(f)'
  BY <1>1, PushStack
<1> DEFINE k == Len(asked[g])
           m == Len(requests[g])
<1>3. /\ k \in Nat /\ DOMAIN asked[g] = 1..k /\ k + 1 \in Requests /\ k + 1 <= MaxAsked
      /\ m \in Nat /\ DOMAIN requests[g] = 1..m
  BY <1>1, LenProperties, BoundsAssumption DEF Requests
<1>4. /\ Append(asked[g], kind) \in Seq(Kinds) /\ Len(Append(asked[g], kind)) = k + 1
      /\ Append(requests[g], k + 1) \in Seq(Requests) /\ Len(Append(requests[g], k + 1)) = m + 1
      /\ Append(requests[g], k + 1)[m + 1] = k + 1
      /\ \A i \in 1..m : Append(requests[g], k + 1)[i] = requests[g][i]
  BY <1>1, <1>3, AppendProperties
<1>5. /\ asked'[g] = Append(asked[g], kind) /\ requests'[g] = Append(requests[g], k + 1)
      /\ \A h \in Generators : h # g => asked'[h] = asked[h] /\ requests'[h] = requests[h]
      /\ asked' \in [Generators -> Seq(Kinds)] /\ requests' \in [Generators -> Seq(Requests)]
  BY <1>1, <1>4 DEF IInv, TypeOK
<1>6. DOMAIN requests'[g] = 1..m + 1
  BY <1>4, <1>5, LenProperties
<1>7. \A h \in Generators : QueueOf(h)
  BY QueueParts DEF IInv
<1>8. TypeOK'
  <2>1. \A h \in Generators : Len(asked'[h]) <= MaxAsked
    BY <1>3, <1>4, <1>5 DEF IInv, TypeOK
  <2> QED
    BY <1>1, <1>2, <1>5, <2>1 DEF IInv, TypeOK, EntrySet
<1>9. Placed'
  <2> SUFFICES ASSUME NEW w \in Generators PROVE OnceEach(w)' /\ OneKind(w)'
    BY DEF Placed
  <2>1. OnceEach(w) /\ OneKind(w)
    BY DEF IInv, Placed
  <2>2. (OnStack(w)' <=> OnStack(w)) /\ (Once(Entry(w, "body")) => Once(Entry(w, "body"))')
    BY <1>2, Entries DEF OnStack
  <2> QED
    BY <1>1, <2>1, <2>2, SameJobs, SameWaits DEF OnceEach, OneKind
<1>10. QueueExact'
  <2> SUFFICES ASSUME NEW h \in Generators PROVE QueueOf(h)'
    BY QueueParts DEF QueueExact, QueueOf, InStack
  <2>1. CASE h # g
    BY <1>1, <1>2, <1>5, <1>7, <2>1, QueueSame
  <2>2. CASE h = g
    <3>1. InStack(Entry(g, "pump"))'
      BY <1>2
    <3>2. Served(g)' = Served(g) /\ current'[g] = current[g]
      BY <1>1 DEF Served
    <3>3. Served(g) \in Nat /\ k = Served(g) + m
      <4>1. Len(answers[g]) \in Nat
        BY LenProperties DEF IInv, TypeOK
      <4> DEFINE n == Len(answers[g])
      <4>2. Served(g) = n + (IF current[g] = 0 THEN 0 ELSE 1) /\ n \in Nat
        BY <4>1 DEF Served
      <4> HIDE DEF n
      <4>3. Served(g) \in Nat
        BY <4>2
      <4>4. Len(asked[g]) = Served(g) + Len(requests[g])
        BY <1>7 DEF QueueOf
      <4> QED
        BY <4>3, <4>4
    <3>4. Len(asked'[g]) = Served(g)' + Len(requests'[g])
      BY <1>3, <1>4, <1>5, <3>2, <3>3
    <3>5. \A i \in DOMAIN requests[g] : requests[g][i] = Served(g) + i
      BY <1>7 DEF QueueOf
    <3> HIDE DEF k, m
    <3>6. \A i \in DOMAIN requests'[g] : requests'[g][i] = Served(g)' + i
      BY <1>3, <1>4, <1>5, <1>6, <3>2, <3>3, <3>5
    <3> QED
      BY <1>7, <2>2, <3>1, <3>2, <3>4, <3>6 DEF QueueOf
  <2> QED
    BY <2>1, <2>2
<1>11. StatesAgree'
  BY <1>1 DEF IInv, StatesAgree
<1> QED
  BY <1>8, <1>9, <1>10, <1>11 DEF IInv

LEMMA PumpEndsKeeps ==
  ASSUME IInv, NEW g \in Generators, PumpEnds(g) PROVE IInv'
<1>1. /\ stack \in Seq(EntrySet) /\ stack # << >> /\ Head(stack) = Entry(g, "pump") /\ stack' = Tail(stack)
      /\ ~Serves(g)
      /\ UNCHANGED <<asked, answers, requests, current, state, hasState, awaits, outside, waiters, jobs>>
  BY Types DEF IInv, PumpEnds, Top, Pop, awaitVars
<1>2. /\ stack' \in Seq(EntrySet)
      /\ \A f : f # Entry(g, "pump") => (InStack(f)' <=> InStack(f))
      /\ \A f : Once(f) => Once(f)'
  BY <1>1, PopStack
<1>3. TypeOK'
  BY <1>1, <1>2 DEF IInv, TypeOK, EntrySet
<1>4. Placed'
  <2> SUFFICES ASSUME NEW w \in Generators PROVE OnceEach(w)' /\ OneKind(w)'
    BY DEF Placed
  <2>1. OnceEach(w) /\ OneKind(w)
    BY DEF IInv, Placed
  <2>2. (OnStack(w)' <=> OnStack(w)) /\ (Once(Entry(w, "body")) => Once(Entry(w, "body"))')
    BY <1>2, Entries DEF OnStack
  <2> QED
    BY <1>1, <2>1, <2>2, SameJobs, SameWaits DEF OnceEach, OneKind
<1>5. QueueExact'
  <2> SUFFICES ASSUME NEW h \in Generators PROVE QueueOf(h)'
    BY QueueParts DEF QueueExact, QueueOf, InStack
  <2>1. InStack(Entry(h, "pump")) => InStack(Entry(h, "pump"))' \/ current[h] # 0 \/ requests[h] = << >>
    BY <1>1, <1>2, Entries DEF Serves
  <2> QED
    BY <1>1, <2>1, QueueSame, QueueParts DEF IInv
<1>6. StatesAgree'
  BY <1>1 DEF IInv, StatesAgree
<1> QED
  BY <1>3, <1>4, <1>5, <1>6 DEF IInv

\* Requests that pump answers itself.
LEMMA TakenKeeps ==
  ASSUME IInv, NEW g \in Generators, Take(g), NEW res \in Queue!Results, res # "yield",
         Answer(g, Request(g), res), stack' = stack, asked' = asked, awaits' = awaits, outside' = outside,
         waiters' = waiters, current' = current,
         state' \in [Generators -> {"suspended", "executing", "completed"}],
         hasState' \in [Generators -> BOOLEAN],
         state'[g] = "completed", \A h \in Generators : h # g => state'[h] = state[h]
  PROVE  IInv'
<1>1. /\ current[g] = 0 /\ Request(g) \in Requests /\ Request(g) = Len(answers[g]) + 1
      /\ requests' \in [Generators -> Seq(Requests)]
  BY TakeFacts
<1>2. answers' = [answers EXCEPT ![g] = Append(@, [req |-> Request(g), res |-> res])]
  BY DEF Answer
<1>3. /\ answers' \in [Generators -> Seq([req : Requests, res : Queue!Results])]
      /\ jobs' \in Seq(JobSet)
      /\ \A w \in Generators :
           /\ DueOnce(w)' /\ WaitsOnce(w)'
           /\ IsDue(w) \/ Waits(w) <=> (IsDue(w) \/ Waits(w))'
           /\ IsDue(w)' => ~Waits(w)'
  BY <1>1, AnswerJobs
<1>4. TypeOK'
  BY <1>1, <1>3 DEF IInv, TypeOK, JobSet
<1>5. Placed'
  <2> SUFFICES ASSUME NEW w \in Generators PROVE OnceEach(w)' /\ OneKind(w)'
    BY DEF Placed
  <2>1. OnceEach(w) /\ OneKind(w)
    BY DEF IInv, Placed
  <2>2. (OnStack(w)' <=> OnStack(w)) /\ (Once(Entry(w, "body")) => Once(Entry(w, "body"))')
    BY SameStack DEF OnStack
  <2> QED
    BY <1>3, <2>1, <2>2 DEF OnceEach, OneKind
<1>6. QueueExact'
  BY <1>2, QueueTaken
<1>7. StatesAgree'
  <2>1. \A h \in Generators : h # g => answers'[h] = answers[h]
    BY <1>1, <1>2, AnswerGrows DEF IInv
  <2> QED
    BY <1>1, <2>1 DEF IInv, StatesAgree
<1> QED
  BY <1>4, <1>5, <1>6, <1>7 DEF IInv

LEMMA PumpAnswersKeeps ==
  ASSUME IInv, NEW g \in Generators, PumpCompleted(g) \/ PumpReturn(g) \/ PumpThrow(g) PROVE IInv'
<1>1. \A res \in {"done", "rejected"} : res \in Queue!Results /\ res # "yield"
  BY DEF Queue!Results
<1>2. CASE PumpCompleted(g)
  <2> DEFINE res == IF Kind(g) = "throw" THEN "rejected" ELSE "done"
  <2>1. /\ Take(g) /\ Answer(g, Request(g), res) /\ stack' = stack /\ asked' = asked /\ awaits' = awaits
        /\ outside' = outside /\ waiters' = waiters /\ current' = current /\ state' = state /\ hasState' = hasState
        /\ state[g] = "completed"
    BY <1>2 DEF PumpCompleted, awaitVars
  <2>2. res \in Queue!Results /\ res # "yield"
    BY <1>1
  <2>3. state \in [Generators -> {"suspended", "executing", "completed"}] /\ hasState \in [Generators -> BOOLEAN]
    BY DEF IInv, TypeOK
  <2> HIDE DEF res
  <2> QED
    BY <2>1, <2>2, <2>3, TakenKeeps
<1>3. ASSUME NEW res \in {"done", "rejected"}, Take(g), Ends(g, Request(g), res), UNCHANGED <<asked, awaitVars, stack>>
      PROVE  IInv'
  <2>1. /\ Answer(g, Request(g), res) /\ stack' = stack /\ asked' = asked /\ awaits' = awaits
        /\ outside' = outside /\ waiters' = waiters
        /\ current' = [current EXCEPT ![g] = 0] /\ state' = [state EXCEPT ![g] = "completed"]
        /\ hasState' = [hasState EXCEPT ![g] = FALSE]
    BY <1>3 DEF Ends, awaitVars
  <2>2. current' = current
    BY <1>3, <2>1, TakeFacts DEF IInv, TypeOK
  <2>3. /\ state' \in [Generators -> {"suspended", "executing", "completed"}]
        /\ hasState' \in [Generators -> BOOLEAN]
        /\ state'[g] = "completed" /\ \A h \in Generators : h # g => state'[h] = state[h]
    BY <2>1 DEF IInv, TypeOK
  <2> QED
    BY <1>1, <1>3, <2>1, <2>2, <2>3, TakenKeeps
<1>4. CASE PumpReturn(g)
  BY <1>3, <1>4 DEF PumpReturn
<1>5. CASE PumpThrow(g)
  BY <1>3, <1>5 DEF PumpThrow
<1> QED
  BY <1>2, <1>4, <1>5

LEMMA PumpRunsKeeps ==
  ASSUME IInv, NEW g \in Generators, PumpRuns(g) PROVE IInv'
<1> DEFINE e == Entry(g, "body")
<1>1. /\ stack \in Seq(EntrySet) /\ stack # << >> /\ Head(stack) = Entry(g, "pump") /\ e \in EntrySet
      /\ Take(g) /\ state[g] # "completed" /\ stack' = <<e>> \o Tail(stack)
      /\ current' = [current EXCEPT ![g] = Request(g)] /\ state' = [state EXCEPT ![g] = "executing"]
      /\ hasState' = [hasState EXCEPT ![g] = TRUE]
      /\ UNCHANGED <<asked, answers, awaits, outside, waiters, jobs>>
  BY Types, Entries DEF IInv, PumpRuns, Take, Top, Replace, awaitVars
<1>2. /\ current[g] = 0
      /\ Request(g) \in Requests /\ Request(g) = Len(answers[g]) + 1
      /\ requests' \in [Generators -> Seq(Requests)]
      /\ \A h \in Generators : h # g => requests'[h] = requests[h]
      /\ Len(requests'[g]) = Len(requests[g]) - 1 /\ Len(requests[g]) \in Nat
      /\ \A i \in DOMAIN requests'[g] : requests'[g][i] = Len(answers[g]) + 1 + i
  BY <1>1, TakeFacts
<1>3. Request(g) # 0
  BY <1>2 DEF Requests
<1>4. /\ stack' \in Seq(EntrySet) /\ InStack(e)'
      /\ \A f : f # Entry(g, "pump") /\ f # e => (InStack(f)' <=> InStack(f))
      /\ \A f : Once(f) /\ (f # e \/ ~InStack(f)) => Once(f)'
  BY <1>1, ReplaceTop
<1>5. /\ current'[g] = Request(g) /\ state'[g] = "executing"
      /\ \A h \in Generators : h # g => current'[h] = current[h] /\ state'[h] = state[h]
  BY <1>1 DEF IInv, TypeOK
<1>6. TypeOK'
  BY <1>1, <1>2, <1>4 DEF IInv, TypeOK, EntrySet
<1>7. Placed'
  <2> SUFFICES ASSUME NEW w \in Generators PROVE OnceEach(w)' /\ OneKind(w)'
    BY DEF Placed
  <2>1. OnceEach(w) /\ OneKind(w)
    BY DEF IInv, Placed
  <2>2. (IsDue(w)' <=> IsDue(w)) /\ (DueOnce(w)' <=> DueOnce(w)) /\ (Waits(w)' <=> Waits(w)) /\ (WaitsOnce(w)' <=> WaitsOnce(w))
    BY <1>1, SameJobs, SameWaits
  <2>3. CASE w = g
    <3>1. ~OnStack(g) /\ ~IsDue(g) /\ ~Waits(g) /\ g \notin outside
      BY <1>2, <2>1, <2>3 DEF OneKind
    <3>2. OnStack(g)' /\ Once(Entry(g, "body"))'
      BY <1>4, <2>1, <2>3, <3>1 DEF OnStack, OnceEach
    <3>3. current'[g] # 0
      BY <1>3, <1>5
    <3> QED
      BY <1>1, <2>1, <2>2, <2>3, <3>1, <3>2, <3>3 DEF OnceEach, OneKind
  <2>4. CASE w # g
    <3>1. (OnStack(w)' <=> OnStack(w)) /\ (Once(Entry(w, "body")) => Once(Entry(w, "body"))')
      BY <1>4, <2>4, Entries DEF OnStack
    <3> QED
      BY <1>1, <1>5, <2>1, <2>2, <2>4, <3>1 DEF OnceEach, OneKind
  <2> QED
    BY <2>3, <2>4
<1>8. QueueExact'
  <2> SUFFICES ASSUME NEW h \in Generators PROVE QueueOf(h)'
    BY QueueParts DEF QueueExact, QueueOf, InStack
  <2>1. QueueOf(h) /\ QueueOf(g)
    BY QueueParts DEF IInv
  <2>2. CASE h # g
    <3>1. InStack(Entry(h, "pump")) => InStack(Entry(h, "pump"))'
      BY <1>4, <2>2, Entries
    <3> QED
      BY <1>1, <1>2, <1>5, <2>1, <2>2, <3>1, QueueSame
  <2>3. CASE h = g
    <3> DEFINE n == Len(answers[g])
               m == Len(requests[g])
               k == Len(asked[g])
    <3>1. n \in Nat /\ m \in Nat /\ k = n + m
      <4>1. n \in Nat
        BY LenProperties DEF IInv, TypeOK
      <4> QED
        BY <1>2, <2>1, <4>1 DEF QueueOf, Served
    <3>2. Served(g)' = n + 1 /\ Len(requests'[g]) = m - 1 /\ asked'[g] = asked[g] /\ Len(asked'[g]) = k
      BY <1>1, <1>2, <1>3, <1>5, <3>1 DEF Served
    <3>3. current'[g] = n + 1 /\ current'[g] # 0
      BY <1>2, <1>3, <1>5
    <3> HIDE DEF n, m, k
    <3>4. Len(asked'[g]) = Served(g)' + Len(requests'[g])
      BY <3>1, <3>2
    <3>5. \A i \in DOMAIN requests'[g] : requests'[g][i] = Served(g)' + i
      BY <1>2, <3>2 DEF n
    <3> QED
      BY <2>3, <3>2, <3>3, <3>4, <3>5 DEF QueueOf
  <2> QED
    BY <2>2, <2>3
<1>9. StatesAgree'
  BY <1>1, <1>5 DEF IInv, StatesAgree
<1> QED
  BY <1>6, <1>7, <1>8, <1>9 DEF IInv

\* The body's request is answered and the body leaves the stack: a yield or the end.
LEMMA BodyAnswersKeeps ==
  ASSUME IInv, NEW g \in Generators, Top(g, "body"), NEW res \in Queue!Results,
         Answer(g, current[g], res), Replace(g, "pump"),
         current' = [current EXCEPT ![g] = 0], hasState' \in [Generators -> BOOLEAN],
         UNCHANGED <<asked, requests, awaits, outside, waiters>>,
         state' \in [Generators -> {"suspended", "executing", "completed"}],
         state'[g] = "completed" \/ res = "yield", \A h \in Generators : h # g => state'[h] = state[h]
  PROVE  IInv'
<1> DEFINE e == Entry(g, "pump")
<1>1. /\ stack \in Seq(EntrySet) /\ stack # << >> /\ Head(stack) = Entry(g, "body") /\ e \in EntrySet
      /\ stack' = <<e>> \o Tail(stack)
  BY Types, Entries DEF IInv, Top, Replace
<1>2. /\ stack' \in Seq(EntrySet) /\ InStack(e)' /\ InStack(Entry(g, "body"))
      /\ \A f : f # Entry(g, "body") /\ f # e => (InStack(f)' <=> InStack(f))
      /\ \A f : Once(f) /\ (f # e \/ ~InStack(f)) => Once(f)'
      /\ Once(Entry(g, "body")) => ~InStack(Entry(g, "body"))'
  <2>1. Entry(g, "body") # e
    BY Entries
  <2> QED
    BY <1>1, <2>1, ReplaceTop
<1>3. OnStack(g)
  BY <1>2 DEF OnStack
<1>4. /\ current[g] \in Requests /\ current[g] # 0 /\ current[g] = Len(answers[g]) + 1
      /\ state[g] = "executing"
  BY <1>3, BodyFacts
<1>5. answers' = [answers EXCEPT ![g] = Append(@, [req |-> current[g], res |-> res])]
  BY DEF Answer
<1>6. /\ answers' \in [Generators -> Seq([req : Requests, res : Queue!Results])]
      /\ jobs' \in Seq(JobSet)
      /\ \A w \in Generators :
           /\ DueOnce(w)' /\ WaitsOnce(w)'
           /\ IsDue(w) \/ Waits(w) <=> (IsDue(w) \/ Waits(w))'
           /\ IsDue(w)' => ~Waits(w)'
  BY <1>4, AnswerJobs
<1>7. /\ current'[g] = 0 /\ \A h \in Generators : h # g => current'[h] = current[h]
      /\ current' \in [Generators -> Requests \cup {0}]
  BY DEF IInv, TypeOK
<1>8. TypeOK'
  BY <1>2, <1>6, <1>7 DEF IInv, TypeOK, JobSet, EntrySet
<1>9. Placed'
  <2> SUFFICES ASSUME NEW w \in Generators PROVE OnceEach(w)' /\ OneKind(w)'
    BY DEF Placed
  <2>1. OnceEach(w) /\ OneKind(w)
    BY DEF IInv, Placed
  <2>2. Once(Entry(w, "body"))'
    BY <1>2, <2>1, Entries DEF OnceEach
  <2>3. CASE w = g
    <3>1. ~OnStack(g)'
      BY <1>2, <2>1, <2>3 DEF OnStack, OnceEach
    <3>2. ~IsDue(g) /\ ~Waits(g) /\ g \notin outside
      BY <1>3, <2>1, <2>3 DEF OneKind
    <3> QED
      BY <1>6, <1>7, <2>2, <2>3, <3>1, <3>2 DEF OnceEach, OneKind
  <2>4. CASE w # g
    <3>1. OnStack(w)' <=> OnStack(w)
      BY <1>2, <2>4, Entries DEF OnStack
    <3> QED
      BY <1>6, <1>7, <2>1, <2>2, <2>4, <3>1 DEF OnceEach, OneKind
  <2> QED
    BY <2>3, <2>4
<1>10. QueueExact'
  <2>1. \A h \in Generators : h # g => (InStack(Entry(h, "pump")) => InStack(Entry(h, "pump"))')
    BY <1>2, Entries
  <2> QED
    BY <1>2, <1>3, <1>5, <2>1, QueueServed
<1>11. StatesAgree'
  <2>1. /\ \A h \in Generators : h # g => answers'[h] = answers[h]
        /\ Queue!Over(answers'[g]) <=> Queue!Over(answers[g]) \/ res # "yield"
    BY <1>4, <1>5, AnswerGrows DEF IInv
  <2>2. ~Queue!Over(answers[g])
    BY <1>4 DEF IInv, StatesAgree
  <2> QED
    BY <1>7, <2>1, <2>2 DEF IInv, StatesAgree
<1> QED
  BY <1>8, <1>9, <1>10, <1>11 DEF IInv

LEMMA YieldKeeps ==
  ASSUME IInv, NEW g \in Generators, Yield(g) PROVE IInv'
<1>1. "yield" \in Queue!Results
  BY DEF Queue!Results
<1>2. /\ Top(g, "body") /\ Answer(g, current[g], "yield") /\ Replace(g, "pump")
      /\ current' = [current EXCEPT ![g] = 0] /\ UNCHANGED <<asked, requests, awaits, outside, waiters>>
      /\ state' = [state EXCEPT ![g] = "suspended"] /\ hasState' = hasState
  BY DEF Yield, awaitVars
<1>3. /\ state' \in [Generators -> {"suspended", "executing", "completed"}]
      /\ hasState' \in [Generators -> BOOLEAN]
      /\ \A h \in Generators : h # g => state'[h] = state[h]
  BY <1>2 DEF IInv, TypeOK
<1> QED
  BY <1>1, <1>2, <1>3, BodyAnswersKeeps

LEMMA FinishKeeps ==
  ASSUME IInv, NEW g \in Generators, NEW res \in {"done", "rejected"}, Finish(g, res) PROVE IInv'
<1>1. res \in Queue!Results
  BY DEF Queue!Results
<1>2. /\ Top(g, "body") /\ Answer(g, current[g], res) /\ Replace(g, "pump")
      /\ current' = [current EXCEPT ![g] = 0] /\ UNCHANGED <<asked, requests, awaits, outside, waiters>>
      /\ state' = [state EXCEPT ![g] = "completed"] /\ hasState' = [hasState EXCEPT ![g] = FALSE]
  BY DEF Finish, Ends, awaitVars
<1>3. /\ state' \in [Generators -> {"suspended", "executing", "completed"}]
      /\ hasState' \in [Generators -> BOOLEAN] /\ state'[g] = "completed"
      /\ \A h \in Generators : h # g => state'[h] = state[h]
  BY <1>2 DEF IInv, TypeOK
<1> QED
  BY <1>1, <1>2, <1>3, BodyAnswersKeeps

LEMMA AwaitOutsideKeeps ==
  ASSUME IInv, NEW g \in Generators, AwaitOutside(g) PROVE IInv'
<1>1. /\ stack \in Seq(EntrySet) /\ stack # << >> /\ Head(stack) = Entry(g, "body") /\ stack' = Tail(stack)
      /\ awaits[g] < MaxAwaits /\ awaits' = [awaits EXCEPT ![g] = @ + 1] /\ outside' = outside \cup {g}
      /\ UNCHANGED <<asked, answers, requests, current, state, hasState, waiters, jobs>>
  BY Types DEF IInv, AwaitOutside, Top, Pop
<1>2. /\ stack' \in Seq(EntrySet) /\ InStack(Entry(g, "body"))
      /\ \A f : f # Entry(g, "body") => (InStack(f)' <=> InStack(f))
      /\ \A f : Once(f) => Once(f)'
      /\ Once(Entry(g, "body")) => ~InStack(Entry(g, "body"))'
  BY <1>1, PopStack
<1>3. TypeOK'
  <2> DEFINE a == awaits[g]
  <2>1. a < MaxAwaits /\ a \in 0..MaxAwaits /\ awaits' = [awaits EXCEPT ![g] = a + 1]
    BY <1>1 DEF IInv, TypeOK
  <2> HIDE DEF a
  <2>2. a + 1 \in 0..MaxAwaits
    BY <2>1, BoundsAssumption
  <2>3. awaits' \in [Generators -> 0..MaxAwaits]
    BY <2>1, <2>2 DEF IInv, TypeOK
  <2> QED
    BY <1>1, <1>2, <2>3 DEF IInv, TypeOK, EntrySet
<1>4. Placed'
  <2> SUFFICES ASSUME NEW w \in Generators PROVE OnceEach(w)' /\ OneKind(w)'
    BY DEF Placed
  <2>1. OnceEach(w) /\ OneKind(w)
    BY DEF IInv, Placed
  <2>2. OnceEach(w)'
    BY <1>1, <1>2, <2>1, SameJobs, SameWaits DEF OnceEach
  <2>3. CASE w = g
    <3>1. OnStack(g) /\ ~OnStack(g)'
      BY <1>2, <2>1, <2>3 DEF OnStack, OnceEach
    <3> QED
      BY <1>1, <2>1, <2>2, <2>3, <3>1, SameJobs, SameWaits DEF OneKind
  <2>4. CASE w # g
    <3>1. OnStack(w)' <=> OnStack(w)
      BY <1>2, <2>4, Entries DEF OnStack
    <3> QED
      BY <1>1, <2>1, <2>2, <2>4, <3>1, SameJobs, SameWaits DEF OneKind
  <2> QED
    BY <2>3, <2>4
<1>5. QueueExact'
  <2> SUFFICES ASSUME NEW h \in Generators PROVE QueueOf(h)'
    BY QueueParts DEF QueueExact, QueueOf, InStack
  <2> QED
    BY <1>1, <1>2, Entries, QueueSame, QueueParts DEF IInv
<1>6. StatesAgree'
  BY <1>1 DEF IInv, StatesAgree
<1> QED
  BY <1>3, <1>4, <1>5, <1>6 DEF IInv

LEMMA AwaitAnswerKeeps ==
  ASSUME IInv, NEW g \in Generators, NEW h \in Generators, NEW r \in Requests, AwaitAnswer(g, h, r) PROVE IInv'
<1>1. /\ stack \in Seq(EntrySet) /\ stack # << >> /\ Head(stack) = Entry(g, "body") /\ stack' = Tail(stack)
      /\ awaits[g] < MaxAwaits /\ awaits' = [awaits EXCEPT ![g] = @ + 1]
      /\ UNCHANGED <<asked, answers, requests, current, state, hasState, outside>>
      /\ \/ r \in DOMAIN answers[h] /\ waiters' = waiters
            /\ jobs' = Append(jobs, [gen |-> g, throw |-> answers[h][r].res = "rejected"])
         \/ r \notin DOMAIN answers[h] /\ waiters' = [waiters EXCEPT ![h][r] = Append(@, g)] /\ jobs' = jobs
  BY Types DEF IInv, AwaitAnswer, Top, Pop
<1>2. /\ stack' \in Seq(EntrySet) /\ InStack(Entry(g, "body"))
      /\ \A f : f # Entry(g, "body") => (InStack(f)' <=> InStack(f))
      /\ \A f : Once(f) => Once(f)'
      /\ Once(Entry(g, "body")) => ~InStack(Entry(g, "body"))'
  BY <1>1, PopStack
<1>3. OnceEach(g) /\ OneKind(g) /\ OnStack(g)
  BY <1>2 DEF IInv, Placed, OnStack
<1>4. ~IsDue(g) /\ ~Waits(g) /\ g \notin outside /\ ~OnStack(g)' /\ current[g] # 0
  BY <1>2, <1>3 DEF OneKind, OnceEach, OnStack
<1>5. /\ jobs' \in Seq(JobSet) /\ waiters' \in [Generators -> [Requests -> Seq(Generators)]]
      /\ \A w \in Generators : DueOnce(w)' /\ WaitsOnce(w)'
      /\ \A w \in Generators : w # g => (IsDue(w)' <=> IsDue(w)) /\ (Waits(w)' <=> Waits(w))
      /\ (IsDue(g)' /\ ~Waits(g)') \/ (~IsDue(g)' /\ Waits(g)')
  <2>1. /\ \A w \in Generators : DueOnce(w) /\ WaitsOnce(w)
        /\ jobs \in Seq(JobSet) /\ waiters \in [Generators -> [Requests -> Seq(Generators)]]
    BY Types DEF IInv, Placed, OnceEach, TypeOK
  <2>2. CASE r \in DOMAIN answers[h]
    <3>1. jobs' = Append(jobs, [gen |-> g, throw |-> answers[h][r].res = "rejected"]) /\ waiters' = waiters
      BY <1>1, <2>2
    <3>2. \A t \in BOOLEAN : jobs' = Append(jobs, [gen |-> g, throw |-> t]) =>
            /\ jobs' \in Seq(JobSet)
            /\ \A w : IsDue(w)' <=> IsDue(w) \/ w = g
            /\ \A w : DueOnce(w) => DueOnce(w)'
      BY <1>4, <2>1, AppendJob
    <3>3. /\ jobs' \in Seq(JobSet)
          /\ \A w : IsDue(w)' <=> IsDue(w) \/ w = g
          /\ \A w : DueOnce(w) => DueOnce(w)'
      BY <3>1, <3>2
    <3>4. \A w : (Waits(w)' <=> Waits(w)) /\ (WaitsOnce(w)' <=> WaitsOnce(w))
      BY <1>1, <3>1, SameWaits
    <3> QED
      BY <1>4, <2>1, <3>1, <3>3, <3>4
  <2>3. CASE r \notin DOMAIN answers[h]
    <3>1. waiters' = [waiters EXCEPT ![h][r] = Append(@, g)] /\ jobs' = jobs /\ answers' = answers
      BY <1>1, <2>3
    <3>2. /\ waiters' \in [Generators -> [Requests -> Seq(Generators)]]
          /\ \A w : Waits(w)' <=> Waits(w) \/ w = g
          /\ \A w : WaitsOnce(w) => WaitsOnce(w)'
      BY <1>4, <2>3, <3>1, AppendWaiter DEF IInv
    <3>3. \A w : (IsDue(w)' <=> IsDue(w)) /\ (DueOnce(w)' <=> DueOnce(w))
      BY <3>1, SameJobs
    <3> QED
      BY <1>4, <2>1, <3>1, <3>2, <3>3
  <2> QED
    BY <2>2, <2>3
<1>6. TypeOK'
  <2> DEFINE a == awaits[g]
  <2>1. a < MaxAwaits /\ a \in 0..MaxAwaits /\ awaits' = [awaits EXCEPT ![g] = a + 1]
    BY <1>1 DEF IInv, TypeOK
  <2> HIDE DEF a
  <2>2. a + 1 \in 0..MaxAwaits
    BY <2>1, BoundsAssumption
  <2>3. awaits' \in [Generators -> 0..MaxAwaits]
    BY <2>1, <2>2 DEF IInv, TypeOK
  <2> QED
    BY <1>1, <1>2, <1>5, <2>3 DEF IInv, TypeOK, EntrySet, JobSet
<1>7. Placed'
  <2> SUFFICES ASSUME NEW w \in Generators PROVE OnceEach(w)' /\ OneKind(w)'
    BY DEF Placed
  <2>1. OnceEach(w) /\ OneKind(w)
    BY DEF IInv, Placed
  <2>2. OnceEach(w)'
    BY <1>2, <1>5, <2>1 DEF OnceEach
  <2>3. CASE w = g
    BY <1>1, <1>4, <1>5, <2>2, <2>3 DEF OneKind
  <2>4. CASE w # g
    <3>1. OnStack(w)' <=> OnStack(w)
      BY <1>2, <2>4, Entries DEF OnStack
    <3> QED
      BY <1>1, <1>5, <2>1, <2>2, <2>4, <3>1 DEF OneKind
  <2> QED
    BY <2>3, <2>4
<1>8. QueueExact'
  <2> SUFFICES ASSUME NEW k \in Generators PROVE QueueOf(k)'
    BY QueueParts DEF QueueExact, QueueOf, InStack
  <2> QED
    BY <1>1, <1>2, Entries, QueueSame, QueueParts DEF IInv
<1>9. StatesAgree'
  BY <1>1 DEF IInv, StatesAgree
<1> QED
  BY <1>6, <1>7, <1>8, <1>9 DEF IInv

LEMMA SettleKeeps ==
  ASSUME IInv, NEW g \in Generators, NEW throw \in BOOLEAN, Settle(g, throw) PROVE IInv'
<1>1. /\ g \in outside /\ outside' = outside \ {g} /\ jobs' = Append(jobs, [gen |-> g, throw |-> throw])
      /\ UNCHANGED <<asked, answers, requests, current, state, hasState, awaits, waiters, stack>>
  BY DEF Settle
<1>2. ~OnStack(g) /\ ~IsDue(g) /\ ~Waits(g) /\ current[g] # 0
  BY <1>1 DEF IInv, Placed, OneKind
<1>3. /\ jobs' \in Seq(JobSet)
      /\ \A w : IsDue(w)' <=> IsDue(w) \/ w = g
      /\ \A w : DueOnce(w) => DueOnce(w)'
  BY <1>1, <1>2, AppendJob, Types DEF IInv
<1>4. TypeOK'
  BY <1>1, <1>3 DEF IInv, TypeOK, JobSet
<1>5. Placed'
  <2> SUFFICES ASSUME NEW w \in Generators PROVE OnceEach(w)' /\ OneKind(w)'
    BY DEF Placed
  <2>1. OnceEach(w) /\ OneKind(w)
    BY DEF IInv, Placed
  <2>2. OnceEach(w)' /\ (OnStack(w)' <=> OnStack(w)) /\ (Waits(w)' <=> Waits(w))
    BY <1>1, <1>3, <2>1, SameStack, SameWaits DEF OnceEach, OnStack
  <2>3. CASE w = g
    BY <1>1, <1>2, <1>3, <2>2, <2>3 DEF OneKind
  <2>4. CASE w # g
    BY <1>1, <1>3, <2>1, <2>2, <2>4 DEF OneKind
  <2> QED
    BY <2>3, <2>4
<1>6. QueueExact'
  <2> SUFFICES ASSUME NEW h \in Generators PROVE QueueOf(h)'
    BY QueueParts DEF QueueExact, QueueOf, InStack
  <2> QED
    BY <1>1, SameStack, QueueSame, QueueParts DEF IInv
<1>7. StatesAgree'
  BY <1>1 DEF IInv, StatesAgree
<1> QED
  BY <1>4, <1>5, <1>6, <1>7 DEF IInv

LEMMA ResumeKeeps ==
  ASSUME IInv, NEW g \in Generators, Resume(g) PROVE IInv'
<1> DEFINE e == Entry(g, "body")
<1>1. /\ stack = << >> /\ jobs # << >> /\ Head(jobs).gen = g /\ jobs' = Tail(jobs) /\ stack' = <<e>> /\ e \in EntrySet
      /\ UNCHANGED <<asked, answers, requests, current, state, hasState, awaits, outside, waiters>>
  BY Entries DEF Resume, awaitVars
<1>2. stack' \in Seq(EntrySet) /\ \A f : ~InStack(f) /\ (InStack(f)' <=> f = e) /\ Once(f)'
  BY <1>1, NewStack
<1>3. /\ IsDue(g) /\ Stay(Tail(jobs))
      /\ \A w : Stays(Tail(jobs), w) <=> IsDue(w) /\ w # g
  BY <1>1, TailJobs DEF IInv
<1>4. /\ jobs' \in Seq(JobSet) /\ \A w : DueOnce(w)'
      /\ \A w : IsDue(w)' <=> IsDue(w) /\ w # g
  BY <1>1, <1>3, StayJobs
<1>5. TypeOK'
  BY <1>1, <1>2, <1>4 DEF IInv, TypeOK, JobSet, EntrySet
<1>6. Placed'
  <2> SUFFICES ASSUME NEW w \in Generators PROVE OnceEach(w)' /\ OneKind(w)'
    BY DEF Placed
  <2>1. OnceEach(w) /\ OneKind(w)
    BY DEF IInv, Placed
  <2>2. OnceEach(w)' /\ (Waits(w)' <=> Waits(w))
    BY <1>1, <1>2, <1>4, <2>1, SameWaits DEF OnceEach
  <2>3. (OnStack(w)' <=> w = g) /\ ~OnStack(w)
    BY <1>2, Entries DEF OnStack
  <2>4. CASE w = g
    BY <1>1, <1>3, <1>4, <2>1, <2>2, <2>3, <2>4 DEF OneKind
  <2>5. CASE w # g
    BY <1>1, <1>4, <2>1, <2>2, <2>3, <2>5 DEF OneKind
  <2> QED
    BY <2>4, <2>5
<1>7. QueueExact'
  <2> SUFFICES ASSUME NEW h \in Generators PROVE QueueOf(h)'
    BY QueueParts DEF QueueExact, QueueOf, InStack
  <2> QED
    BY <1>1, <1>2, QueueSame, QueueParts DEF IInv
<1>8. StatesAgree'
  BY <1>1 DEF IInv, StatesAgree
<1> QED
  BY <1>5, <1>6, <1>7, <1>8 DEF IInv

LEMMA ResumeFailsKeeps ==
  ASSUME IInv, NEW g \in Generators, ResumeFails(g) PROVE IInv'
<1> DEFINE e == Entry(g, "pump")
<1>1. /\ stack = << >> /\ jobs # << >> /\ Head(jobs).gen = g /\ stack' = <<e>> /\ e \in EntrySet
      /\ answers' = [answers EXCEPT ![g] = Append(@, [req |-> current[g], res |-> "rejected"])]
      /\ jobs' = Tail(jobs) \o Reactions(waiters[g][current[g]], TRUE)
      /\ current' = [current EXCEPT ![g] = 0] /\ state' = [state EXCEPT ![g] = "completed"]
      /\ hasState' = [hasState EXCEPT ![g] = FALSE]
      /\ UNCHANGED <<asked, requests, awaits, outside, waiters>>
  BY Entries DEF ResumeFails, awaitVars
<1>2. stack' \in Seq(EntrySet) /\ \A f : ~InStack(f) /\ (InStack(f)' <=> f = e) /\ Once(f)'
  BY <1>1, NewStack
<1>3. /\ IsDue(g) /\ Stay(Tail(jobs))
      /\ \A w : Stays(Tail(jobs), w) <=> IsDue(w) /\ w # g
  BY <1>1, TailJobs DEF IInv
<1>4. /\ current[g] \in Requests /\ current[g] # 0 /\ current[g] = Len(answers[g]) + 1
      /\ "rejected" \in Queue!Results
  BY <1>3, BodyFacts DEF Queue!Results
<1>5. /\ answers' \in [Generators -> Seq([req : Requests, res : Queue!Results])]
      /\ jobs' \in Seq(JobSet)
      /\ \A w \in Generators :
           /\ IsDue(w)' <=> WaitedFor(g, current[g], w) \/ Stays(Tail(jobs), w)
           /\ Waits(w)' <=> Waits(w) /\ ~WaitedFor(g, current[g], w)
           /\ WaitedFor(g, current[g], w) => Waits(w)
           /\ DueOnce(w)' /\ WaitsOnce(w)'
  <2>1. TypeOK /\ Placed /\ waiters' = waiters
    BY <1>1 DEF IInv
  <2> QED
    BY <1>1, <1>3, <1>4, <2>1, AnswerMoves
<1>6. /\ current'[g] = 0 /\ state'[g] = "completed"
      /\ \A h \in Generators : h # g => current'[h] = current[h] /\ state'[h] = state[h]
  BY <1>1 DEF IInv, TypeOK
<1>7. TypeOK'
  BY <1>1, <1>2, <1>5 DEF IInv, TypeOK, JobSet, EntrySet
<1>8. Placed'
  <2> SUFFICES ASSUME NEW w \in Generators PROVE OnceEach(w)' /\ OneKind(w)'
    BY DEF Placed
  <2>1. OnceEach(w) /\ OneKind(w)
    BY DEF IInv, Placed
  <2>2. OnceEach(w)'
    BY <1>2, <1>5 DEF OnceEach
  <2>3. ~OnStack(w)' /\ ~OnStack(w)
    BY <1>2, Entries DEF OnStack
  <2>4. CASE w = g
    <3>1. ~Waits(g) /\ g \notin outside
      BY <1>3, <2>1, <2>4 DEF OneKind
    <3> QED
      BY <1>1, <1>3, <1>5, <1>6, <2>2, <2>3, <2>4, <3>1 DEF OneKind
  <2>5. CASE w # g
    BY <1>1, <1>3, <1>5, <1>6, <2>1, <2>2, <2>3, <2>5 DEF OneKind
  <2> QED
    BY <2>4, <2>5
<1>9. QueueExact'
  BY <1>1, <1>2, <1>3, <1>4, QueueServed
<1>10. StatesAgree'
  <2>1. \A h \in Generators : h # g => answers'[h] = answers[h]
    BY <1>1, <1>4, AnswerGrows DEF IInv
  <2> QED
    BY <1>6, <2>1 DEF IInv, StatesAgree
<1> QED
  BY <1>7, <1>8, <1>9, <1>10 DEF IInv

-----------------------------------------------------------------------------
(* The theorems                                                              *)

LEMMA InitHolds == Init => IInv
<1> SUFFICES ASSUME Init PROVE IInv
  OBVIOUS
<1>1. TypeOK
  BY BoundsAssumption DEF Init, TypeOK
<1>2. \A e : ~InStack(e) /\ Once(e)
  BY DEF Init, InStack, Once
<1>3. \A w : ~IsDue(w) /\ DueOnce(w)
  BY DEF Init, IsDue, DueOnce
<1>4. \A h \in Generators, r \in Requests : waiters[h][r] = << >>
  BY DEF Init
<1>5. \A w : ~Waits(w) /\ WaitsOnce(w)
  BY <1>4 DEF Waits, WaitsOnce, Waits1
<1>6. Placed
  BY <1>2, <1>3, <1>5 DEF Init, Placed, OnceEach, OneKind, OnStack
<1>7. QueueExact
  <2> SUFFICES ASSUME NEW g \in Generators PROVE QueueOf(g)
    BY QueueParts
  <2>1. current[g] = 0 /\ requests[g] = << >> /\ asked[g] = << >> /\ answers[g] = << >>
    BY DEF Init
  <2>2. Served(g) = 0
    BY <2>1 DEF Served
  <2> QED
    BY <2>1, <2>2 DEF QueueOf
<1>8. StatesAgree
  <2>1. \A s : Queue!Over(s) <=> \E i \in DOMAIN s : s[i].res # "yield"
    BY DEF Queue!Over
  <2>2. ~Queue!Over(<< >>)
    BY <2>1
  <2> QED
    BY <2>2 DEF Init, StatesAgree
<1> QED
  BY <1>1, <1>6, <1>7, <1>8 DEF IInv

LEMMA StepHolds == IInv /\ [Next]_vars => IInv'
<1> SUFFICES ASSUME IInv, [Next]_vars PROVE IInv'
  OBVIOUS
<1>1. ASSUME NEW g \in Generators, NEW kind \in Kinds, Ask(g, kind) PROVE IInv'
  BY <1>1, AskKeeps
<1>2. ASSUME NEW g \in Generators, Pump(g) PROVE IInv'
  BY <1>2, PumpEndsKeeps, PumpAnswersKeeps, PumpRunsKeeps DEF Pump
<1>3. ASSUME NEW g \in Generators, Body(g) PROVE IInv'
  BY <1>3, YieldKeeps, FinishKeeps, AwaitOutsideKeeps, AwaitAnswerKeeps DEF Body
<1>4. ASSUME NEW g \in Generators, Job(g) PROVE IInv'
  BY <1>4, ResumeKeeps, ResumeFailsKeeps DEF Job
<1>5. ASSUME NEW g \in Generators, NEW throw \in BOOLEAN, Settle(g, throw) PROVE IInv'
  BY <1>5, SettleKeeps
<1>6. CASE UNCHANGED vars
  <2>1. Placed'
    <3> SUFFICES ASSUME NEW w \in Generators PROVE OnceEach(w)' /\ OneKind(w)'
      BY DEF Placed
    <3>1. OnceEach(w) /\ OneKind(w)
      BY DEF IInv, Placed
    <3> QED
      BY <1>6, <3>1, SameJobs, SameWaits, SameStack DEF vars, awaitVars, OnceEach, OneKind, OnStack
  <2>2. TypeOK'
    BY <1>6 DEF IInv, TypeOK, vars, awaitVars
  <2>3. QueueExact'
    BY <1>6 DEF IInv, QueueExact, Served, vars, awaitVars
  <2>4. StatesAgree'
    BY <1>6 DEF IInv, StatesAgree, vars, awaitVars
  <2> QED
    BY <2>1, <2>2, <2>3, <2>4 DEF IInv
<1> QED
  BY <1>1, <1>2, <1>3, <1>4, <1>5, <1>6 DEF Next

\* Every reachable state satisfies the inductive invariant (async_generator.go:82-173).
THEOREM InvariantHolds == Spec => []IInv
BY InitHolds, StepHolds, PTL DEF Spec

\* The queue holds exactly the requests not yet served, in order, and no
\* generator is idle in front of a request unless its pump is running
\* (async_generator.go:82-124).
THEOREM QueueStaysExact == Spec => []QueueExact
<1>1. IInv => QueueExact
  BY DEF IInv
<1> QED
  BY <1>1, InvariantHolds, PTL

\* A body serves one request at a time and is in exactly one place meanwhile:
\* running, waiting for a promise, or about to be resumed; a generator is
\* never entered while it runs (async_generator.go:91).
THEOREM OneBodyHolds == Spec => []OneBody
<1>1. ASSUME IInv PROVE OneBody
  <2> SUFFICES ASSUME NEW g \in Generators
               PROVE  LET placed == {<<"run", i>> : i \in Runs(g)} \cup {<<"job", i>> : i \in Resumptions(g)}
                                      \cup {<<"wait", x>> : x \in WaitsFor(g)} \cup {<<"outside", h>> : h \in outside \cap {g}}
                      IN  IF current[g] = 0 THEN placed = {} ELSE \E p \in placed : placed = {p}
    BY <1>1 DEF IInv, OneBody
  <2> DEFINE placed == {<<"run", i>> : i \in Runs(g)} \cup {<<"job", i>> : i \in Resumptions(g)}
                         \cup {<<"wait", x>> : x \in WaitsFor(g)} \cup {<<"outside", h>> : h \in outside \cap {g}}
  <2>1. OnceEach(g) /\ OneKind(g)
    BY <1>1 DEF IInv, Placed
  <2>2. \A i, j \in Runs(g) : i = j
    BY <2>1 DEF OnceEach, Once, Runs
  <2>3. \A i, j \in Resumptions(g) : i = j
    BY <2>1 DEF OnceEach, DueOnce, Due1, Resumptions
  <2>4. \A x \in WaitsFor(g) : /\ x = <<x[1], x[2]>> /\ x[1] \in Generators /\ x[2] \in Requests
                               /\ \E i \in DOMAIN waiters[x[1]][x[2]] : Waits1(g, x[1], x[2], i)
    BY DEF WaitsFor, Waits1
  <2>5. \A x, y \in WaitsFor(g) : x = y
    <3> SUFFICES ASSUME NEW x \in WaitsFor(g), NEW y \in WaitsFor(g) PROVE x = y
      OBVIOUS
    <3>1. x[1] = y[1] /\ x[2] = y[2]
      BY <2>1, <2>4 DEF OnceEach, WaitsOnce
    <3> QED
      BY <2>4, <3>1
  <2>6. OnStack(g) <=> Runs(g) # {}
    BY DEF OnStack, InStack, Runs
  <2>7. IsDue(g) <=> Resumptions(g) # {}
    BY DEF IsDue, Due1, Resumptions
  <2>8. WaitsFor(g) # {} => Waits(g)
    BY <2>4 DEF Waits
  <2>9. Waits(g) => WaitsFor(g) # {}
    <3> SUFFICES ASSUME NEW h \in Generators, NEW r \in Requests,
                        NEW i \in DOMAIN waiters[h][r], Waits1(g, h, r, i)
                 PROVE  <<h, r>> \in WaitsFor(g)
      BY DEF Waits
    <3> QED
      BY DEF WaitsFor, Waits1
  <2>10. CASE current[g] = 0
    BY <2>1, <2>6, <2>7, <2>8, <2>10 DEF OneKind
  <2>11. CASE current[g] # 0
    <3>1. CASE OnStack(g)
      <4>1. PICK i : Runs(g) = {i}
        BY <2>2, <2>6, <3>1
      <4>2. Resumptions(g) = {} /\ WaitsFor(g) = {} /\ outside \cap {g} = {}
        BY <2>1, <2>7, <2>8, <3>1 DEF OneKind
      <4>3. placed = {<<"run", i>>}
        BY <4>1, <4>2
      <4> QED
        BY <2>11, <4>3
    <3>2. CASE IsDue(g)
      <4>1. PICK i : Resumptions(g) = {i}
        BY <2>3, <2>7, <3>2
      <4>2. Runs(g) = {} /\ WaitsFor(g) = {} /\ outside \cap {g} = {}
        BY <2>1, <2>6, <2>8, <3>2 DEF OneKind
      <4>3. placed = {<<"job", i>>}
        BY <4>1, <4>2
      <4> QED
        BY <2>11, <4>3
    <3>3. CASE Waits(g)
      <4>1. PICK x : WaitsFor(g) = {x}
        BY <2>5, <2>9, <3>3
      <4>2. Runs(g) = {} /\ Resumptions(g) = {} /\ outside \cap {g} = {}
        BY <2>1, <2>6, <2>7, <3>3 DEF OneKind
      <4>3. placed = {<<"wait", x>>}
        BY <4>1, <4>2
      <4> QED
        BY <2>11, <4>3
    <3>4. CASE g \in outside
      <4>1. outside \cap {g} = {g}
        BY <3>4
      <4>2. Runs(g) = {} /\ Resumptions(g) = {} /\ WaitsFor(g) = {}
        BY <2>1, <2>6, <2>7, <2>8, <3>4 DEF OneKind
      <4>3. placed = {<<"outside", g>>}
        BY <4>1, <4>2
      <4> QED
        BY <2>11, <4>3
    <3> QED
      BY <2>1, <2>11, <3>1, <3>2, <3>3, <3>4 DEF OneKind
  <2> QED
    BY <2>10, <2>11
<1> QED
  BY <1>1, InvariantHolds, PTL

-----------------------------------------------------------------------------
(* The refinement                                                            *)

\* A step that answers the next request of one generator.
LEMMA AnswersNext ==
  ASSUME IInv, NEW g \in Generators, NEW r \in DOMAIN asked[g], r = Len(answers[g]) + 1, NEW res \in Queue!Results,
         state[g] # "completed" \/ res = Queue!Late(asked[g][r]),
         answers' = [answers EXCEPT ![g] = Append(@, [req |-> r, res |-> res])], asked' = asked
  PROVE  Queue!Next
<1>1. r <= Len(asked[g])
  BY LenProperties DEF IInv, TypeOK
<1>2. Queue!Over(answers[g]) => res = Queue!Late(asked[g][r])
  BY DEF IInv, StatesAgree
<1>3. Queue!Answer(g)
  BY <1>1, <1>2 DEF Queue!Answer
<1> QED
  BY <1>3 DEF Queue!Next

LEMMA Refines ==
  ASSUME IInv, Next PROVE Queue!Next \/ UNCHANGED <<asked, answers>>
<1>1. ASSUME NEW g \in Generators, NEW kind \in Kinds, Ask(g, kind) PROVE Queue!Next
  <2>1. Queue!Ask(g)
    BY <1>1 DEF Ask, Queue!Ask, Kinds, Queue!Kinds
  <2> QED
    BY <2>1 DEF Queue!Next
<1>2. ASSUME NEW g \in Generators, Pump(g) PROVE Queue!Next \/ UNCHANGED <<asked, answers>>
  <2>1. CASE PumpEnds(g) \/ PumpRuns(g)
    BY <2>1 DEF PumpEnds, PumpRuns
  <2>2. CASE PumpCompleted(g)
    <3> DEFINE res == IF Kind(g) = "throw" THEN "rejected" ELSE "done"
    <3>1. /\ Take(g) /\ asked' = asked
          /\ answers' = [answers EXCEPT ![g] = Append(@, [req |-> Request(g), res |-> res])]
      BY <2>2 DEF PumpCompleted, Answer
    <3>2. res \in Queue!Results /\ res = Queue!Late(asked[g][Request(g)])
      BY DEF Queue!Results, Queue!Late, Kind
    <3>3. Request(g) = Len(answers[g]) + 1 /\ Request(g) \in DOMAIN asked[g]
      BY <3>1, TakeFacts
    <3> HIDE DEF res
    <3> QED
      BY <3>1, <3>2, <3>3, AnswersNext
  <2>3. CASE PumpReturn(g) \/ PumpThrow(g)
    <3>1. PICK res \in {"done", "rejected"} :
            /\ Take(g) /\ state[g] # "completed" /\ asked' = asked
            /\ answers' = [answers EXCEPT ![g] = Append(@, [req |-> Request(g), res |-> res])]
      BY <2>3 DEF PumpReturn, PumpThrow, Ends, Answer
    <3>2. res \in Queue!Results
      BY DEF Queue!Results
    <3>3. Request(g) = Len(answers[g]) + 1 /\ Request(g) \in DOMAIN asked[g]
      BY <3>1, TakeFacts
    <3> QED
      BY <3>1, <3>2, <3>3, AnswersNext
  <2> QED
    BY <1>2, <2>1, <2>2, <2>3 DEF Pump
<1>3. ASSUME NEW g \in Generators, OnStack(g) \/ IsDue(g), NEW res \in Queue!Results, asked' = asked,
             answers' = [answers EXCEPT ![g] = Append(@, [req |-> current[g], res |-> res])]
      PROVE  Queue!Next
  <2>1. current[g] = Len(answers[g]) + 1 /\ current[g] \in DOMAIN asked[g] /\ state[g] # "completed"
    BY <1>3, BodyFacts
  <2> QED
    BY <1>3, <2>1, AnswersNext
<1>4. ASSUME NEW g \in Generators, Body(g) PROVE Queue!Next \/ UNCHANGED <<asked, answers>>
  <2>1. CASE AwaitOutside(g) \/ \E h \in Generators, r \in Requests : AwaitAnswer(g, h, r)
    BY <2>1 DEF AwaitOutside, AwaitAnswer
  <2>2. CASE Yield(g) \/ \E res \in {"done", "rejected"} : Finish(g, res)
    <3>1. PICK res \in Queue!Results :
            /\ Top(g, "body") /\ asked' = asked
            /\ answers' = [answers EXCEPT ![g] = Append(@, [req |-> current[g], res |-> res])]
      BY <2>2 DEF Yield, Finish, Ends, Answer, Queue!Results
    <3>2. OnStack(g)
      BY <3>1, Types, HeadInStack DEF IInv, Top, OnStack
    <3> QED
      BY <1>3, <3>1, <3>2
  <2> QED
    BY <1>4, <2>1, <2>2 DEF Body
<1>5. ASSUME NEW g \in Generators, Job(g) PROVE Queue!Next \/ UNCHANGED <<asked, answers>>
  <2>1. CASE Resume(g)
    BY <2>1 DEF Resume
  <2>2. CASE ResumeFails(g)
    <3>1. /\ asked' = asked /\ jobs # << >> /\ Head(jobs).gen = g
          /\ answers' = [answers EXCEPT ![g] = Append(@, [req |-> current[g], res |-> "rejected"])]
      BY <2>2 DEF ResumeFails
    <3>2. IsDue(g) /\ "rejected" \in Queue!Results
      BY <3>1, TailJobs DEF IInv, Queue!Results
    <3> QED
      BY <1>3, <3>1, <3>2
  <2> QED
    BY <1>5, <2>1, <2>2 DEF Job
<1>6. ASSUME NEW g \in Generators, NEW throw \in BOOLEAN, Settle(g, throw) PROVE UNCHANGED <<asked, answers>>
  BY <1>6 DEF Settle
<1> QED
  BY <1>1, <1>2, <1>4, <1>5, <1>6 DEF Next

\* The queue, the pump and the body implement the abstract queue of requests:
\* each is answered once, in order, and after the end of the body the later
\* ones are answered without it (async_generator.go:90-124).
THEOREM QueueImplemented == Spec => ImplementsRequestQueue
<1>1. Init => Queue!Init
  BY DEF Init, Queue!Init
<1>2. IInv /\ [Next]_vars => [Queue!Next]_<<asked, answers>>
  BY Refines DEF vars
<1> QED
  BY <1>1, <1>2, InvariantHolds, PTL DEF Spec, ImplementsRequestQueue, Queue!Spec
=============================================================================

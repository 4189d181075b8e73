------------------------- MODULE TryFinally_proofs -------------------------
(***************************************************************************)
(* Proofs about TryFinally, for any values, depth of nesting and number of *)
(* calls: the handler stack follows the position, control passes through   *)
(* the finally blocks, and every instruction does what ECMA-262 says.      *)
(***************************************************************************)
EXTENDS TryFinally, Integers, SequenceTheorems, WellFoundedInduction, TLAPS

-----------------------------------------------------------------------------
(* The inductive invariant                                                  *)

Jump == [type : {"jump"}, value : Seq(TypeOfPart)]
Resumable == {c \in Completion : c.type = "return"} \cup Jump

Handler == [at : Seq(TypeOfPart), hasCatch : BOOLEAN, hasFinally : BOOLEAN, phase : 0..2,
            exc : Values \cup {None}, completion : Resumable \cup {None}]
Frame == [pc : Seq(TypeOfPart), tryStack : Seq(Handler)]

PartOf(h) == [catch |-> h.hasCatch, finally |-> h.hasFinally,
              part |-> CASE h.phase = 0 -> "try" [] h.phase = 1 -> "catch" [] h.phase = 2 -> "finally"]

\* Handler h stands for statement j of the position pc.  Nothing is pending
\* before its finally block, and a jump pending there ends outside of it.
Matches(pc, j, h) ==
    /\ h.at = Prefix(pc, j - 1) /\ pc[j] = PartOf(h) /\ (h.hasCatch \/ h.hasFinally)
    /\ h.phase = 0 => h.exc = None
    /\ h.phase < 2 => h.completion = None
    /\ h.completion \in Jump =>
         Len(h.completion.value) < j /\ h.completion.value = Prefix(pc, Len(h.completion.value))

FrameOK(f) ==
    /\ f \in Frame /\ Len(f.tryStack) = Len(f.pc)
    /\ \A j \in 1..Len(f.pc) : Matches(f.pc, j, f.tryStack[j])

IInv ==
    /\ frames \in Seq(Frame) /\ \A i \in 1..Len(frames) : FrameOK(frames[i])
    /\ out \in Completion \cup {None}

-----------------------------------------------------------------------------
(* The greatest of a set of positions, and sequences that share a prefix.   *)

Smaller == {p \in Nat \X Nat : p[1] < p[2]}

LEMMA LeastNumber ==
    ASSUME NEW T, T \subseteq Nat, T # {}
    PROVE  \E n \in T : \A m \in T : n <= m
<1>1. IsWellFoundedOn(Smaller, Nat)
  BY NatLessThanWellFounded DEF OpToRel, Smaller
<1>2. PICK n \in T : \A m \in T : ~(<<m, n>> \in Smaller)
  BY <1>1, WFMin
<1>3. ASSUME NEW m \in T PROVE n <= m
  <2>1. m \in Nat /\ n \in Nat
    BY <1>2
  <2>2. m < n => <<m, n>> \in Smaller
    BY <2>1 DEF Smaller
  <2>3. ~(m < n)
    BY <1>2, <2>2
  <2> QED BY <2>1, <2>3
<1> QED BY <1>2, <1>3

LEMMA MaxOf ==
    ASSUME NEW n \in Nat, NEW S \in SUBSET (1..n), S # {}
    PROVE  /\ Max(S) \in S
           /\ \A j \in S : j <= Max(S)
<1> DEFINE U == {u \in Nat : \A j \in S : j <= u}
<1>1. PICK m \in U : \A u \in U : m <= u
  <2>1. n \in U
    OBVIOUS
  <2> QED BY <2>1, LeastNumber
<1>2. m \in S
  <2>1. SUFFICES ASSUME m \notin S PROVE FALSE
    OBVIOUS
  <2>2. PICK s \in S : TRUE
    OBVIOUS
  <2>3. s \in Nat /\ m \in Nat /\ s <= m /\ s >= 1 /\ s # m
    BY <1>1, <2>1
  <2>4. \A j \in S : j <= m - 1
    BY <1>1, <2>1
  <2>5. m - 1 \in U
    BY <2>3, <2>4
  <2> QED BY <1>1, <2>3, <2>5
<1>3. \A j \in S : m >= j
  BY <1>1
<1>4. Max(S) \in S /\ \A j \in S : Max(S) >= j
  BY <1>2, <1>3 DEF Max
<1> QED BY <1>4

LEMMA PrefixFacts ==
    ASSUME NEW S, NEW s \in Seq(S), NEW n \in 0..Len(s)
    PROVE  /\ Prefix(s, n) \in Seq(S) /\ Len(Prefix(s, n)) = n
           /\ \A i \in 1..n : Prefix(s, n)[i] = s[i]
BY SubSeqProperties DEF Prefix

LEMMA PrefixPrefix ==
    ASSUME NEW S, NEW s \in Seq(S), NEW n \in 0..Len(s), NEW m \in 0..n
    PROVE  Prefix(Prefix(s, n), m) = Prefix(s, m)
<1>1. m \in 0..Len(s) /\ m \in 0..Len(Prefix(s, n)) /\ Prefix(s, n) \in Seq(S)
  BY PrefixFacts
<1>2. /\ Prefix(s, m) \in Seq(S) /\ Len(Prefix(s, m)) = m
      /\ \A i \in 1..m : Prefix(s, m)[i] = s[i]
  BY <1>1, PrefixFacts
<1>3. /\ Prefix(Prefix(s, n), m) \in Seq(S) /\ Len(Prefix(Prefix(s, n), m)) = m
      /\ \A i \in 1..m : Prefix(Prefix(s, n), m)[i] = Prefix(s, n)[i]
  BY <1>1, PrefixFacts
<1>4. \A i \in 1..m : Prefix(s, n)[i] = s[i]
  <2>1. \A i \in 1..n : Prefix(s, n)[i] = s[i]
    BY PrefixFacts
  <2>2. n \in Nat /\ m <= n
    BY LenProperties
  <2> QED BY <2>1, <2>2
<1> QED BY <1>2, <1>3, <1>4, SeqEqual

LEMMA AppendFacts ==
    ASSUME NEW S, NEW s \in Seq(S), NEW e \in S
    PROVE  /\ Append(s, e) \in Seq(S) /\ Len(Append(s, e)) = Len(s) + 1
           /\ \A i \in 1..Len(s) : Append(s, e)[i] = s[i]
           /\ Append(s, e)[Len(s) + 1] = e
OBVIOUS

LEMMA PrefixAppend ==
    ASSUME NEW S, NEW s \in Seq(S), NEW e \in S, NEW n \in 0..Len(s)
    PROVE  Prefix(Append(s, e), n) = Prefix(s, n)
<1>1. /\ Prefix(s, n) \in Seq(S) /\ Len(Prefix(s, n)) = n
      /\ \A i \in 1..n : Prefix(s, n)[i] = s[i]
  BY PrefixFacts
<1>2. Append(s, e) \in Seq(S) /\ n \in 0..Len(Append(s, e)) /\ Len(s) \in Nat
  BY AppendFacts, LenProperties
<1>3. /\ Prefix(Append(s, e), n) \in Seq(S) /\ Len(Prefix(Append(s, e), n)) = n
      /\ \A i \in 1..n : Prefix(Append(s, e), n)[i] = Append(s, e)[i]
  BY <1>2, PrefixFacts
<1>4. \A i \in 1..n : Append(s, e)[i] = s[i]
  BY <1>2, AppendFacts
<1> QED BY <1>1, <1>3, <1>4, SeqEqual

\* Replacing the last element.
LEMMA LastReplaced ==
    ASSUME NEW S, NEW s \in Seq(S), s # << >>, NEW e \in S
    PROVE  [s EXCEPT ![Len(s)] = e] = Append(Prefix(s, Len(s) - 1), e)
<1>1. Len(s) \in Nat /\ Len(s) >= 1 /\ Len(s) - 1 \in 0..Len(s)
  BY LenProperties, EmptySeq
<1>2. /\ [s EXCEPT ![Len(s)] = e] \in Seq(S) /\ Len([s EXCEPT ![Len(s)] = e]) = Len(s)
      /\ \A j \in 1..Len(s) : [s EXCEPT ![Len(s)] = e][j] = IF j = Len(s) THEN e ELSE s[j]
  BY <1>1, ExceptSeq
<1>3. /\ Prefix(s, Len(s) - 1) \in Seq(S) /\ Len(Prefix(s, Len(s) - 1)) = Len(s) - 1
      /\ \A i \in 1..(Len(s) - 1) : Prefix(s, Len(s) - 1)[i] = s[i]
  BY <1>1, PrefixFacts
<1> DEFINE t == Append(Prefix(s, Len(s) - 1), e)
<1>4. /\ t \in Seq(S) /\ Len(t) = Len(s)
      /\ \A i \in 1..(Len(s) - 1) : t[i] = Prefix(s, Len(s) - 1)[i]
      /\ t[Len(s)] = e
  BY <1>1, <1>3, AppendFacts
<1> HIDE DEF t
<1>5. \A j \in 1..Len(s) : t[j] = [s EXCEPT ![Len(s)] = e][j]
  <2> TAKE j \in 1..Len(s)
  <2>1. CASE j = Len(s)
    BY <1>2, <1>4, <2>1
  <2>2. CASE j # Len(s)
    <3>1. j \in 1..(Len(s) - 1)
      BY <1>1, <2>2
    <3>2. [s EXCEPT ![Len(s)] = e][j] = s[j]
      BY <1>2, <2>2
    <3>3. t[j] = s[j]
      BY <1>3, <1>4, <3>1
    <3> QED BY <3>2, <3>3
  <2> QED BY <2>1, <2>2
<1>6. t = [s EXCEPT ![Len(s)] = e]
  BY <1>2, <1>4, <1>5, SeqEqual
<1> QED BY <1>6 DEF t

-----------------------------------------------------------------------------
(* Every instruction cuts a frame back to some depth, and may then put one  *)
(* handler on it.                                                           *)

Cut(f, k) == [pc |-> Prefix(f.pc, k), tryStack |-> Prefix(f.tryStack, k)]
Put(f, h) == [pc |-> Append(f.pc, PartOf(h)), tryStack |-> Append(f.tryStack, h)]

Fits(f, h) ==
    /\ h.at = f.pc /\ (h.hasCatch \/ h.hasFinally)
    /\ h.phase = 0 => h.exc = None
    /\ h.phase < 2 => h.completion = None
    /\ h.completion \in Jump =>
         Len(h.completion.value) <= Len(f.pc) /\ h.completion.value = Prefix(f.pc, Len(h.completion.value))

LEMMA FrameFacts ==
    ASSUME NEW f, FrameOK(f)
    PROVE  /\ f.pc \in Seq(TypeOfPart) /\ f.tryStack \in Seq(Handler)
           /\ Len(f.pc) \in Nat /\ Len(f.tryStack) = Len(f.pc)
           /\ DOMAIN f.pc = 1..Len(f.pc) /\ DOMAIN f.tryStack = 1..Len(f.pc)
           /\ f = [pc |-> f.pc, tryStack |-> f.tryStack]
           /\ \A j \in 1..Len(f.pc) : /\ f.pc[j] \in TypeOfPart /\ f.tryStack[j] \in Handler
                                      /\ Matches(f.pc, j, f.tryStack[j])
<1>1. f.pc \in Seq(TypeOfPart) /\ f.tryStack \in Seq(Handler) /\ f = [pc |-> f.pc, tryStack |-> f.tryStack]
  BY DEF FrameOK, Frame
<1>2. Len(f.tryStack) = Len(f.pc) /\ \A j \in 1..Len(f.pc) : Matches(f.pc, j, f.tryStack[j])
  BY DEF FrameOK
<1>3. Len(f.pc) \in Nat /\ DOMAIN f.pc = 1..Len(f.pc) /\ DOMAIN f.tryStack = 1..Len(f.tryStack)
  BY <1>1, LenProperties
<1>4. \A j \in 1..Len(f.pc) : f.pc[j] \in TypeOfPart /\ f.tryStack[j] \in Handler
  BY <1>1, <1>2, ElementOfSeq
<1> QED BY <1>1, <1>2, <1>3, <1>4

LEMMA HandlerFields ==
    ASSUME NEW h \in Handler
    PROVE  /\ h.at \in Seq(TypeOfPart) /\ h.hasCatch \in BOOLEAN /\ h.hasFinally \in BOOLEAN
           /\ h.phase \in 0..2 /\ h.exc \in Values \cup {None} /\ h.completion \in Resumable \cup {None}
BY DEF Handler

LEMMA PartOfFields ==
    /\ \A h : PartOf(h).catch = h.hasCatch /\ PartOf(h).finally = h.hasFinally
    /\ \A h \in Handler :
         /\ (PartOf(h).part = "try") <=> (h.phase = 0)
         /\ (PartOf(h).part = "catch") <=> (h.phase = 1)
         /\ (PartOf(h).part = "finally") <=> (h.phase = 2)
<1>1. \A h : PartOf(h).catch = h.hasCatch /\ PartOf(h).finally = h.hasFinally
  BY DEF PartOf
<1>2. ASSUME NEW h \in Handler
      PROVE  /\ (PartOf(h).part = "try") <=> (h.phase = 0)
             /\ (PartOf(h).part = "catch") <=> (h.phase = 1)
             /\ (PartOf(h).part = "finally") <=> (h.phase = 2)
  <2>1. h.phase = 0 \/ h.phase = 1 \/ h.phase = 2
    BY HandlerFields
  <2>2. CASE h.phase = 0
    BY <2>2 DEF PartOf
  <2>3. CASE h.phase = 1
    BY <2>3 DEF PartOf
  <2>4. CASE h.phase = 2
    BY <2>4 DEF PartOf
  <2> QED BY <2>1, <2>2, <2>3, <2>4
<1> QED BY <1>1, <1>2

LEMMA PartOfType == \A h \in Handler : PartOf(h) \in TypeOfPart
BY DEF Handler, PartOf, TypeOfPart

LEMMA MatchesPrefix ==
    ASSUME NEW pc \in Seq(TypeOfPart), NEW k \in 0..Len(pc), NEW j \in 1..k, NEW h
    PROVE  Matches(pc, j, h) <=> Matches(Prefix(pc, k), j, h)
<1>0. Len(pc) \in Nat /\ j - 1 \in 0..k /\ j \in 1..k /\ k \in Nat
  BY LenProperties
<1>1. Prefix(Prefix(pc, k), j - 1) = Prefix(pc, j - 1)
  BY <1>0, PrefixPrefix
<1>2. Prefix(pc, k)[j] = pc[j]
  BY <1>0, PrefixFacts
<1>3. ASSUME h.completion \in Jump, Len(h.completion.value) < j
      PROVE  Prefix(Prefix(pc, k), Len(h.completion.value)) = Prefix(pc, Len(h.completion.value))
  <2>1. h.completion.value \in Seq(TypeOfPart)
    BY <1>3 DEF Jump
  <2>2. Len(h.completion.value) \in 0..k
    BY <1>0, <1>3, <2>1, LenProperties
  <2> QED BY <2>2, PrefixPrefix
<1> QED BY <1>1, <1>2, <1>3 DEF Matches

LEMMA CutOK ==
    ASSUME NEW f, FrameOK(f), NEW k \in 0..Len(f.pc)
    PROVE  FrameOK(Cut(f, k)) /\ Len(Cut(f, k).pc) = k
<1>1. /\ f.pc \in Seq(TypeOfPart) /\ f.tryStack \in Seq(Handler)
      /\ Len(f.pc) \in Nat /\ Len(f.tryStack) = Len(f.pc)
      /\ \A j \in 1..Len(f.pc) : Matches(f.pc, j, f.tryStack[j])
  BY FrameFacts
<1>2. /\ Prefix(f.pc, k) \in Seq(TypeOfPart) /\ Len(Prefix(f.pc, k)) = k
      /\ \A i \in 1..k : Prefix(f.pc, k)[i] = f.pc[i]
  BY <1>1, PrefixFacts
<1>3. /\ Prefix(f.tryStack, k) \in Seq(Handler) /\ Len(Prefix(f.tryStack, k)) = k
      /\ \A i \in 1..k : Prefix(f.tryStack, k)[i] = f.tryStack[i]
  <2>1. k \in 0..Len(f.tryStack)
    BY <1>1
  <2> QED BY <1>1, <2>1, PrefixFacts
<1>4. \A j \in 1..k : Matches(Prefix(f.pc, k), j, Prefix(f.tryStack, k)[j])
  <2> TAKE j \in 1..k
  <2>1. j \in 1..Len(f.pc)
    BY <1>1
  <2> QED BY <1>1, <1>3, <2>1, MatchesPrefix
<1>5. Cut(f, k) \in Frame
  BY <1>2, <1>3 DEF Cut, Frame
<1> QED BY <1>2, <1>3, <1>4, <1>5 DEF Cut, FrameOK

LEMMA PutOK ==
    ASSUME NEW f, FrameOK(f), NEW h \in Handler, Fits(f, h)
    PROVE  FrameOK(Put(f, h)) /\ Len(Put(f, h).pc) = Len(f.pc) + 1
<1>1. /\ f.pc \in Seq(TypeOfPart) /\ f.tryStack \in Seq(Handler)
      /\ Len(f.pc) \in Nat /\ Len(f.tryStack) = Len(f.pc)
      /\ \A j \in 1..Len(f.pc) : Matches(f.pc, j, f.tryStack[j])
  BY FrameFacts
<1> DEFINE pc == Append(f.pc, PartOf(h))
           ts == Append(f.tryStack, h)
<1>2. /\ pc \in Seq(TypeOfPart) /\ Len(pc) = Len(f.pc) + 1 /\ pc[Len(f.pc) + 1] = PartOf(h)
  BY <1>1, PartOfType, AppendFacts
<1>3. /\ ts \in Seq(Handler) /\ Len(ts) = Len(f.pc) + 1
      /\ \A i \in 1..Len(f.pc) : ts[i] = f.tryStack[i]
      /\ ts[Len(f.pc) + 1] = h
  BY <1>1, AppendFacts
<1>4. \A n \in 0..Len(f.pc) : Prefix(pc, n) = Prefix(f.pc, n)
  BY <1>1, PartOfType, PrefixAppend
<1>5. Prefix(pc, Len(f.pc)) = f.pc
  BY <1>1, <1>4, SubSeqFull DEF Prefix
<1> HIDE DEF pc, ts
<1>6. \A j \in 1..(Len(f.pc) + 1) : Matches(pc, j, ts[j])
  <2> TAKE j \in 1..(Len(f.pc) + 1)
  <2>1. CASE j = Len(f.pc) + 1
    <3>1. ts[j] = h /\ pc[j] = PartOf(h) /\ j - 1 = Len(f.pc)
      BY <1>1, <1>2, <1>3, <2>1
    <3>2. h.at = Prefix(pc, j - 1)
      BY <1>5, <3>1 DEF Fits
    <3>3. ASSUME h.completion \in Jump
          PROVE  Len(h.completion.value) < j /\ h.completion.value = Prefix(pc, Len(h.completion.value))
      <4>1. Len(h.completion.value) \in Nat
        BY <3>3, LenProperties DEF Jump
      <4>2. Len(h.completion.value) <= Len(f.pc) /\ h.completion.value = Prefix(f.pc, Len(h.completion.value))
        BY <3>3 DEF Fits
      <4>3. Len(h.completion.value) \in 0..Len(f.pc) /\ Len(h.completion.value) < j
        BY <1>1, <2>1, <4>1, <4>2
      <4> QED BY <1>4, <4>2, <4>3
    <3> QED BY <3>1, <3>2, <3>3 DEF Matches, Fits
  <2>2. CASE j # Len(f.pc) + 1
    <3>1. j \in 1..Len(f.pc) /\ Len(f.pc) \in 0..Len(pc)
      BY <1>1, <1>2, <2>2
    <3>2. Matches(Prefix(pc, Len(f.pc)), j, ts[j])
      BY <1>1, <1>3, <1>5, <3>1
    <3> QED BY <1>2, <3>1, <3>2, MatchesPrefix
  <2> QED BY <2>1, <2>2
<1>7. Put(f, h) = [pc |-> pc, tryStack |-> ts]
  BY DEF Put, pc, ts
<1>8. Put(f, h) \in Frame
  BY <1>2, <1>3, <1>7 DEF Frame
<1> QED BY <1>2, <1>3, <1>6, <1>7, <1>8 DEF FrameOK

\* A handler of a frame fits where it is.
LEMMA FitsWhereItIs ==
    ASSUME NEW f, FrameOK(f), NEW j \in 1..Len(f.pc)
    PROVE  f.tryStack[j] \in Handler /\ Fits(Cut(f, j - 1), f.tryStack[j])
<1> DEFINE h == f.tryStack[j]
<1>1. f.pc \in Seq(TypeOfPart) /\ Len(f.pc) \in Nat /\ h \in Handler /\ Matches(f.pc, j, h)
  BY FrameFacts
<1>2. j - 1 \in 0..Len(f.pc) /\ Len(Prefix(f.pc, j - 1)) = j - 1 /\ Cut(f, j - 1).pc = Prefix(f.pc, j - 1)
  <2>1. j - 1 \in 0..Len(f.pc)
    BY <1>1
  <2> QED BY <1>1, <2>1, PrefixFacts DEF Cut
<1> HIDE DEF h
<1>3. ASSUME h.completion \in Jump
      PROVE  /\ Len(h.completion.value) <= j - 1
             /\ h.completion.value = Prefix(Prefix(f.pc, j - 1), Len(h.completion.value))
  <2>1. Len(h.completion.value) \in Nat
    BY <1>3, LenProperties DEF Jump
  <2>2. Len(h.completion.value) < j /\ h.completion.value = Prefix(f.pc, Len(h.completion.value))
    BY <1>1, <1>3 DEF Matches
  <2>3. Len(h.completion.value) \in 0..(j - 1)
    BY <1>1, <2>1, <2>2
  <2> QED BY <1>1, <1>2, <2>2, <2>3, PrefixPrefix
<1>4. Fits(Cut(f, j - 1), h)
  BY <1>1, <1>2, <1>3 DEF Fits, Matches
<1> QED BY <1>1, <1>4 DEF h

-----------------------------------------------------------------------------
(* What the handlers do to a frame.                                         *)

Caught(h, exc) == IF h.hasCatch THEN [h EXCEPT !.phase = 1, !.exc = exc]
                                ELSE [h EXCEPT !.phase = 2, !.exc = exc]
Deferred(h, c) == [h EXCEPT !.completion = c, !.phase = 2]
Ending(h) == [h EXCEPT !.phase = 2, !.exc = IF h.phase = 1 THEN None ELSE h.exc]

\* A completion resumed in f: a jump ends at the position f has at that depth.
Aims(f, c) ==
    /\ c \in Resumable
    /\ c \in Jump => Len(c.value) <= Len(f.pc) /\ c.value = Prefix(f.pc, Len(c.value))

DepthOf(c) == IF c \in Jump THEN Len(c.value) ELSE 0
FinallyOnTheWay(f, c) == {j \in 1..Len(f.pc) : j > DepthOf(c) /\ RunsFinally(f.tryStack[j])}

LEMMA NoneIsNothing ==
    /\ None \notin Values /\ None \notin Completion /\ None \notin Jump /\ None \notin Resumable
    /\ \A n \in Nat : [type |-> "jump", value |-> n] # None
    /\ \A c \in Completion : c \notin Jump
    /\ \A c \in Jump : c.type = "jump" /\ c.value \in Seq(TypeOfPart) /\ Len(c.value) \in Nat
    /\ \A c \in Completion : c.type # "jump"
    /\ \A c \in Resumable : c \in Jump <=> c.type = "jump"
<1>1. None \notin Values /\ None \notin Completion
      /\ None \notin [type : {"jump"}, value : Nat \cup Seq(TypeOfPart)]
  BY NoneAssumption
<1>2. Jump \subseteq [type : {"jump"}, value : Nat \cup Seq(TypeOfPart)]
  BY DEF Jump
<1>3. \A n \in Nat : [type |-> "jump", value |-> n] \in [type : {"jump"}, value : Nat \cup Seq(TypeOfPart)]
  OBVIOUS
<1>4. \A c \in Completion : c.type # "jump"
  BY DEF Completion
<1>5. \A c \in Jump : c.type = "jump" /\ c.value \in Seq(TypeOfPart) /\ Len(c.value) \in Nat
  BY LenProperties DEF Jump
<1>6. \A c \in Resumable : c \in Jump \/ c \in Completion
  BY DEF Resumable
<1> QED BY <1>1, <1>2, <1>3, <1>4, <1>5, <1>6

\* The handler h with other things in its mutable fields.
Changed(h, phase, exc, completion) ==
    [at |-> h.at, hasCatch |-> h.hasCatch, hasFinally |-> h.hasFinally,
     phase |-> phase, exc |-> exc, completion |-> completion]

LEMMA ChangedIsHandler ==
    ASSUME NEW h \in Handler, NEW phase \in 0..2, NEW exc \in Values \cup {None},
           NEW completion \in Resumable \cup {None}
    PROVE  Changed(h, phase, exc, completion) \in Handler
<1>1. h.at \in Seq(TypeOfPart) /\ h.hasCatch \in BOOLEAN /\ h.hasFinally \in BOOLEAN
  BY HandlerFields
<1> QED BY <1>1 DEF Handler, Changed

LEMMA LastOfPrefix ==
    ASSUME NEW S, NEW s \in Seq(S), NEW i \in 1..Len(s)
    PROVE  Append(Prefix(s, i - 1), s[i]) = Prefix(s, i)
<1>1. Len(s) \in Nat /\ i - 1 \in 0..Len(s) /\ i \in 0..Len(s) /\ s[i] \in S
  BY LenProperties, ElementOfSeq
<1>2. /\ Prefix(s, i - 1) \in Seq(S) /\ Len(Prefix(s, i - 1)) = i - 1
      /\ \A j \in 1..(i - 1) : Prefix(s, i - 1)[j] = s[j]
  BY <1>1, PrefixFacts
<1>3. Prefix(s, i) \in Seq(S) /\ Len(Prefix(s, i)) = i /\ \A j \in 1..i : Prefix(s, i)[j] = s[j]
  BY <1>1, PrefixFacts
<1> DEFINE t == Append(Prefix(s, i - 1), s[i])
<1>4. /\ t \in Seq(S) /\ Len(t) = i /\ \A j \in 1..(i - 1) : t[j] = Prefix(s, i - 1)[j]
      /\ t[i] = s[i]
  BY <1>1, <1>2, AppendFacts
<1> HIDE DEF t
<1>5. \A j \in 1..i : t[j] = Prefix(s, i)[j]
  <2> TAKE j \in 1..i
  <2>1. j = i \/ j \in 1..(i - 1)
    BY <1>1
  <2> QED BY <1>2, <1>3, <1>4, <2>1
<1>6. t = Prefix(s, i)
  BY <1>3, <1>4, <1>5, SeqEqual
<1> QED BY <1>6 DEF t

LEMMA CaughtFacts ==
    ASSUME NEW f, NEW h \in Handler, Fits(f, h), h.phase = 0, NEW exc \in Values
    PROVE  /\ Caught(h, exc) \in Handler /\ Fits(f, Caught(h, exc))
           /\ Caught(h, exc).at = h.at /\ Caught(h, exc).hasCatch = h.hasCatch
           /\ Caught(h, exc).hasFinally = h.hasFinally
           /\ Caught(h, exc).phase = (IF h.hasCatch THEN 1 ELSE 2)
           /\ Caught(h, exc).exc = exc /\ Caught(h, exc).completion = None
<1> DEFINE g == Caught(h, exc)
<1>1. h.completion = None /\ h.at = f.pc /\ (h.hasCatch \/ h.hasFinally)
  BY DEF Fits
<1>2. /\ g \in Handler /\ g.at = h.at /\ g.hasCatch = h.hasCatch /\ g.hasFinally = h.hasFinally
      /\ g.phase = (IF h.hasCatch THEN 1 ELSE 2) /\ g.exc = exc /\ g.completion = h.completion
  <2>1. CASE h.hasCatch
    <3>1. g = Changed(h, 1, exc, h.completion)
      BY <2>1 DEF Caught, Handler, Changed
    <3> HIDE DEF g
    <3>2. g \in Handler
      BY <3>1, HandlerFields, ChangedIsHandler
    <3> QED BY <2>1, <3>1, <3>2 DEF Changed
  <2>2. CASE ~h.hasCatch
    <3>1. g = Changed(h, 2, exc, h.completion)
      BY <2>2 DEF Caught, Handler, Changed
    <3> HIDE DEF g
    <3>2. g \in Handler
      BY <3>1, HandlerFields, ChangedIsHandler
    <3> QED BY <2>2, <3>1, <3>2 DEF Changed
  <2> QED BY <2>1, <2>2
<1> HIDE DEF g
<1>3. Fits(f, g)
  BY <1>1, <1>2, NoneIsNothing DEF Fits
<1> QED BY <1>1, <1>2, <1>3 DEF g

LEMMA DeferredFacts ==
    ASSUME NEW f, NEW h \in Handler, Fits(f, h), NEW c \in Resumable,
           c \in Jump => Len(c.value) <= Len(f.pc) /\ c.value = Prefix(f.pc, Len(c.value))
    PROVE  /\ Deferred(h, c) \in Handler /\ Fits(f, Deferred(h, c))
           /\ Deferred(h, c).at = h.at /\ Deferred(h, c).hasCatch = h.hasCatch
           /\ Deferred(h, c).hasFinally = h.hasFinally /\ Deferred(h, c).phase = 2
           /\ Deferred(h, c).exc = h.exc /\ Deferred(h, c).completion = c
<1> DEFINE g == Deferred(h, c)
<1>1. h.at = f.pc /\ (h.hasCatch \/ h.hasFinally)
  BY DEF Fits
<1>2. /\ g \in Handler /\ g.at = h.at /\ g.hasCatch = h.hasCatch /\ g.hasFinally = h.hasFinally
      /\ g.phase = 2 /\ g.exc = h.exc /\ g.completion = c
  <2>1. g = [h EXCEPT !.completion = c, !.phase = 2]
    BY DEF Deferred
  <2> HIDE DEF g
  <2>2. g = Changed(h, 2, h.exc, c)
    BY <2>1 DEF Handler, Changed
  <2>3. h.exc \in Values \cup {None} /\ c \in Resumable \cup {None} /\ 2 \in 0..2
    BY HandlerFields
  <2>4. g \in Handler
    BY <2>2, <2>3, ChangedIsHandler
  <2> QED BY <2>2, <2>4 DEF Changed
<1> HIDE DEF g
<1>3. Fits(f, g)
  BY <1>1, <1>2 DEF Fits
<1> QED BY <1>2, <1>3 DEF g

LEMMA EndingFacts ==
    ASSUME NEW f, NEW h \in Handler, Fits(f, h), h.phase < 2
    PROVE  /\ Ending(h) \in Handler /\ Fits(f, Ending(h))
           /\ Ending(h).at = h.at /\ Ending(h).hasCatch = h.hasCatch
           /\ Ending(h).hasFinally = h.hasFinally /\ Ending(h).phase = 2
           /\ Ending(h).exc = None /\ Ending(h).completion = None
<1> DEFINE g == Ending(h)
<1>1. h.at = f.pc /\ (h.hasCatch \/ h.hasFinally) /\ h.completion = None
  BY DEF Fits
<1>2. h.phase = 0 => h.exc = None
  BY DEF Fits
<1>3. h.phase = 0 \/ h.phase = 1
  BY DEF Handler
<1>4. /\ g \in Handler /\ g.at = h.at /\ g.hasCatch = h.hasCatch /\ g.hasFinally = h.hasFinally
      /\ g.phase = 2 /\ g.exc = None /\ g.completion = h.completion
  <2>1. g = [h EXCEPT !.phase = 2, !.exc = None]
    BY <1>2, <1>3 DEF Ending
  <2>2. g = Changed(h, 2, None, h.completion)
    BY <2>1 DEF Handler, Changed
  <2> HIDE DEF g
  <2>3. h.completion \in Resumable \cup {None} /\ None \in Values \cup {None} /\ 2 \in 0..2
    BY HandlerFields
  <2>4. g \in Handler
    BY <2>2, <2>3, ChangedIsHandler
  <2> QED BY <2>2, <2>4 DEF Changed
<1> HIDE DEF g
<1>5. Fits(f, g)
  BY <1>1, <1>4, NoneIsNothing DEF Fits
<1> QED BY <1>1, <1>4, <1>5 DEF g

\* Putting back a handler in another phase moves pc to that part.
LEMMA PutBack ==
    ASSUME NEW f, FrameOK(f), NEW i \in 1..Len(f.pc), NEW g,
           g.at = f.tryStack[i].at, g.hasCatch = f.tryStack[i].hasCatch,
           g.hasFinally = f.tryStack[i].hasFinally
    PROVE  Put(Cut(f, i - 1), g)
             = [pc |-> PartPC(f.tryStack[i], PartOf(g).part), tryStack |-> Append(Prefix(f.tryStack, i - 1), g)]
<1>1. f.tryStack[i].at = Prefix(f.pc, i - 1)
  BY FrameFacts DEF Matches
<1>2. PartOf(g) = [catch |-> f.tryStack[i].hasCatch, finally |-> f.tryStack[i].hasFinally, part |-> PartOf(g).part]
  <2> DEFINE p == CASE g.phase = 0 -> "try" [] g.phase = 1 -> "catch" [] g.phase = 2 -> "finally"
  <2>1. PartOf(g) = [catch |-> f.tryStack[i].hasCatch, finally |-> f.tryStack[i].hasFinally, part |-> p]
    BY DEF PartOf
  <2> HIDE DEF p
  <2>2. PartOf(g).part = p
    BY <2>1
  <2> QED BY <2>1, <2>2
<1> QED BY <1>1, <1>2 DEF Put, Cut, PartPC

LEMMA ThrowDoes ==
    ASSUME NEW f, FrameOK(f), NEW exc \in Values, handleThrow(f, exc)
    PROVE  \/ /\ findHandlerInFrame(f) = {}
              /\ frames' = Callers /\ out' = [type |-> "throw", value |-> exc]
           \/ \E i \in 1..Len(f.pc) :
                /\ i = Max(findHandlerInFrame(f)) /\ f.tryStack[i].phase = 0
                /\ \A j \in findHandlerInFrame(f) : j <= i
                /\ WithCur(Put(Cut(f, i - 1), Caught(f.tryStack[i], exc))) /\ out' = None
<1> DEFINE found == findHandlerInFrame(f)
           i == Max(found)
           h == f.tryStack[i]
<1>1. CASE found = {}
  BY <1>1 DEF handleThrow
<1>2. CASE found # {}
  <2>1. found \in SUBSET (1..Len(f.pc)) /\ Len(f.pc) \in Nat
    BY FrameFacts DEF findHandlerInFrame
  <2>2. i \in found /\ \A j \in found : j <= i
    <3> HIDE DEF found
    <3> QED BY <1>2, <2>1, MaxOf
  <2>3. i \in 1..Len(f.pc) /\ h.phase = 0
    BY <2>1, <2>2 DEF findHandlerInFrame
  <2>4. h \in Handler /\ Fits(Cut(f, i - 1), h)
    <3> HIDE DEF i
    <3> QED BY <2>3, FitsWhereItIs
  <2> DEFINE g == Caught(h, exc)
  <2>5. /\ g.at = h.at /\ g.hasCatch = h.hasCatch /\ g.hasFinally = h.hasFinally
        /\ g.phase = (IF h.hasCatch THEN 1 ELSE 2)
    <3> HIDE DEF h
    <3> QED BY <2>3, <2>4, CaughtFacts
  <2>6. PartOf(g).part = (IF h.hasCatch THEN "catch" ELSE "finally")
    <3> HIDE DEF g
    <3>1. CASE h.hasCatch
      <4>1. g.phase = 1
        BY <2>5, <3>1
      <4> QED BY <3>1, <4>1 DEF PartOf
    <3>2. CASE ~h.hasCatch
      <4>1. g.phase = 2
        BY <2>5, <3>2
      <4> QED BY <3>2, <4>1 DEF PartOf
    <3> QED BY <3>1, <3>2
  <2>7. Put(Cut(f, i - 1), g)
          = [pc |-> PartPC(h, PartOf(g).part), tryStack |-> Append(Prefix(f.tryStack, i - 1), g)]
    <3> HIDE DEF i, g
    <3> QED BY <2>3, <2>5, PutBack
  <2>8. /\ WithCur(IF h.hasCatch
                   THEN [pc |-> CatchPC(h), tryStack |-> Append(Prefix(f.tryStack, i - 1), [h EXCEPT !.phase = 1, !.exc = exc])]
                   ELSE [pc |-> FinallyPC(h), tryStack |-> Append(Prefix(f.tryStack, i - 1), [h EXCEPT !.phase = 2, !.exc = exc])])
        /\ out' = None
    BY <1>2 DEF handleThrow
  <2>9. WithCur(Put(Cut(f, i - 1), g)) /\ out' = None
    <3>1. CASE h.hasCatch
      <4>1. g = [h EXCEPT !.phase = 1, !.exc = exc]
        BY <3>1 DEF Caught
      <4> HIDE DEF g, h, i
      <4> QED BY <2>6, <2>7, <2>8, <3>1, <4>1 DEF CatchPC
    <3>2. CASE ~h.hasCatch
      <4>1. g = [h EXCEPT !.phase = 2, !.exc = exc]
        BY <3>2 DEF Caught
      <4> HIDE DEF g, h, i
      <4> QED BY <2>6, <2>7, <2>8, <3>2, <4>1 DEF FinallyPC
    <3> QED BY <3>1, <3>2
  <2> QED BY <2>2, <2>3, <2>9
<1> QED BY <1>1, <1>2

\* A jump stays in the statements up to the depth where it ends.
LEMMA StaysUpTo ==
    ASSUME NEW f, FrameOK(f), NEW c, Aims(f, c), NEW i \in 1..Len(f.pc)
    PROVE  Stays(f.tryStack[i], c) <=> c \in Jump /\ i <= Len(c.value)
<1> DEFINE h == f.tryStack[i]
<1>1. /\ f.pc \in Seq(TypeOfPart) /\ Len(f.pc) \in Nat
      /\ h.at = Prefix(f.pc, i - 1) /\ f.pc[i] = PartOf(h)
  BY FrameFacts DEF Matches
<1>2. Append(h.at, PartOf(h)) = Prefix(f.pc, i) /\ Len(Prefix(f.pc, i)) = i
  <2>1. i \in 0..Len(f.pc)
    BY <1>1
  <2>2. Append(Prefix(f.pc, i - 1), f.pc[i]) = Prefix(f.pc, i)
    BY <1>1, LastOfPrefix
  <2>3. Len(Prefix(f.pc, i)) = i
    BY <1>1, <2>1, PrefixFacts
  <2> QED BY <1>1, <2>2, <2>3
<1> HIDE DEF h
<1>3. jumpInsideRegion(h, c.value)
        <=> Len(c.value) >= i /\ Prefix(c.value, i) = Prefix(f.pc, i)
  BY <1>2 DEF jumpInsideRegion, PartPC, PartOf
<1>4. CASE c \in Jump
  <2>1. Len(c.value) \in 0..Len(f.pc) /\ c.value = Prefix(f.pc, Len(c.value)) /\ c.type = "jump"
    BY <1>4, <1>1, NoneIsNothing DEF Aims
  <2>2. ASSUME i <= Len(c.value) PROVE Prefix(c.value, i) = Prefix(f.pc, i)
    <3>1. i \in 0..Len(c.value)
      BY <2>1, <2>2
    <3> QED BY <1>1, <2>1, <3>1, PrefixPrefix
  <2>3. Stays(h, c) <=> Len(c.value) >= i
    BY <1>3, <2>1, <2>2 DEF Stays
  <2> QED BY <1>4, <2>1, <2>3 DEF h
<1>5. CASE c \notin Jump
  BY <1>5, NoneIsNothing DEF Stays, Aims, h
<1> QED BY <1>4, <1>5

LEMMA CutPutOK ==
    ASSUME NEW f, FrameOK(f), NEW i \in 1..Len(f.pc), NEW h \in Handler, Fits(Cut(f, i - 1), h)
    PROVE  FrameOK(Put(Cut(f, i - 1), h)) /\ Len(Put(Cut(f, i - 1), h).pc) = i
<1>1. i - 1 \in 0..Len(f.pc) /\ i \in Nat
  BY FrameFacts
<1>2. FrameOK(Cut(f, i - 1)) /\ Len(Cut(f, i - 1).pc) = i - 1
  BY <1>1, CutOK
<1>3. FrameOK(Put(Cut(f, i - 1), h)) /\ Len(Put(Cut(f, i - 1), h).pc) = (i - 1) + 1
  BY <1>2, PutOK
<1> QED BY <1>1, <1>3

\* The handler at which a completion stops before it leaves the frame.
LEMMA DeferredFits ==
    ASSUME NEW f, FrameOK(f), NEW c, Aims(f, c), NEW i \in FinallyOnTheWay(f, c)
    PROVE  LET h == f.tryStack[i]
               g == Deferred(h, c)
           IN  /\ i \in 1..Len(f.pc) /\ h \in Handler /\ RunsFinally(h) /\ c \in Resumable
               /\ g \in Handler /\ Fits(Cut(f, i - 1), g) /\ FrameOK(Put(Cut(f, i - 1), g))
               /\ Len(Put(Cut(f, i - 1), g).pc) = i
               /\ g.at = h.at /\ g.hasCatch = h.hasCatch /\ g.hasFinally = h.hasFinally /\ g.phase = 2
               /\ g.completion = c
<1> DEFINE h == f.tryStack[i]
           g == Deferred(h, c)
<1>1. i \in 1..Len(f.pc) /\ i > DepthOf(c) /\ RunsFinally(h) /\ c \in Resumable
  BY DEF FinallyOnTheWay, Aims
<1>2. h \in Handler /\ Fits(Cut(f, i - 1), h)
  BY <1>1, FitsWhereItIs
<1>3. f.pc \in Seq(TypeOfPart) /\ Len(f.pc) \in Nat
  BY FrameFacts
<1>4. c \in Jump => /\ Len(c.value) <= Len(Cut(f, i - 1).pc)
                    /\ c.value = Prefix(Cut(f, i - 1).pc, Len(c.value))
  <2>1. SUFFICES ASSUME c \in Jump
                 PROVE  /\ Len(c.value) <= Len(Prefix(f.pc, i - 1))
                        /\ c.value = Prefix(Prefix(f.pc, i - 1), Len(c.value))
    BY DEF Cut
  <2>2. Len(c.value) < i /\ Len(c.value) \in Nat /\ c.value = Prefix(f.pc, Len(c.value))
    BY <1>1, <2>1, NoneIsNothing DEF DepthOf, Aims
  <2>3. Len(c.value) \in 0..(i - 1) /\ i - 1 \in 0..Len(f.pc)
    BY <1>1, <1>3, <2>2
  <2>4. Len(Prefix(f.pc, i - 1)) = i - 1
    BY <1>3, <2>3, PrefixFacts
  <2>5. Prefix(Prefix(f.pc, i - 1), Len(c.value)) = Prefix(f.pc, Len(c.value))
    BY <1>3, <2>3, PrefixPrefix
  <2> QED BY <2>2, <2>3, <2>4, <2>5
<1>5. /\ g \in Handler /\ Fits(Cut(f, i - 1), g)
      /\ g.at = h.at /\ g.hasCatch = h.hasCatch /\ g.hasFinally = h.hasFinally /\ g.phase = 2
      /\ g.completion = c
  <2> HIDE DEF h
  <2> QED BY <1>1, <1>2, <1>4, DeferredFacts
<1>6. FrameOK(Put(Cut(f, i - 1), g)) /\ Len(Put(Cut(f, i - 1), g).pc) = i
  <2> HIDE DEF g
  <2> QED BY <1>1, <1>5, CutPutOK
<1> QED BY <1>1, <1>2, <1>5, <1>6

LEMMA ExitDoes ==
    ASSUME NEW f, FrameOK(f), NEW c, Aims(f, c), exitTry(f, c)
    PROVE  \/ \E i \in 1..Len(f.pc) :
                /\ i \in FinallyOnTheWay(f, c) /\ \A j \in FinallyOnTheWay(f, c) : j <= i
                /\ i = Max(FinallyOnTheWay(f, c))
                /\ WithCur(Put(Cut(f, i - 1), Deferred(f.tryStack[i], c))) /\ out' = None
           \/ /\ FinallyOnTheWay(f, c) = {} /\ c \in Jump
              /\ WithCur(Cut(f, Len(c.value))) /\ out' = None
           \/ /\ FinallyOnTheWay(f, c) = {} /\ c \notin Jump
              /\ frames' = Callers /\ out' = c
<1> DEFINE ts == f.tryStack
           stops == {i \in DOMAIN f.tryStack : Stays(f.tryStack[i], c) \/ RunsFinally(f.tryStack[i])}
           W == FinallyOnTheWay(f, c)
<1>1. /\ Len(f.pc) \in Nat /\ DOMAIN f.tryStack = 1..Len(f.pc)
      /\ f.pc \in Seq(TypeOfPart) /\ f.tryStack \in Seq(Handler)
  BY FrameFacts
<1>2. /\ DepthOf(c) \in 0..Len(f.pc) /\ (c \in Jump <=> c.type = "jump") /\ c \in Resumable
      /\ c \in Jump => DepthOf(c) = Len(c.value) /\ c.value = Prefix(f.pc, DepthOf(c))
      /\ c \notin Jump => DepthOf(c) = 0
  BY <1>1, NoneIsNothing DEF Aims, DepthOf
<1>3. \A i \in 1..Len(f.pc) : Stays(ts[i], c) <=> i <= DepthOf(c)
  <2> TAKE i \in 1..Len(f.pc)
  <2>1. Stays(f.tryStack[i], c) <=> c \in Jump /\ i <= Len(c.value)
    BY StaysUpTo
  <2> QED BY <1>1, <1>2, <2>1
<1>4. W = {i \in 1..Len(f.pc) : i > DepthOf(c) /\ RunsFinally(ts[i])}
  BY DEF FinallyOnTheWay
<1>5. stops = {i \in 1..Len(f.pc) : i <= DepthOf(c) \/ RunsFinally(ts[i])}
  BY <1>1, <1>3
<1>6. IF stops # {}
      THEN /\ WithCur(IF Stays(ts[Max(stops)], c)
                      THEN [pc |-> c.value, tryStack |-> Prefix(ts, Max(stops))]
                      ELSE [pc |-> FinallyPC(ts[Max(stops)]),
                            tryStack |-> Append(Prefix(ts, Max(stops) - 1), Deferred(ts[Max(stops)], c))])
           /\ out' = None
      ELSE IF c.type = "jump"
           THEN WithCur([pc |-> c.value, tryStack |-> << >>]) /\ out' = None
           ELSE frames' = Callers /\ out' = c
  BY DEF exitTry, Deferred
<1> HIDE DEF stops, W, ts
<1>7. stops # {} => Max(stops) \in stops /\ \A j \in stops : j <= Max(stops)
  <2>1. stops \in SUBSET (1..Len(f.pc))
    BY <1>5
  <2> QED BY <1>1, <2>1, MaxOf
<1>8. W # {} => Max(W) \in W /\ \A j \in W : j <= Max(W)
  <2>1. W \in SUBSET (1..Len(f.pc))
    BY <1>4
  <2> QED BY <1>1, <2>1, MaxOf
<1>9. CASE W # {}
  <2>1. Max(W) \in 1..Len(f.pc) /\ Max(W) > DepthOf(c) /\ Max(W) \in stops
    BY <1>4, <1>5, <1>8, <1>9
  <2>2. stops # {} /\ Max(stops) \in 1..Len(f.pc) /\ Max(W) <= Max(stops)
    BY <1>5, <1>7, <2>1
  <2>3. Max(stops) > DepthOf(c)
    BY <1>1, <1>2, <2>1, <2>2
  <2>4. Max(stops) \in W
    BY <1>1, <1>2, <1>4, <1>5, <1>7, <2>2, <2>3
  <2>5. Max(stops) = Max(W)
    BY <1>8, <2>1, <2>2, <2>4
  <2> DEFINE i == Max(W)
             g == Deferred(ts[i], c)
  <2>6. i \in 1..Len(f.pc) /\ ~Stays(ts[i], c)
    BY <1>1, <1>2, <1>3, <2>1, <2>3, <2>5
  <2>7. WithCur([pc |-> FinallyPC(ts[i]), tryStack |-> Append(Prefix(ts, i - 1), g)]) /\ out' = None
    BY <1>6, <2>2, <2>5, <2>6
  <2> HIDE DEF i
  <2>8. i \in W
    BY <1>8, <1>9 DEF i
  <2>9. g.at = ts[i].at /\ g.hasCatch = ts[i].hasCatch /\ g.hasFinally = ts[i].hasFinally
    BY <2>8, DeferredFits DEF W, ts
  <2>10. g.phase = 2
    BY <2>8, DeferredFits DEF W, ts
  <2> HIDE DEF g
  <2>11. PartOf(g).part = "finally"
    BY <2>10 DEF PartOf
  <2>12. Put(Cut(f, i - 1), g) = [pc |-> FinallyPC(ts[i]), tryStack |-> Append(Prefix(ts, i - 1), g)]
    BY <2>6, <2>9, <2>11, PutBack DEF ts, FinallyPC
  <2>13. WithCur(Put(Cut(f, i - 1), g)) /\ out' = None
    BY <2>7, <2>12
  <2>14. i \in W /\ \A j \in W : j <= i
    BY <1>8, <1>9 DEF i
  <2> QED BY <2>6, <2>13, <2>14 DEF g, ts, W, i
<1>10. CASE W = {} /\ c \in Jump
  <2>1. stops = 1..DepthOf(c)
    <3>1. \A i \in 1..Len(f.pc) : RunsFinally(ts[i]) => i <= DepthOf(c)
      BY <1>1, <1>2, <1>4, <1>10
    <3> QED BY <1>1, <1>2, <1>5, <3>1
  <2>2. CASE DepthOf(c) = 0
    <3>1. stops = {}
      BY <2>1, <2>2
    <3>2. WithCur([pc |-> c.value, tryStack |-> << >>]) /\ out' = None
      BY <1>2, <1>6, <1>10, <3>1
    <3>3. Prefix(f.tryStack, 0) = << >>
      BY SubSeqEmpty DEF Prefix
    <3>4. Cut(f, Len(c.value)) = [pc |-> c.value, tryStack |-> << >>]
      BY <1>2, <1>10, <2>2, <3>3 DEF Cut
    <3> QED BY <1>10, <3>2, <3>4 DEF W
  <2>3. CASE DepthOf(c) # 0
    <3>1. DepthOf(c) \in stops /\ stops # {} /\ \A j \in stops : j <= DepthOf(c)
      BY <1>2, <2>1, <2>3
    <3>2. Max(stops) = DepthOf(c) /\ Stays(ts[Max(stops)], c)
      BY <1>2, <1>3, <1>5, <1>7, <2>1, <3>1
    <3>3. WithCur([pc |-> c.value, tryStack |-> Prefix(ts, DepthOf(c))]) /\ out' = None
      BY <1>6, <3>1, <3>2
    <3>4. Cut(f, Len(c.value)) = [pc |-> c.value, tryStack |-> Prefix(ts, DepthOf(c))]
      BY <1>2, <1>10 DEF Cut, ts
    <3> QED BY <1>10, <3>3, <3>4 DEF W
  <2> QED BY <2>2, <2>3
<1>11. CASE W = {} /\ c \notin Jump
  <2>1. stops = {}
    BY <1>1, <1>2, <1>4, <1>5, <1>11
  <2>2. frames' = Callers /\ out' = c
    BY <1>2, <1>6, <1>11, <2>1
  <2> QED BY <1>11, <2>2 DEF W
<1> QED BY <1>9, <1>10, <1>11

\* The last handler of a frame is the one of the innermost statement.
LEMMA LastHandler ==
    ASSUME NEW f, FrameOK(f), f.pc # << >>
    PROVE  /\ Len(f.pc) \in 1..Len(f.pc) /\ Max(HandlersOf(f)) = Len(f.pc)
           /\ f.pc[Len(f.pc)] = PartOf(f.tryStack[Len(f.pc)])
<1> DEFINE n == Len(f.pc)
<1>1. /\ n \in Nat /\ n # 0 /\ f.pc \in Seq(TypeOfPart) /\ DOMAIN f.tryStack = 1..n
      /\ \A j \in 1..n : f.tryStack[j].at = Prefix(f.pc, j - 1) /\ f.pc[j] = PartOf(f.tryStack[j])
  <2>1. n # 0
    BY FrameFacts, EmptySeq
  <2> QED BY <2>1, FrameFacts DEF Matches
<1>2. n \in 1..n
  BY <1>1
<1>3. f.pc[n].catch = f.tryStack[n].hasCatch /\ f.pc[n].finally = f.tryStack[n].hasFinally
  <2>1. f.pc[n] = PartOf(f.tryStack[n])
    BY <1>1, <1>2
  <2> QED BY <2>1, PartOfFields
<1>4. \A j \in 1..n : f.tryStack[j].at = Prefix(f.pc, n - 1) => j = n
  <2> TAKE j \in 1..n
  <2>1. j - 1 \in 0..n /\ n - 1 \in 0..n
    BY <1>1
  <2>2. Len(Prefix(f.pc, j - 1)) = j - 1 /\ Len(Prefix(f.pc, n - 1)) = n - 1
    BY <1>1, <2>1, PrefixFacts
  <2> QED BY <1>1, <2>1, <2>2
<1>5. HandlersOf(f) = {n}
  BY <1>1, <1>2, <1>3, <1>4 DEF HandlersOf
<1>6. Max({n}) = n
  BY <1>1 DEF Max
<1> QED BY <1>1, <1>2, <1>5, <1>6

\* A try or catch block that ends normally.
LEMMA BlockEndDoes ==
    ASSUME NEW f, FrameOK(f), f.pc # << >>, f.pc[Len(f.pc)].part # "finally", handleTryExit(f)
    PROVE  LET n == Len(f.pc)
               h == f.tryStack[n]
           IN  /\ n \in 1..Len(f.pc) /\ h \in Handler /\ h.phase < 2 /\ out' = None
               /\ WithCur(IF h.hasFinally THEN Put(Cut(f, n - 1), Ending(h)) ELSE Cut(f, n - 1))
<1> DEFINE n == Len(f.pc)
           h == f.tryStack[n]
           g == Ending(h)
<1>1. n \in 1..n /\ Max(HandlersOf(f)) = n /\ f.pc[n] = PartOf(h)
  BY LastHandler
<1>2. n \in Nat /\ f.tryStack \in Seq(Handler) /\ Len(f.tryStack) = n /\ h \in Handler
  BY <1>1, FrameFacts
<1>3. h.phase < 2
  <2> HIDE DEF h
  <2> QED BY <1>1, <1>2, PartOfFields, HandlerFields
<1>4. Fits(Cut(f, n - 1), h)
  BY <1>1, FitsWhereItIs
<1>5. g \in Handler /\ g.at = h.at /\ g.hasCatch = h.hasCatch /\ g.hasFinally = h.hasFinally /\ g.phase = 2
  <2> HIDE DEF h, n
  <2> QED BY <1>2, <1>3, <1>4, EndingFacts
<1>6. PartOf(g).part = "finally"
  <2> HIDE DEF g
  <2> QED BY <1>5, PartOfFields
<1>7. Put(Cut(f, n - 1), g) = [pc |-> FinallyPC(h), tryStack |-> Append(Prefix(f.tryStack, n - 1), g)]
  <2> HIDE DEF g
  <2> QED BY <1>1, <1>5, <1>6, PutBack DEF FinallyPC
<1>8. [f.tryStack EXCEPT ![n] = g] = Append(Prefix(f.tryStack, n - 1), g)
  <2>1. f.tryStack # << >>
    BY <1>1, <1>2, EmptySeq
  <2> HIDE DEF g
  <2> QED BY <1>2, <1>5, <2>1, LastReplaced
<1>9. /\ WithCur(IF h.hasFinally
                 THEN [pc |-> FinallyPC(h), tryStack |-> [f.tryStack EXCEPT ![n] = g]]
                 ELSE [pc |-> Prefix(f.pc, n - 1), tryStack |-> Prefix(f.tryStack, n - 1)])
      /\ out' = None
  BY <1>1 DEF handleTryExit, Ending, After
<1>10. Cut(f, n - 1) = [pc |-> Prefix(f.pc, n - 1), tryStack |-> Prefix(f.tryStack, n - 1)]
  BY DEF Cut
<1>11. WithCur(IF h.hasFinally THEN Put(Cut(f, n - 1), g) ELSE Cut(f, n - 1)) /\ out' = None
  <2> HIDE DEF g, h, n
  <2>1. CASE h.hasFinally
    BY <1>7, <1>8, <1>9, <2>1
  <2>2. CASE ~h.hasFinally
    BY <1>9, <1>10, <2>2
  <2> QED BY <2>1, <2>2
<1> QED BY <1>1, <1>2, <1>3, <1>11

\* A finally block that ends normally resumes what is pending in its handler.
LEMMA FinallyEndDoes ==
    ASSUME NEW f, FrameOK(f), f.pc # << >>, f.pc[Len(f.pc)].part = "finally", handleTryExitFinally(f)
    PROVE  LET n == Len(f.pc)
               h == f.tryStack[n]
               g == Cut(f, n - 1)
           IN  /\ n \in 1..Len(f.pc) /\ h \in Handler /\ h.phase = 2 /\ FrameOK(g)
               /\ \/ h.completion # None /\ Aims(g, h.completion) /\ exitTry(g, h.completion)
                  \/ h.completion = None /\ h.exc \in Values /\ handleThrow(g, h.exc)
                  \/ h.completion = None /\ h.exc = None /\ WithCur(g) /\ out' = None
<1> DEFINE n == Len(f.pc)
           h == f.tryStack[n]
           g == Cut(f, n - 1)
<1>1. n \in 1..n /\ Max(HandlersOf(f)) = n /\ f.pc[n] = PartOf(h)
  BY LastHandler
<1>2. n \in Nat /\ h \in Handler
  BY <1>1, FrameFacts
<1>3. h.phase = 2
  <2> HIDE DEF h
  <2> QED BY <1>1, <1>2, PartOfFields
<1>4. Fits(g, h) /\ FrameOK(g)
  <2>1. n - 1 \in 0..n
    BY <1>2, <1>1
  <2> QED BY <1>1, <2>1, FitsWhereItIs, CutOK
<1>5. g = [pc |-> Prefix(f.pc, n - 1), tryStack |-> Prefix(f.tryStack, n - 1)]
  BY DEF Cut
<1>6. /\ h.completion # None => exitTry(g, h.completion)
      /\ h.completion = None /\ h.exc # None => handleThrow(g, h.exc)
      /\ h.completion = None /\ h.exc = None => WithCur(g) /\ out' = None
  <2>1. g = [pc |-> After(f), tryStack |-> Prefix(f.tryStack, n - 1)]
    BY <1>5 DEF After
  <2> HIDE DEF g, h, n
  <2> QED BY <1>1, <2>1 DEF handleTryExitFinally, h
<1> HIDE DEF h, g
<1>7. CASE h.completion # None
  <2>1. h.completion \in Resumable
    BY <1>2, <1>7, HandlerFields
  <2>2. Aims(g, h.completion)
    BY <1>4, <2>1 DEF Aims, Fits
  <2> QED BY <1>1, <1>2, <1>3, <1>4, <1>6, <1>7, <2>2 DEF h, g
<1>8. CASE h.completion = None /\ h.exc # None
  <2>1. h.exc \in Values
    BY <1>2, <1>8, HandlerFields
  <2> QED BY <1>1, <1>2, <1>3, <1>4, <1>6, <1>8, <2>1 DEF h, g
<1>9. CASE h.completion = None /\ h.exc = None
  BY <1>1, <1>2, <1>3, <1>4, <1>6, <1>9 DEF h, g
<1> QED BY <1>7, <1>8, <1>9

-----------------------------------------------------------------------------
(* The invariant holds.                                                     *)

LEMMA CurrentFrame ==
    ASSUME IInv, frames # << >>
    PROVE  /\ Len(frames) \in Nat /\ Len(frames) >= 1 /\ Cur \in Frame /\ FrameOK(Cur)
           /\ frames \in Seq(Frame) /\ Callers \in Seq(Frame) /\ Len(Callers) = Len(frames) - 1
           /\ \A i \in 1..Len(Callers) : Callers[i] = frames[i] /\ FrameOK(Callers[i])
<1>1. frames \in Seq(Frame) /\ \A i \in 1..Len(frames) : FrameOK(frames[i])
  BY DEF IInv
<1>2. Len(frames) \in Nat /\ Len(frames) >= 1
  BY <1>1, EmptySeq
<1>3. Cur \in Frame /\ FrameOK(Cur)
  BY <1>1, <1>2, ElementOfSeq DEF Cur
<1>4. Len(frames) - 1 \in 0..Len(frames)
  BY <1>2
<1>5. /\ Callers \in Seq(Frame) /\ Len(Callers) = Len(frames) - 1
      /\ \A i \in 1..(Len(frames) - 1) : Callers[i] = frames[i]
  BY <1>1, <1>4, PrefixFacts DEF Callers
<1> QED BY <1>1, <1>2, <1>3, <1>5

LEMMA CurrentReplaced ==
    ASSUME IInv, frames # << >>, NEW g, FrameOK(g), WithCur(g)
    PROVE  /\ frames' = Append(Callers, g) /\ frames' \in Seq(Frame) /\ Len(frames') = Len(frames)
           /\ \A i \in 1..Len(frames) : frames'[i] = (IF i = Len(frames) THEN g ELSE frames[i])
<1>1. frames \in Seq(Frame) /\ Len(frames) \in 1..Len(frames) /\ g \in Frame
  BY CurrentFrame DEF FrameOK
<1>2. frames' = [frames EXCEPT ![Len(frames)] = g]
  BY DEF WithCur
<1>3. frames' = Append(Callers, g)
  BY <1>1, <1>2, LastReplaced DEF Callers
<1>4. /\ [frames EXCEPT ![Len(frames)] = g] \in Seq(Frame)
      /\ Len([frames EXCEPT ![Len(frames)] = g]) = Len(frames)
      /\ \A i \in 1..Len(frames) : [frames EXCEPT ![Len(frames)] = g][i] = IF i = Len(frames) THEN g ELSE frames[i]
  BY <1>1, ExceptSeq
<1> QED BY <1>2, <1>3, <1>4

\* An instruction replaces the current frame or returns from it.
Moves(outcomes) ==
    /\ out' \in outcomes
    /\ \/ \E g : FrameOK(g) /\ WithCur(g)
       \/ frames' = Callers

LEMMA MovesOK ==
    ASSUME IInv, frames # << >>, Moves(Completion \cup {None})
    PROVE  IInv'
<1>1. CASE \E g : FrameOK(g) /\ WithCur(g)
  <2>1. PICK g : FrameOK(g) /\ WithCur(g)
    BY <1>1
  <2>2. /\ frames' \in Seq(Frame) /\ Len(frames') = Len(frames)
        /\ \A i \in 1..Len(frames) : frames'[i] = (IF i = Len(frames) THEN g ELSE frames[i])
    BY <2>1, CurrentReplaced
  <2>3. \A i \in 1..Len(frames) : FrameOK(frames'[i])
    BY <2>1, <2>2 DEF IInv
  <2> QED BY <2>2, <2>3 DEF IInv, Moves
<1>2. CASE frames' = Callers
  <2>1. frames' \in Seq(Frame) /\ \A i \in 1..Len(frames') : FrameOK(frames'[i])
    BY <1>2, CurrentFrame
  <2> QED BY <2>1 DEF IInv, Moves
<1> QED BY <1>1, <1>2 DEF Moves

LEMMA ThrowMoves ==
    ASSUME NEW f, FrameOK(f), NEW exc \in Values, handleThrow(f, exc)
    PROVE  Moves(Completion \cup {None})
<1>1. CASE frames' = Callers /\ out' = [type |-> "throw", value |-> exc]
  BY <1>1 DEF Moves, Completion
<1>2. ASSUME NEW i \in 1..Len(f.pc), f.tryStack[i].phase = 0,
             WithCur(Put(Cut(f, i - 1), Caught(f.tryStack[i], exc))), out' = None
      PROVE  Moves(Completion \cup {None})
  <2>1. f.tryStack[i] \in Handler /\ Fits(Cut(f, i - 1), f.tryStack[i])
    BY FitsWhereItIs
  <2>2. Caught(f.tryStack[i], exc) \in Handler /\ Fits(Cut(f, i - 1), Caught(f.tryStack[i], exc))
    BY <1>2, <2>1, CaughtFacts
  <2>3. FrameOK(Put(Cut(f, i - 1), Caught(f.tryStack[i], exc)))
    BY <2>2, CutPutOK
  <2> QED BY <1>2, <2>3 DEF Moves
<1> QED BY <1>1, <1>2, ThrowDoes

LEMMA ExitMoves ==
    ASSUME NEW f, FrameOK(f), NEW c, Aims(f, c), exitTry(f, c)
    PROVE  Moves(Completion \cup {None})
<1>1. ASSUME NEW i \in FinallyOnTheWay(f, c),
             WithCur(Put(Cut(f, i - 1), Deferred(f.tryStack[i], c))), out' = None
      PROVE  Moves(Completion \cup {None})
  <2>1. FrameOK(Put(Cut(f, i - 1), Deferred(f.tryStack[i], c)))
    BY DeferredFits
  <2> QED BY <1>1, <2>1 DEF Moves
<1>2. CASE c \in Jump /\ WithCur(Cut(f, Len(c.value))) /\ out' = None
  <2>1. Len(c.value) \in 0..Len(f.pc)
    BY <1>2, FrameFacts, NoneIsNothing DEF Aims
  <2>2. FrameOK(Cut(f, Len(c.value)))
    BY <2>1, CutOK
  <2> QED BY <1>2, <2>2 DEF Moves
<1>3. CASE c \notin Jump /\ frames' = Callers /\ out' = c
  <2>1. c \in Completion
    BY <1>3 DEF Aims, Resumable
  <2> QED BY <1>3, <2>1 DEF Moves
<1> QED BY <1>1, <1>2, <1>3, ExitDoes

NewHandler(f, hasCatch, hasFinally) ==
    [at |-> f.pc, hasCatch |-> hasCatch, hasFinally |-> hasFinally, phase |-> 0, exc |-> None, completion |-> None]

LEMMA EnterDoes ==
    ASSUME IInv, NEW c \in BOOLEAN, NEW d \in BOOLEAN, TryEnter(c, d)
    PROVE  /\ frames # << >> /\ NewHandler(Cur, c, d) \in Handler /\ Fits(Cur, NewHandler(Cur, c, d))
           /\ FrameOK(Put(Cur, NewHandler(Cur, c, d)))
           /\ WithCur(Put(Cur, NewHandler(Cur, c, d))) /\ out' = None
<1> DEFINE h == NewHandler(Cur, c, d)
<1>1. frames # << >> /\ (c \/ d) /\ out' = None
  BY DEF TryEnter, Running
<1>2. FrameOK(Cur) /\ Cur.pc \in Seq(TypeOfPart)
  BY <1>1, CurrentFrame, FrameFacts
<1>3. h \in Handler
  BY <1>2 DEF NewHandler, Handler
<1>4. Fits(Cur, h)
  BY <1>1, NoneIsNothing DEF NewHandler, Fits
<1>5. FrameOK(Put(Cur, h))
  BY <1>2, <1>3, <1>4, PutOK
<1>6. Put(Cur, h) = [pc |-> PartPC(h, "try"), tryStack |-> Append(Cur.tryStack, h)]
  BY DEF Put, PartPC, PartOf, NewHandler
<1>7. WithCur([pc |-> PartPC(h, "try"), tryStack |-> Append(Cur.tryStack, h)])
  BY DEF TryEnter, NewHandler
<1> QED BY <1>1, <1>3, <1>4, <1>5, <1>6, <1>7

LEMMA ReturnAims == \A v \in Values : \A f : Aims(f, [type |-> "return", value |-> v])
<1> TAKE v \in Values
<1> TAKE f
<1>1. [type |-> "return", value |-> v] \in Completion
  BY DEF Completion
<1>2. [type |-> "return", value |-> v] \notin Jump
  BY <1>1, NoneIsNothing
<1> QED BY <1>1, <1>2 DEF Aims, Resumable

LEMMA BreakDoes ==
    ASSUME IInv, frames # << >>, NEW d \in 0..Len(Cur.pc), Break(d)
    PROVE  LET c == [type |-> "jump", value |-> Prefix(Cur.pc, d)]
           IN  \/ d = Len(Cur.pc) /\ WithCur(Cur) /\ out' = None
               \/ d < Len(Cur.pc) /\ Aims(Cur, c) /\ c \in Jump /\ DepthOf(c) = d /\ exitTry(Cur, c)
<1> DEFINE c == [type |-> "jump", value |-> Prefix(Cur.pc, d)]
<1>1. FrameOK(Cur) /\ Cur.pc \in Seq(TypeOfPart) /\ Len(Cur.pc) \in Nat
      /\ Cur = [pc |-> Cur.pc, tryStack |-> Cur.tryStack]
  BY CurrentFrame, FrameFacts
<1>2. Prefix(Cur.pc, d) \in Seq(TypeOfPart) /\ Len(Prefix(Cur.pc, d)) = d
  BY <1>1, PrefixFacts
<1>3. IF d = Len(Cur.pc) THEN WithCur([Cur EXCEPT !.pc = Prefix(Cur.pc, d)]) /\ out' = None
                         ELSE exitTry(Cur, c)
  BY <1>2 DEF Break, tryExitJmpJudge
<1>4. CASE d = Len(Cur.pc)
  <2>1. Prefix(Cur.pc, d) = Cur.pc
    BY <1>1, <1>4, SubSeqFull DEF Prefix
  <2>2. [Cur EXCEPT !.pc = Cur.pc] = Cur
    BY <1>1
  <2> QED BY <1>3, <1>4, <2>1, <2>2
<1>5. CASE d # Len(Cur.pc)
  <2>1. d < Len(Cur.pc) /\ exitTry(Cur, c)
    BY <1>1, <1>3, <1>5
  <2>2. c \in Jump
    BY <1>2 DEF Jump
  <2>3. Aims(Cur, c) /\ DepthOf(c) = d
    BY <1>1, <1>2, <2>1, <2>2 DEF Aims, Resumable, DepthOf
  <2> QED BY <2>1, <2>2, <2>3
<1> QED BY <1>4, <1>5

LEMMA ThrownUp ==
    ASSUME IInv, Propagate
    PROVE  /\ frames # << >> /\ out \in Completion /\ out.type = "throw" /\ out.value \in Values
           /\ out = [type |-> "throw", value |-> out.value]
           /\ handleThrow(Cur, out.value)
<1>1. frames # << >> /\ out # None /\ out.type = "throw" /\ out \in Completion \cup {None}
      /\ handleThrow(Cur, out.value)
  BY DEF Propagate, Running, IInv
<1>2. out \in Completion
  BY <1>1
<1> QED BY <1>1, <1>2 DEF Completion

LEMMA EndPartDoes ==
    ASSUME IInv, EndPart
    PROVE  /\ frames # << >> /\ FrameOK(Cur) /\ Cur.pc # << >>
           /\ \/ Cur.pc[Len(Cur.pc)].part = "finally" /\ handleTryExitFinally(Cur)
              \/ Cur.pc[Len(Cur.pc)].part # "finally" /\ handleTryExit(Cur)
<1>1. frames # << >> /\ Cur.pc # << >>
      /\ IF Cur.pc[Len(Cur.pc)].part = "finally" THEN handleTryExitFinally(Cur) ELSE handleTryExit(Cur)
  BY DEF EndPart, Running
<1> QED BY <1>1, CurrentFrame

LEMMA EndPartMoves ==
    ASSUME IInv, EndPart
    PROVE  frames # << >> /\ Moves(Completion \cup {None})
<1> DEFINE n == Len(Cur.pc)
           h == Cur.tryStack[n]
<1>1. frames # << >> /\ FrameOK(Cur) /\ Cur.pc # << >>
  BY EndPartDoes
<1>2. CASE Cur.pc[n].part # "finally" /\ handleTryExit(Cur)
  <2>1. /\ n \in 1..n /\ h \in Handler /\ h.phase < 2 /\ out' = None
        /\ WithCur(IF h.hasFinally THEN Put(Cut(Cur, n - 1), Ending(h)) ELSE Cut(Cur, n - 1))
    BY <1>1, <1>2, BlockEndDoes
  <2>2. Fits(Cut(Cur, n - 1), h) /\ n - 1 \in 0..n
    BY <1>1, <2>1, FitsWhereItIs
  <2>3. FrameOK(Cut(Cur, n - 1))
    BY <1>1, <2>2, CutOK
  <2> HIDE DEF h
  <2>4. Ending(h) \in Handler /\ Fits(Cut(Cur, n - 1), Ending(h))
    BY <2>1, <2>2, EndingFacts
  <2>5. FrameOK(Put(Cut(Cur, n - 1), Ending(h)))
    BY <1>1, <2>1, <2>4, CutPutOK
  <2> QED BY <1>1, <2>1, <2>3, <2>5 DEF Moves
<1>3. CASE Cur.pc[n].part = "finally" /\ handleTryExitFinally(Cur)
  <2> DEFINE g == Cut(Cur, n - 1)
  <2>1. /\ FrameOK(g)
        /\ \/ h.completion # None /\ Aims(g, h.completion) /\ exitTry(g, h.completion)
           \/ h.completion = None /\ h.exc \in Values /\ handleThrow(g, h.exc)
           \/ h.completion = None /\ h.exc = None /\ WithCur(g) /\ out' = None
    BY <1>1, <1>3, FinallyEndDoes
  <2> HIDE DEF g, h
  <2>2. CASE Aims(g, h.completion) /\ exitTry(g, h.completion)
    BY <1>1, <2>1, <2>2, ExitMoves
  <2>3. CASE h.exc \in Values /\ handleThrow(g, h.exc)
    BY <1>1, <2>1, <2>3, ThrowMoves
  <2>4. CASE WithCur(g) /\ out' = None
    BY <1>1, <2>1, <2>4 DEF Moves
  <2> QED BY <2>1, <2>2, <2>3, <2>4
<1> QED BY <1>2, <1>3, EndPartDoes

LEMMA BreakMoves ==
    ASSUME IInv, Running, NEW d \in 0..Len(Cur.pc), Break(d)
    PROVE  frames # << >> /\ Moves(Completion \cup {None})
<1> DEFINE c == [type |-> "jump", value |-> Prefix(Cur.pc, d)]
<1>1. frames # << >> /\ FrameOK(Cur)
  BY CurrentFrame DEF Running
<1>2. (WithCur(Cur) /\ out' = None) \/ (Aims(Cur, c) /\ exitTry(Cur, c))
  BY <1>1, BreakDoes
<1>3. CASE WithCur(Cur) /\ out' = None
  BY <1>1, <1>3 DEF Moves
<1>4. CASE Aims(Cur, c) /\ exitTry(Cur, c)
  <2> HIDE DEF c
  <2> QED BY <1>1, <1>4, ExitMoves
<1> QED BY <1>2, <1>3, <1>4

LEMMA EmptyFrame == FrameOK([pc |-> << >>, tryStack |-> << >>])
BY EmptySeq DEF FrameOK, Frame

LEMMA IInvStep ==
    ASSUME IInv, [Next]_vars
    PROVE  IInv'
<1>1. ASSUME frames # << >>, Moves(Completion \cup {None}) PROVE IInv'
  BY <1>1, MovesOK
<1>2. ASSUME NEW c \in BOOLEAN, NEW d \in BOOLEAN, TryEnter(c, d) PROVE IInv'
  <2>1. frames # << >> /\ FrameOK(Put(Cur, NewHandler(Cur, c, d)))
        /\ WithCur(Put(Cur, NewHandler(Cur, c, d))) /\ out' = None
    BY <1>2, EnterDoes
  <2> QED BY <1>1, <2>1 DEF Moves
<1>3. CASE Call
  <2> DEFINE e == [pc |-> << >>, tryStack |-> << >>]
  <2>1. frames' = Append(frames, e) /\ out' = None
    BY <1>3 DEF Call
  <2>2. FrameOK(e) /\ e \in Frame
    BY EmptyFrame DEF FrameOK
  <2> HIDE DEF e
  <2>3. frames \in Seq(Frame) /\ \A i \in 1..Len(frames) : FrameOK(frames[i])
    BY DEF IInv
  <2>4. /\ frames' \in Seq(Frame) /\ Len(frames') = Len(frames) + 1 /\ Len(frames) \in Nat
        /\ \A i \in 1..Len(frames) : frames'[i] = frames[i]
        /\ frames'[Len(frames) + 1] = e
    BY <2>1, <2>2, <2>3, AppendFacts
  <2>5. \A i \in 1..Len(frames') : FrameOK(frames'[i])
    <3> TAKE i \in 1..Len(frames')
    <3>1. i \in 1..Len(frames) \/ i = Len(frames) + 1
      BY <2>4
    <3> QED BY <2>2, <2>3, <2>4, <3>1
  <2> QED BY <2>1, <2>4, <2>5 DEF IInv
<1>4. CASE EndPart
  BY <1>1, <1>4, EndPartMoves
<1>5. CASE Propagate
  <2>1. frames # << >> /\ FrameOK(Cur) /\ out.value \in Values /\ handleThrow(Cur, out.value)
    BY <1>5, ThrownUp, CurrentFrame
  <2> QED BY <1>1, <2>1, ThrowMoves
<1>6. ASSUME NEW v \in Values, Throw(v) PROVE IInv'
  <2>1. frames # << >> /\ FrameOK(Cur) /\ handleThrow(Cur, v)
    BY <1>6, CurrentFrame DEF Throw, Running
  <2> QED BY <1>1, <2>1, ThrowMoves
<1>7. ASSUME NEW v \in Values, Return(v) PROVE IInv'
  <2> DEFINE c == [type |-> "return", value |-> v]
  <2>1. frames # << >> /\ FrameOK(Cur) /\ exitTry(Cur, c) /\ Aims(Cur, c)
    BY <1>7, CurrentFrame, ReturnAims DEF Return, Running
  <2> HIDE DEF c
  <2> QED BY <1>1, <2>1, ExitMoves
<1>8. ASSUME Running, NEW d \in 0..Len(Cur.pc), Break(d) PROVE IInv'
  BY <1>1, <1>8, BreakMoves
<1>9. CASE UNCHANGED vars
  BY <1>9 DEF vars, IInv
<1> QED BY <1>2, <1>3, <1>4, <1>5, <1>6, <1>7, <1>8, <1>9 DEF Next, Ended

LEMMA IInvInit == Init => IInv
<1> SUFFICES ASSUME Init PROVE IInv
  OBVIOUS
<1> DEFINE e == [pc |-> << >>, tryStack |-> << >>]
<1>1. frames = << e >> /\ out = None
  BY DEF Init
<1>2. FrameOK(e) /\ e \in Frame
  BY EmptyFrame DEF FrameOK
<1> HIDE DEF e
<1> QED BY <1>1, <1>2 DEF IInv

LEMMA IInvImplies == IInv => HandlersMatchPosition
<1> SUFFICES ASSUME IInv PROVE HandlersMatchPosition
  OBVIOUS
<1>1. out \in Completion \cup {None} /\ DOMAIN frames = 1..Len(frames)
  BY LenProperties DEF IInv
<1>2. ASSUME NEW i \in DOMAIN frames
      PROVE  LET f == frames[i] IN
             /\ f.pc \in Seq(TypeOfPart) /\ Len(f.tryStack) = Len(f.pc)
             /\ DOMAIN f.pc = 1..Len(f.pc) /\ DOMAIN f.tryStack = 1..Len(f.pc)
             /\ \A j \in 1..Len(f.pc) : /\ f.pc[j] \in TypeOfPart /\ f.tryStack[j] \in Handler
                                        /\ Matches(f.pc, j, f.tryStack[j])
  <2>1. FrameOK(frames[i])
    BY <1>1, <1>2 DEF IInv
  <2> QED BY <2>1, FrameFacts
<1>3. \A h \in Handler : /\ h.phase \in 0..2 /\ h.exc \in Values \cup {None}
                         /\ h.completion # None => h.completion.type = "jump" \/ h.completion \in Completion
  <2> TAKE h \in Handler
  <2>1. h.phase \in 0..2 /\ h.exc \in Values \cup {None} /\ h.completion \in Resumable \cup {None}
    BY HandlerFields
  <2> QED BY <2>1, NoneIsNothing DEF Resumable
<1>4. TypeOK
  BY <1>1, <1>2, <1>3 DEF TypeOK
<1>5. ASSUME NEW i \in DOMAIN frames, NEW j \in DOMAIN frames[i].pc
      PROVE  LET f == frames[i]
                 h == f.tryStack[j]
             IN  /\ h.at = Prefix(f.pc, j - 1)
                 /\ h.hasCatch = f.pc[j].catch /\ h.hasFinally = f.pc[j].finally
                 /\ f.pc[j].part = CASE h.phase = 0 -> "try" [] h.phase = 1 -> "catch" [] h.phase = 2 -> "finally"
  <2> DEFINE h == frames[i].tryStack[j]
  <2>1. h.at = Prefix(frames[i].pc, j - 1) /\ frames[i].pc[j] = PartOf(h)
    BY <1>2, <1>5 DEF Matches
  <2>2. frames[i].pc[j].catch = h.hasCatch /\ frames[i].pc[j].finally = h.hasFinally
    <3> HIDE DEF h
    <3> QED BY <2>1, PartOfFields
  <2>3. PartOf(h).part = CASE h.phase = 0 -> "try" [] h.phase = 1 -> "catch" [] h.phase = 2 -> "finally"
    <3> HIDE DEF h
    <3> QED BY DEF PartOf
  <2> QED BY <2>1, <2>2, <2>3
<1> QED BY <1>2, <1>4, <1>5 DEF HandlersMatchPosition

THEOREM Inductive == Spec => []IInv
<1>1. IInv /\ [Next]_vars => IInv'
  BY IInvStep
<1> QED BY <1>1, IInvInit, PTL DEF Spec

\* The handler stack of every active call is the try statements around its
\* position, each in the phase of the part it is in: no break, continue, return
\* or throw leaves behind a handler of a statement that is over
\* (vm_exception.go exitTry and handleThrow, compile_stmt.go compileBreak).
THEOREM HandlersFollowPosition == Spec => []HandlersMatchPosition
BY Inductive, IInvImplies, PTL

-----------------------------------------------------------------------------
(* No return, break or normal end goes past a finally block.                *)

LEMMA CutElements ==
    ASSUME NEW f, FrameOK(f), NEW k \in 0..Len(f.pc), NEW j \in 1..k
    PROVE  Cut(f, k).pc[j] = f.pc[j] /\ Cut(f, k).tryStack[j] = f.tryStack[j]
<1>1. f.pc \in Seq(TypeOfPart) /\ f.tryStack \in Seq(Handler) /\ Len(f.tryStack) = Len(f.pc)
  BY FrameFacts
<1>2. Prefix(f.pc, k)[j] = f.pc[j]
  BY <1>1, PrefixFacts
<1>3. Prefix(f.tryStack, k)[j] = f.tryStack[j]
  <2>1. k \in 0..Len(f.tryStack)
    BY <1>1
  <2> QED BY <1>1, <2>1, PrefixFacts
<1> QED BY <1>2, <1>3 DEF Cut

Reaches(j) == Len(frames') >= Len(frames) /\ Len(frames'[Len(frames)].pc) >= j

LEMMA ReplacedReaches ==
    ASSUME IInv, frames # << >>, NEW g, FrameOK(g), WithCur(g), NEW j, Len(g.pc) >= j
    PROVE  Reaches(j)
<1>1. Len(frames) \in 1..Len(frames) /\ Len(frames) \in Nat
  BY CurrentFrame
<1>2. Len(frames') = Len(frames) /\ frames'[Len(frames)] = g
  BY <1>1, CurrentReplaced
<1> QED BY <1>1, <1>2 DEF Reaches

LEMMA ExitReaches ==
    ASSUME IInv, frames # << >>, NEW f, FrameOK(f), NEW c, Aims(f, c), exitTry(f, c),
           NEW j \in 1..Len(f.pc), RunsFinally(f.tryStack[j])
    PROVE  Reaches(j)
<1>1. Len(f.pc) \in Nat /\ DepthOf(c) \in Nat
  BY FrameFacts, NoneIsNothing DEF DepthOf, Aims
<1>2. j > DepthOf(c) => j \in FinallyOnTheWay(f, c)
  BY DEF FinallyOnTheWay
<1>3. ASSUME NEW i \in FinallyOnTheWay(f, c), \A k \in FinallyOnTheWay(f, c) : k <= i,
             WithCur(Put(Cut(f, i - 1), Deferred(f.tryStack[i], c)))
      PROVE  Reaches(j)
  <2>1. /\ i \in 1..Len(f.pc) /\ FrameOK(Put(Cut(f, i - 1), Deferred(f.tryStack[i], c)))
        /\ Len(Put(Cut(f, i - 1), Deferred(f.tryStack[i], c)).pc) = i
    BY DeferredFits
  <2>2. i >= j
    <3>1. i > DepthOf(c)
      BY DEF FinallyOnTheWay
    <3> QED BY <1>1, <1>2, <1>3, <2>1, <3>1
  <2> QED BY <1>3, <2>1, <2>2, ReplacedReaches
<1>4. CASE FinallyOnTheWay(f, c) = {} /\ c \in Jump /\ WithCur(Cut(f, Len(c.value)))
  <2>1. Len(c.value) \in 0..Len(f.pc) /\ DepthOf(c) = Len(c.value)
    BY <1>1, <1>4, NoneIsNothing DEF Aims, DepthOf
  <2>2. FrameOK(Cut(f, Len(c.value))) /\ Len(Cut(f, Len(c.value)).pc) = Len(c.value)
    BY <2>1, CutOK
  <2>3. Len(c.value) >= j
    BY <1>1, <1>2, <1>4, <2>1
  <2> QED BY <1>4, <2>2, <2>3, ReplacedReaches
<1>5. CASE FinallyOnTheWay(f, c) = {} /\ c \notin Jump
  BY <1>1, <1>2, <1>5 DEF DepthOf
<1> QED BY <1>3, <1>4, <1>5, ExitDoes

LEMMA EndPartReaches ==
    ASSUME IInv, EndPart, ~Raises, NEW j \in 1..Len(Cur.pc), RunsFinally(Cur.tryStack[j])
    PROVE  Reaches(j)
<1> DEFINE n == Len(Cur.pc)
           h == Cur.tryStack[n]
           g == Cut(Cur, n - 1)
<1>1. frames # << >> /\ FrameOK(Cur) /\ Cur.pc # << >> /\ n \in Nat /\ n \in 1..n /\ Len(Cur.tryStack) = n
  BY EndPartDoes, FrameFacts, LastHandler
<1>2. FrameOK(g) /\ Len(g.pc) = n - 1
  <2>1. n - 1 \in 0..n
    BY <1>1
  <2> QED BY <1>1, <2>1, CutOK
<1>3. CASE Cur.pc[n].part # "finally" /\ handleTryExit(Cur)
  <2>1. h \in Handler /\ h.phase < 2 /\ WithCur(IF h.hasFinally THEN Put(g, Ending(h)) ELSE g)
    BY <1>1, <1>3, BlockEndDoes
  <2>2. Fits(g, h)
    BY <1>1, FitsWhereItIs
  <2>3. CASE h.hasFinally
    <3>1. Ending(h) \in Handler /\ Fits(g, Ending(h))
      <4> HIDE DEF h, g
      <4> QED BY <2>1, <2>2, EndingFacts
    <3>2. FrameOK(Put(g, Ending(h))) /\ Len(Put(g, Ending(h)).pc) = n
      <4> HIDE DEF h
      <4> QED BY <1>1, <3>1, CutPutOK
    <3>3. Len(Put(g, Ending(h)).pc) >= j
      BY <1>1, <3>2
    <3> HIDE DEF g, h
    <3> QED BY <1>1, <2>1, <2>3, <3>2, <3>3, ReplacedReaches
  <2>4. CASE ~h.hasFinally
    <3>1. j # n
      BY <2>4 DEF RunsFinally
    <3>2. Len(g.pc) >= j
      BY <1>1, <1>2, <3>1
    <3> HIDE DEF g, h
    <3> QED BY <1>1, <1>2, <2>1, <2>4, <3>2, ReplacedReaches
  <2> QED BY <2>3, <2>4
<1>4. CASE Cur.pc[n].part = "finally" /\ handleTryExitFinally(Cur)
  <2>1. /\ h \in Handler /\ h.phase = 2
        /\ \/ h.completion # None /\ Aims(g, h.completion) /\ exitTry(g, h.completion)
           \/ h.completion = None /\ h.exc \in Values /\ handleThrow(g, h.exc)
           \/ h.completion = None /\ h.exc = None /\ WithCur(g) /\ out' = None
    BY <1>1, <1>4, FinallyEndDoes
  <2>2. j # n
    BY <2>1 DEF RunsFinally
  <2>3. j \in 1..Len(g.pc) /\ n - 1 \in 0..n /\ j \in 1..(n - 1)
    BY <1>1, <1>2, <2>2
  <2>4. RunsFinally(g.tryStack[j])
    BY <1>1, <2>3, CutElements
  <2>5. CASE Aims(g, h.completion) /\ exitTry(g, h.completion)
    <3> HIDE DEF g, h
    <3> QED BY <1>1, <1>2, <2>3, <2>4, <2>5, ExitReaches
  <2>6. CASE h.completion = None /\ h.exc \in Values
    <3>1. h.exc # None
      BY <2>6, NoneIsNothing
    <3>2. Running
      BY DEF EndPart
    <3> QED BY <1>1, <2>1, <2>6, <3>1, <3>2 DEF Raises
  <2>7. CASE WithCur(g)
    <3>1. Len(g.pc) >= j
      BY <1>1, <1>2, <2>3
    <3> HIDE DEF g, h
    <3> QED BY <1>1, <1>2, <2>7, <3>1, ReplacedReaches
  <2> QED BY <2>1, <2>5, <2>6, <2>7
<1> QED BY <1>3, <1>4, EndPartDoes

LEMMA StepReaches ==
    ASSUME IInv, Next, frames # << >>, ~Raises,
           NEW j \in 1..Len(Cur.pc), RunsFinally(Cur.tryStack[j])
    PROVE  Reaches(j)
<1>1. FrameOK(Cur) /\ Len(Cur.pc) \in Nat /\ Len(frames) \in Nat /\ Len(frames) >= 1
  BY CurrentFrame, FrameFacts
<1>2. ASSUME NEW c \in BOOLEAN, NEW d \in BOOLEAN, TryEnter(c, d) PROVE Reaches(j)
  <2> DEFINE h == NewHandler(Cur, c, d)
  <2>1. h \in Handler /\ Fits(Cur, h) /\ WithCur(Put(Cur, h))
    BY <1>2, EnterDoes
  <2> HIDE DEF h
  <2>2. FrameOK(Put(Cur, h)) /\ Len(Put(Cur, h).pc) = Len(Cur.pc) + 1
    BY <1>1, <2>1, PutOK
  <2>3. Len(Put(Cur, h).pc) >= j
    BY <1>1, <2>2
  <2> QED BY <2>1, <2>2, <2>3, ReplacedReaches
<1>3. CASE Call
  <2> DEFINE e == [pc |-> << >>, tryStack |-> << >>]
  <2>1. frames' = Append(frames, e) /\ frames \in Seq(Frame) /\ e \in Frame
    BY <1>3, EmptyFrame DEF Call, IInv, FrameOK
  <2> HIDE DEF e
  <2>2. Len(frames') = Len(frames) + 1 /\ frames'[Len(frames)] = Cur
    BY <1>1, <2>1, AppendFacts DEF Cur
  <2>3. Len(Cur.pc) >= j
    BY <1>1
  <2> QED BY <1>1, <2>2, <2>3 DEF Reaches
<1>4. CASE EndPart
  BY <1>4, EndPartReaches
<1>5. ASSUME NEW v \in Values, Return(v) PROVE Reaches(j)
  <2> DEFINE c == [type |-> "return", value |-> v]
  <2>1. exitTry(Cur, c) /\ Aims(Cur, c)
    BY <1>5, ReturnAims DEF Return
  <2> HIDE DEF c
  <2> QED BY <1>1, <2>1, ExitReaches
<1>6. ASSUME Running, NEW d \in 0..Len(Cur.pc), Break(d) PROVE Reaches(j)
  <2> DEFINE c == [type |-> "jump", value |-> Prefix(Cur.pc, d)]
  <2>1. (WithCur(Cur) /\ out' = None) \/ (Aims(Cur, c) /\ exitTry(Cur, c))
    BY <1>6, BreakDoes
  <2> HIDE DEF c
  <2>2. Len(Cur.pc) >= j
    BY <1>1
  <2> QED BY <1>1, <2>1, <2>2, ReplacedReaches, ExitReaches
<1>7. ASSUME NEW v \in Values, Throw(v) PROVE Reaches(j)
  BY <1>7 DEF Raises
<1>8. CASE Propagate
  BY <1>8 DEF Raises
<1>9. CASE Ended
  BY <1>9 DEF Ended
<1> QED BY <1>2, <1>3, <1>4, <1>5, <1>6, <1>7, <1>8, <1>9 DEF Next

\* A return, break, continue or normal end of a block leaves a statement with a
\* finally block only from that block, at any depth of nesting, whatever is
\* pending already (try_finally_semantics_test.go:5; vm_exception.go exitTry).
THEOREM NoFinallySkipped == Spec => FinallyBeforeLeaving
<1>1. ASSUME IInv, Next PROVE (frames # << >> /\ ~Raises) => LeavesFromFinally
  <2>1. SUFFICES ASSUME frames # << >>, ~Raises, NEW j \in DOMAIN Cur.pc,
                        Cur.pc[j].finally, Cur.pc[j].part # "finally"
                 PROVE  Len(frames') >= Len(frames) /\ Len(frames'[Len(frames)].pc) >= j
    BY DEF LeavesFromFinally
  <2>2. FrameOK(Cur)
    BY <1>1, <2>1, CurrentFrame
  <2>3. /\ j \in 1..Len(Cur.pc) /\ Cur.tryStack[j] \in Handler /\ Cur.pc[j] = PartOf(Cur.tryStack[j])
    BY <2>1, <2>2, FrameFacts DEF Matches
  <2>4. Cur.tryStack[j].hasFinally /\ Cur.tryStack[j].phase # 2 /\ Cur.tryStack[j].phase \in 0..2
    BY <2>1, <2>3, PartOfFields, HandlerFields
  <2>5. RunsFinally(Cur.tryStack[j])
    BY <2>4 DEF RunsFinally
  <2>6. Reaches(j)
    BY <1>1, <2>1, <2>3, <2>5, StepReaches
  <2> QED BY <2>6 DEF Reaches
<1>2. IInv /\ [Next]_vars => [(frames # << >> /\ ~Raises) => LeavesFromFinally]_vars
  BY <1>1
<1> QED BY <1>2, Inductive, PTL DEF Spec, FinallyBeforeLeaving

-----------------------------------------------------------------------------
(* Every instruction does what ECMA-262 prescribes.                         *)

StatementOf(h) == [catch |-> h.hasCatch, finally |-> h.hasFinally,
                   part |-> PartOf(h).part, pending |-> Pending(h)]
Stated == {StatementOf(h) : h \in Handler}

Bar(f) == [j \in DOMAIN f.pc |-> Statement(f, j)]
Bars(s) == [i \in DOMAIN s |-> Bar(s[i])]

LEMMA CallsBar == callsBar = Bars(frames) /\ callsBar' = Bars(frames')
BY DEF callsBar, Bars, Bar

LEMMA FunctionIsSeq ==
    ASSUME NEW S, NEW n \in Nat, NEW s \in [1..n -> S]
    PROVE  s \in Seq(S) /\ Len(s) = n
<1>1. s \in Seq(S)
  BY SeqDef
<1> QED BY <1>1

LEMMA BarFacts ==
    ASSUME NEW f, FrameOK(f)
    PROVE  /\ Bar(f) \in Seq(Stated) /\ Len(Bar(f)) = Len(f.pc)
           /\ \A j \in 1..Len(f.pc) : Bar(f)[j] = StatementOf(f.tryStack[j])
<1>1. Len(f.pc) \in Nat /\ DOMAIN f.pc = 1..Len(f.pc) /\ DOMAIN f.tryStack = 1..Len(f.pc)
  BY FrameFacts
<1>2. ASSUME NEW j \in 1..Len(f.pc)
      PROVE  Statement(f, j) = StatementOf(f.tryStack[j]) /\ StatementOf(f.tryStack[j]) \in Stated
  <2> DEFINE h == f.tryStack[j]
  <2>1. h \in Handler /\ f.pc[j] = PartOf(h) /\ j \in DOMAIN f.tryStack
    BY <1>1, FrameFacts DEF Matches
  <2>2. f.pc[j].catch = h.hasCatch /\ f.pc[j].finally = h.hasFinally /\ f.pc[j].part = PartOf(h).part
    <3> HIDE DEF h
    <3> QED BY <2>1, PartOfFields
  <2>3. Statement(f, j) = [catch |-> f.pc[j].catch, finally |-> f.pc[j].finally,
                           part |-> f.pc[j].part, pending |-> Pending(h)]
    BY <2>1 DEF Statement
  <2> HIDE DEF h
  <2>4. Statement(f, j) = StatementOf(h) /\ StatementOf(h) \in Stated
    BY <2>1, <2>2, <2>3 DEF StatementOf, Stated
  <2> QED BY <2>4 DEF h
<1>3. Bar(f) = [j \in 1..Len(f.pc) |-> StatementOf(f.tryStack[j])]
  BY <1>1, <1>2 DEF Bar
<1>4. Bar(f) \in [1..Len(f.pc) -> Stated]
  BY <1>2, <1>3
<1>5. Bar(f) \in Seq(Stated) /\ Len(Bar(f)) = Len(f.pc)
  BY <1>1, <1>4, FunctionIsSeq
<1> QED BY <1>3, <1>5

LEMMA BarCut ==
    ASSUME NEW f, FrameOK(f), NEW k \in 0..Len(f.pc)
    PROVE  Bar(Cut(f, k)) = Prefix(Bar(f), k)
<1>1. /\ Bar(f) \in Seq(Stated) /\ Len(Bar(f)) = Len(f.pc) /\ Len(f.pc) \in Nat
      /\ \A j \in 1..Len(f.pc) : Bar(f)[j] = StatementOf(f.tryStack[j])
  BY BarFacts, FrameFacts
<1>2. FrameOK(Cut(f, k)) /\ Len(Cut(f, k).pc) = k
  BY CutOK
<1>3. /\ Bar(Cut(f, k)) \in Seq(Stated) /\ Len(Bar(Cut(f, k))) = k
      /\ \A j \in 1..k : Bar(Cut(f, k))[j] = StatementOf(Cut(f, k).tryStack[j])
  BY <1>2, BarFacts
<1>4. /\ Prefix(Bar(f), k) \in Seq(Stated) /\ Len(Prefix(Bar(f), k)) = k
      /\ \A j \in 1..k : Prefix(Bar(f), k)[j] = Bar(f)[j]
  <2>1. k \in 0..Len(Bar(f))
    BY <1>1
  <2> QED BY <1>1, <2>1, PrefixFacts
<1>5. \A j \in 1..k : Bar(Cut(f, k))[j] = Prefix(Bar(f), k)[j]
  <2> TAKE j \in 1..k
  <2>1. Cut(f, k).tryStack[j] = f.tryStack[j] /\ j \in 1..Len(f.pc)
    BY <1>1, CutElements
  <2> QED BY <1>1, <1>3, <1>4, <2>1
<1> QED BY <1>3, <1>4, <1>5, SeqEqual

LEMMA BarPut ==
    ASSUME NEW f, FrameOK(f), NEW h \in Handler, FrameOK(Put(f, h))
    PROVE  Bar(Put(f, h)) = Append(Bar(f), StatementOf(h))
<1>1. /\ Bar(f) \in Seq(Stated) /\ Len(Bar(f)) = Len(f.pc) /\ Len(f.pc) \in Nat
      /\ \A j \in 1..Len(f.pc) : Bar(f)[j] = StatementOf(f.tryStack[j])
  BY BarFacts, FrameFacts
<1>2. /\ f.tryStack \in Seq(Handler) /\ f.pc \in Seq(TypeOfPart) /\ Len(f.tryStack) = Len(f.pc)
  BY FrameFacts
<1>3. /\ Len(Put(f, h).pc) = Len(f.pc) + 1
      /\ \A j \in 1..Len(f.pc) : Put(f, h).tryStack[j] = f.tryStack[j]
      /\ Put(f, h).tryStack[Len(f.pc) + 1] = h
  <2>1. Put(f, h).pc = Append(f.pc, PartOf(h)) /\ Put(f, h).tryStack = Append(f.tryStack, h)
    BY DEF Put
  <2>2. Len(Append(f.pc, PartOf(h))) = Len(f.pc) + 1
    BY <1>2, PartOfType, AppendFacts
  <2>3. /\ \A j \in 1..Len(f.pc) : Append(f.tryStack, h)[j] = f.tryStack[j]
        /\ Append(f.tryStack, h)[Len(f.pc) + 1] = h
    BY <1>2, AppendFacts
  <2> QED BY <2>1, <2>2, <2>3
<1>4. /\ Bar(Put(f, h)) \in Seq(Stated) /\ Len(Bar(Put(f, h))) = Len(f.pc) + 1
      /\ \A j \in 1..(Len(f.pc) + 1) : Bar(Put(f, h))[j] = StatementOf(Put(f, h).tryStack[j])
  BY <1>3, BarFacts
<1> DEFINE t == Append(Bar(f), StatementOf(h))
<1>5. StatementOf(h) \in Stated
  BY DEF Stated
<1>6. /\ t \in Seq(Stated) /\ Len(t) = Len(f.pc) + 1
      /\ \A j \in 1..Len(f.pc) : t[j] = Bar(f)[j]
      /\ t[Len(f.pc) + 1] = StatementOf(h)
  BY <1>1, <1>5, AppendFacts
<1> HIDE DEF t
<1>7. \A j \in 1..(Len(f.pc) + 1) : Bar(Put(f, h))[j] = t[j]
  <2> TAKE j \in 1..(Len(f.pc) + 1)
  <2>1. j \in 1..Len(f.pc) \/ j = Len(f.pc) + 1
    BY <1>1
  <2> QED BY <1>1, <1>3, <1>4, <1>6, <2>1
<1>8. Bar(Put(f, h)) = t
  BY <1>4, <1>6, <1>7, SeqEqual
<1> QED BY <1>8 DEF t

LEMMA BarsFacts ==
    ASSUME NEW s \in Seq(Frame), \A i \in 1..Len(s) : FrameOK(s[i])
    PROVE  /\ Bars(s) \in Seq(Seq(Stated)) /\ Len(Bars(s)) = Len(s)
           /\ \A i \in 1..Len(s) : Bars(s)[i] = Bar(s[i])
<1>1. Len(s) \in Nat /\ DOMAIN s = 1..Len(s)
  BY LenProperties
<1>2. \A i \in 1..Len(s) : Bar(s[i]) \in Seq(Stated)
  BY BarFacts
<1>3. Bars(s) = [i \in 1..Len(s) |-> Bar(s[i])]
  BY <1>1 DEF Bars
<1>4. Bars(s) \in [1..Len(s) -> Seq(Stated)]
  BY <1>2, <1>3
<1>5. Bars(s) \in Seq(Seq(Stated)) /\ Len(Bars(s)) = Len(s)
  BY <1>1, <1>4, FunctionIsSeq
<1> QED BY <1>3, <1>5

LEMMA CurrentBar ==
    ASSUME IInv, frames # << >>
    PROVE  /\ callsBar \in Seq(Seq(Stated)) /\ callsBar # << >>
           /\ Len(callsBar) = Len(frames) /\ Len(frames) \in Nat /\ Len(frames) >= 1
           /\ callsBar[Len(callsBar)] = Bar(Cur) /\ FrameOK(Cur)
           /\ \A i \in 1..Len(frames) : callsBar[i] = Bar(frames[i])
<1>1. /\ frames \in Seq(Frame) /\ \A i \in 1..Len(frames) : FrameOK(frames[i])
      /\ Len(frames) \in Nat /\ Len(frames) >= 1 /\ FrameOK(Cur)
  BY CurrentFrame DEF IInv
<1>2. /\ callsBar \in Seq(Seq(Stated)) /\ Len(callsBar) = Len(frames)
      /\ \A i \in 1..Len(frames) : callsBar[i] = Bar(frames[i])
  BY <1>1, BarsFacts, CallsBar
<1>3. callsBar # << >>
  BY <1>1, <1>2, EmptySeq
<1> QED BY <1>1, <1>2, <1>3 DEF Cur

LEMMA BarReplaced ==
    ASSUME IInv, frames # << >>, NEW g, FrameOK(g), WithCur(g)
    PROVE  /\ callsBar' = [callsBar EXCEPT ![Len(callsBar)] = Bar(g)]
           /\ callsBar' = Append(SubSeq(callsBar, 1, Len(callsBar) - 1), Bar(g))
<1>1. /\ callsBar \in Seq(Seq(Stated)) /\ callsBar # << >>
      /\ Len(callsBar) = Len(frames) /\ Len(frames) \in Nat /\ Len(frames) >= 1
      /\ \A i \in 1..Len(frames) : callsBar[i] = Bar(frames[i])
  BY CurrentBar
<1>2. /\ frames' \in Seq(Frame) /\ Len(frames') = Len(frames)
      /\ \A i \in 1..Len(frames) : frames'[i] = (IF i = Len(frames) THEN g ELSE frames[i])
  BY CurrentReplaced
<1>3. \A i \in 1..Len(frames') : FrameOK(frames'[i])
  BY <1>2 DEF IInv
<1>4. /\ callsBar' \in Seq(Seq(Stated)) /\ Len(callsBar') = Len(frames)
      /\ \A i \in 1..Len(frames) : callsBar'[i] = Bar(frames'[i])
  <2>1. /\ Bars(frames') \in Seq(Seq(Stated)) /\ Len(Bars(frames')) = Len(frames')
        /\ \A i \in 1..Len(frames') : Bars(frames')[i] = Bar(frames'[i])
    BY <1>2, <1>3, BarsFacts
  <2> QED BY <1>2, <2>1, CallsBar
<1>5. Bar(g) \in Seq(Stated)
  BY BarFacts
<1> DEFINE s == [callsBar EXCEPT ![Len(callsBar)] = Bar(g)]
<1>6. /\ s \in Seq(Seq(Stated)) /\ Len(s) = Len(frames)
      /\ \A i \in 1..Len(frames) : s[i] = IF i = Len(frames) THEN Bar(g) ELSE callsBar[i]
  <2>1. Len(callsBar) \in 1..Len(callsBar)
    BY <1>1
  <2> QED BY <1>1, <1>5, <2>1, ExceptSeq
<1>7. s = Append(Prefix(callsBar, Len(callsBar) - 1), Bar(g))
  BY <1>1, <1>5, LastReplaced
<1> HIDE DEF s
<1>8. \A i \in 1..Len(frames) : callsBar'[i] = s[i]
  <2> TAKE i \in 1..Len(frames)
  <2>1. CASE i = Len(frames)
    BY <1>2, <1>4, <1>6, <2>1
  <2>2. CASE i # Len(frames)
    BY <1>1, <1>2, <1>4, <1>6, <2>2
  <2> QED BY <2>1, <2>2
<1>9. callsBar' = s
  BY <1>4, <1>6, <1>8, SeqEqual
<1> QED BY <1>7, <1>9 DEF s, Prefix

LEMMA BarReturned ==
    ASSUME IInv, frames # << >>, frames' = Callers
    PROVE  callsBar' = SubSeq(callsBar, 1, Len(callsBar) - 1)
<1>1. /\ callsBar \in Seq(Seq(Stated)) /\ Len(callsBar) = Len(frames)
      /\ Len(frames) \in Nat /\ Len(frames) >= 1
      /\ \A i \in 1..Len(frames) : callsBar[i] = Bar(frames[i])
  BY CurrentBar
<1>2. /\ Callers \in Seq(Frame) /\ Len(Callers) = Len(frames) - 1
      /\ \A i \in 1..Len(Callers) : Callers[i] = frames[i] /\ FrameOK(Callers[i])
  BY CurrentFrame
<1>3. /\ Bars(Callers) \in Seq(Seq(Stated)) /\ Len(Bars(Callers)) = Len(frames) - 1
      /\ \A i \in 1..(Len(frames) - 1) : Bars(Callers)[i] = Bar(frames[i])
  BY <1>2, BarsFacts
<1>4. /\ Prefix(callsBar, Len(frames) - 1) \in Seq(Seq(Stated))
      /\ Len(Prefix(callsBar, Len(frames) - 1)) = Len(frames) - 1
      /\ \A i \in 1..(Len(frames) - 1) : Prefix(callsBar, Len(frames) - 1)[i] = callsBar[i]
  <2>1. Len(frames) - 1 \in 0..Len(callsBar)
    BY <1>1
  <2> QED BY <1>1, <2>1, PrefixFacts
<1>5. \A i \in 1..(Len(frames) - 1) : Bars(Callers)[i] = Prefix(callsBar, Len(frames) - 1)[i]
  BY <1>1, <1>3, <1>4
<1>6. Bars(Callers) = Prefix(callsBar, Len(frames) - 1)
  BY <1>3, <1>4, <1>5, SeqEqual
<1>7. callsBar' = Bars(Callers)
  BY CallsBar
<1> QED BY <1>1, <1>6, <1>7 DEF Prefix

LEMMA RunningBar ==
    ASSUME IInv
    PROVE  /\ Running => ECMA!Running
           /\ frames # << >> /\ ~Running => callsBar # << >> /\ ~ECMA!Running
           /\ frames # << >> => ECMA!Current = Bar(Cur)
<1>1. frames # << >> => callsBar # << >> /\ callsBar[Len(callsBar)] = Bar(Cur)
  BY CurrentBar
<1> QED BY <1>1 DEF Running, ECMA!Running, ECMA!Current

LEMMA SameMax == \A S : ECMA!Max(S) = Max(S)
BY DEF ECMA!Max, Max

\* The completion that a handler resumes, as the specification knows it.
BarOf(c) == IF c \in Jump THEN [type |-> "jump", value |-> Len(c.value)] ELSE c

LEMMA PendingFacts ==
    ASSUME NEW h \in Handler
    PROVE  /\ h.phase < 2 => Pending(h) = None
           /\ h.phase = 2 /\ h.completion # None => Pending(h) = BarOf(h.completion)
           /\ h.phase = 2 /\ h.completion = None /\ h.exc # None
                => Pending(h) = [type |-> "throw", value |-> h.exc]
           /\ h.phase = 2 /\ h.completion = None /\ h.exc = None => Pending(h) = None
<1>1. h.phase \in 0..2 /\ h.completion \in Resumable \cup {None}
  BY HandlerFields
<1>2. CASE h.phase < 2
  BY <1>1, <1>2 DEF Pending
<1>3. CASE h.phase = 2 /\ h.completion # None
  <2>1. Pending(h) = IF h.completion.type = "jump"
                     THEN [type |-> "jump", value |-> Len(h.completion.value)] ELSE h.completion
    BY <1>3 DEF Pending
  <2> QED BY <1>1, <1>3, <2>1, NoneIsNothing DEF BarOf
<1>4. CASE h.phase = 2 /\ h.completion = None /\ h.exc # None
  BY <1>4 DEF Pending
<1>5. CASE h.phase = 2 /\ h.completion = None /\ h.exc = None
  BY <1>5 DEF Pending
<1> QED BY <1>1, <1>2, <1>3, <1>4, <1>5

\* The statement r with c pending in its finally block.
Interrupted(r, c) == [r EXCEPT !.part = "finally", !.pending = c]

LEMMA InterruptedIs ==
    ASSUME NEW h, NEW c
    PROVE  Interrupted(StatementOf(h), c)
             = [catch |-> h.hasCatch, finally |-> h.hasFinally, part |-> "finally", pending |-> c]
<1> DEFINE r == StatementOf(h)
           q == [r EXCEPT !.part = "finally"]
<1>1. Interrupted(r, c) = [q EXCEPT !.pending = c]
  BY DEF Interrupted
<1>2. r = [catch |-> h.hasCatch, finally |-> h.hasFinally, part |-> PartOf(h).part, pending |-> Pending(h)]
  BY DEF StatementOf
<1> HIDE DEF r
<1>3. q = [catch |-> h.hasCatch, finally |-> h.hasFinally, part |-> "finally", pending |-> Pending(h)]
  BY <1>2
<1> HIDE DEF q
<1>4. [q EXCEPT !.pending = c]
        = [catch |-> h.hasCatch, finally |-> h.hasFinally, part |-> "finally", pending |-> c]
  BY <1>3
<1> QED BY <1>1, <1>4 DEF r

Takers(p, b) == {i \in DOMAIN p : ECMA!Handles(p[i], b) /\ (b.type = "jump" => i > b.value)}
CallersBar == SubSeq(callsBar, 1, Len(callsBar) - 1)

LEMMA CompleteIs ==
    ASSUME NEW p, NEW b,
           IF Takers(p, b) # {}
           THEN /\ callsBar' = Append(CallersBar, Append(SubSeq(p, 1, Max(Takers(p, b)) - 1),
                                                         ECMA!Into(p[Max(Takers(p, b))], b)))
                /\ out' = None
           ELSE IF b.type = "jump"
                THEN callsBar' = Append(CallersBar, SubSeq(p, 1, b.value)) /\ out' = None
                ELSE callsBar' = CallersBar /\ out' = b
    PROVE  ECMA!Complete(p, b)
<1> DEFINE H == Takers(p, b)
<1>1. ECMA!Max(H) = Max(H)
  BY SameMax
<1>2. H = {i \in DOMAIN p : ECMA!Handles(p[i], b) /\ (b.type = "jump" => i > b.value)}
  BY DEF Takers
<1> HIDE DEF H
<1>3. CASE H # {}
  <2>1. /\ callsBar' = Append(CallersBar, Append(SubSeq(p, 1, Max(H) - 1), ECMA!Into(p[Max(H)], b)))
        /\ out' = None
    BY <1>3 DEF H
  <2> QED BY <1>1, <1>2, <1>3, <2>1 DEF ECMA!Complete, CallersBar
<1>4. CASE H = {}
  <2>1. IF b.type = "jump"
        THEN callsBar' = Append(CallersBar, SubSeq(p, 1, b.value)) /\ out' = None
        ELSE callsBar' = CallersBar /\ out' = b
    BY <1>4 DEF H
  <2> QED BY <1>2, <1>4, <2>1 DEF ECMA!Complete, CallersBar
<1> QED BY <1>3, <1>4

LEMMA BarOfFacts ==
    ASSUME NEW c \in Resumable
    PROVE  /\ BarOf(c).type # "throw"
           /\ BarOf(c).type = "jump" <=> c \in Jump
           /\ c \in Jump => BarOf(c).value = Len(c.value) /\ DepthOf(c) = Len(c.value)
           /\ c \notin Jump => BarOf(c) = c /\ DepthOf(c) = 0
<1>1. CASE c \in Jump
  BY <1>1 DEF BarOf, DepthOf
<1>2. CASE c \notin Jump
  <2>1. c.type = "return" /\ BarOf(c) = c
    BY <1>2 DEF Resumable, BarOf
  <2> QED BY <1>2, <2>1 DEF DepthOf
<1> QED BY <1>1, <1>2

\* The statements that handle an exit are those whose finally block is on the way.
LEMMA ExitTakers ==
    ASSUME NEW f, FrameOK(f), NEW c, Aims(f, c)
    PROVE  Takers(Bar(f), BarOf(c)) = FinallyOnTheWay(f, c)
<1> DEFINE p == Bar(f)
           b == BarOf(c)
<1>1. DOMAIN p = 1..Len(f.pc) /\ Len(f.pc) \in Nat
  BY BarFacts, FrameFacts, LenProperties
<1>2. /\ b.type # "throw" /\ (b.type = "jump" <=> c \in Jump)
      /\ (c \in Jump => b.value = DepthOf(c)) /\ (c \notin Jump => DepthOf(c) = 0)
  BY BarOfFacts DEF Aims
<1> HIDE DEF b
<1>3. ASSUME NEW i \in 1..Len(f.pc)
      PROVE  ECMA!Handles(p[i], b) <=> RunsFinally(f.tryStack[i])
  <2> DEFINE h == f.tryStack[i]
  <2>1. p[i] = StatementOf(h) /\ h \in Handler
    BY BarFacts, FrameFacts
  <2> HIDE DEF p, h
  <2>2. p[i].part = PartOf(h).part /\ p[i].finally = h.hasFinally
    BY <2>1 DEF StatementOf
  <2>3. h.phase \in 0..2
    BY <2>1, HandlerFields
  <2>4. ECMA!Handles(p[i], b) <=> (p[i].part = "try" \/ p[i].part = "catch") /\ p[i].finally
    BY <1>2 DEF ECMA!Handles
  <2>5. h.phase <= 1 <=> (p[i].part = "try" \/ p[i].part = "catch")
    BY <2>1, <2>2, <2>3, PartOfFields
  <2>6. ECMA!Handles(p[i], b) <=> RunsFinally(h)
    BY <2>2, <2>4, <2>5 DEF RunsFinally
  <2> QED BY <2>6 DEF h
<1>4. \A i \in 1..Len(f.pc) : (b.type = "jump" => i > b.value) <=> i > DepthOf(c)
  BY <1>1, <1>2
<1>5. Takers(p, b) = {i \in 1..Len(f.pc) : i > DepthOf(c) /\ RunsFinally(f.tryStack[i])}
  <2> HIDE DEF p
  <2> QED BY <1>1, <1>3, <1>4 DEF Takers
<1> QED BY <1>5 DEF FinallyOnTheWay, b

LEMMA ExitCompletes ==
    ASSUME IInv, frames # << >>, NEW f, FrameOK(f), NEW c, Aims(f, c), exitTry(f, c)
    PROVE  ECMA!Complete(Bar(f), BarOf(c))
<1> DEFINE p == Bar(f)
           b == BarOf(c)
           W == FinallyOnTheWay(f, c)
<1>1. Takers(p, b) = W
  BY ExitTakers
<1>2. c \in Resumable /\ (b.type = "jump" <=> c \in Jump) /\ (c \notin Jump => b = c)
      /\ (c \in Jump => b.value = Len(c.value))
  BY BarOfFacts DEF Aims
<1> SUFFICES IF W # {}
             THEN /\ callsBar' = Append(CallersBar, Append(SubSeq(p, 1, Max(W) - 1), ECMA!Into(p[Max(W)], b)))
                  /\ out' = None
             ELSE IF b.type = "jump"
                  THEN callsBar' = Append(CallersBar, SubSeq(p, 1, b.value)) /\ out' = None
                  ELSE callsBar' = CallersBar /\ out' = b
  <2> HIDE DEF p, b, W
  <2> QED BY <1>1, CompleteIs DEF p, b, W
<1>3. ASSUME NEW i \in W, i = Max(W),
             WithCur(Put(Cut(f, i - 1), Deferred(f.tryStack[i], c))), out' = None
      PROVE  callsBar' = Append(CallersBar, Append(SubSeq(p, 1, i - 1), ECMA!Into(p[i], b)))
  <2> DEFINE h == f.tryStack[i]
             g == Deferred(h, c)
             k == Cut(f, i - 1)
  <2>1. /\ i \in 1..Len(f.pc) /\ h \in Handler /\ RunsFinally(h) /\ g \in Handler /\ FrameOK(Put(k, g))
        /\ g.hasCatch = h.hasCatch /\ g.hasFinally = h.hasFinally /\ g.phase = 2 /\ g.completion = c
    BY DeferredFits
  <2>2. i - 1 \in 0..Len(f.pc)
    BY <2>1, FrameFacts
  <2>3. FrameOK(k) /\ Bar(k) = SubSeq(p, 1, i - 1)
    BY <2>2, CutOK, BarCut DEF Prefix
  <2>4. Bar(Put(k, g)) = Append(SubSeq(p, 1, i - 1), StatementOf(g))
    <3> HIDE DEF k, g
    <3> QED BY <2>1, <2>3, BarPut
  <2>5. p[i] = StatementOf(h)
    BY <2>1, BarFacts
  <2>6. StatementOf(g) = [catch |-> h.hasCatch, finally |-> h.hasFinally, part |-> "finally", pending |-> b]
    <3>1. c # None
      BY <1>2, NoneIsNothing
    <3> HIDE DEF g, h
    <3>2. Pending(g) = b /\ PartOf(g).part = "finally"
      BY <2>1, <3>1, PendingFacts, PartOfFields
    <3> QED BY <2>1, <3>2 DEF StatementOf
  <2>7. ECMA!Into(p[i], b) = Interrupted(p[i], b)
    <3>1. b.type # "throw"
      BY <1>2, BarOfFacts
    <3> HIDE DEF b
    <3> QED BY <3>1 DEF ECMA!Into, Interrupted
  <2>8. ECMA!Into(p[i], b) = StatementOf(g)
    <3> HIDE DEF g, h, b, p
    <3> QED BY <2>5, <2>6, <2>7, InterruptedIs
  <2>9. callsBar' = Append(CallersBar, Bar(Put(k, g)))
    <3> HIDE DEF g, k
    <3> QED BY <1>3, <2>1, BarReplaced DEF CallersBar, g, k
  <2> QED BY <2>4, <2>8, <2>9
<1>4. CASE W = {} /\ c \in Jump /\ WithCur(Cut(f, Len(c.value))) /\ out' = None
  <2>1. Len(c.value) \in 0..Len(f.pc)
    BY <1>4, FrameFacts, NoneIsNothing DEF Aims
  <2>2. FrameOK(Cut(f, Len(c.value))) /\ Bar(Cut(f, Len(c.value))) = SubSeq(p, 1, Len(c.value))
    BY <2>1, CutOK, BarCut DEF Prefix
  <2>3. callsBar' = Append(CallersBar, SubSeq(p, 1, Len(c.value)))
    BY <1>4, <2>2, BarReplaced DEF CallersBar
  <2> HIDE DEF p, b, W
  <2> QED BY <1>2, <1>4, <2>3
<1>5. CASE W = {} /\ c \notin Jump /\ frames' = Callers /\ out' = c
  <2>1. callsBar' = CallersBar
    BY <1>5, BarReturned DEF CallersBar
  <2> HIDE DEF p, b, W
  <2> QED BY <1>2, <1>5, <2>1
<1>6. \/ \E i \in W : i = Max(W) /\ WithCur(Put(Cut(f, i - 1), Deferred(f.tryStack[i], c))) /\ out' = None
      \/ W = {} /\ c \in Jump /\ WithCur(Cut(f, Len(c.value))) /\ out' = None
      \/ W = {} /\ c \notin Jump /\ frames' = Callers /\ out' = c
  BY ExitDoes
<1>7. CASE \E i \in W : i = Max(W) /\ WithCur(Put(Cut(f, i - 1), Deferred(f.tryStack[i], c))) /\ out' = None
  <2> HIDE DEF p, b, W
  <2> QED BY <1>3, <1>7
<1> QED BY <1>4, <1>5, <1>6, <1>7

\* The statement r in another part.
Moved(r, part) == [r EXCEPT !.part = part]

LEMMA MovedIs ==
    ASSUME NEW h, NEW part
    PROVE  Moved(StatementOf(h), part)
             = [catch |-> h.hasCatch, finally |-> h.hasFinally, part |-> part, pending |-> Pending(h)]
<1> DEFINE r == StatementOf(h)
<1>1. r = [catch |-> h.hasCatch, finally |-> h.hasFinally, part |-> PartOf(h).part, pending |-> Pending(h)]
  BY DEF StatementOf
<1> HIDE DEF r
<1>2. [r EXCEPT !.part = part]
        = [catch |-> h.hasCatch, finally |-> h.hasFinally, part |-> part, pending |-> Pending(h)]
  BY <1>1
<1> QED BY <1>2 DEF Moved, r

\* A throw is taken over by try blocks, and by catch blocks with a finally block.
LEMMA ThrowTakers ==
    ASSUME NEW f, FrameOK(f), NEW exc
    PROVE  Takers(Bar(f), [type |-> "throw", value |-> exc])
             = {i \in 1..Len(f.pc) : \/ f.tryStack[i].phase = 0
                                     \/ f.tryStack[i].phase = 1 /\ f.tryStack[i].hasFinally}
<1> DEFINE p == Bar(f)
           b == [type |-> "throw", value |-> exc]
<1>1. DOMAIN p = 1..Len(f.pc) /\ b.type = "throw"
  BY BarFacts, LenProperties
<1> HIDE DEF b
<1>2. ASSUME NEW i \in 1..Len(f.pc)
      PROVE  ECMA!Handles(p[i], b) <=> \/ f.tryStack[i].phase = 0
                                       \/ f.tryStack[i].phase = 1 /\ f.tryStack[i].hasFinally
  <2> DEFINE h == f.tryStack[i]
  <2>1. p[i] = StatementOf(h) /\ h \in Handler
    BY BarFacts, FrameFacts
  <2> HIDE DEF p, h
  <2>2. p[i].part = PartOf(h).part /\ p[i].finally = h.hasFinally
    BY <2>1 DEF StatementOf
  <2>3. ECMA!Handles(p[i], b) <=> \/ p[i].part = "try"
                                  \/ p[i].part = "catch" /\ p[i].finally
    BY <1>1 DEF ECMA!Handles
  <2>4. ECMA!Handles(p[i], b) <=> \/ h.phase = 0
                                  \/ h.phase = 1 /\ h.hasFinally
    BY <2>1, <2>2, <2>3, PartOfFields
  <2> QED BY <2>4 DEF h
<1>3. Takers(p, b) = {i \in DOMAIN p : ECMA!Handles(p[i], b)}
  BY <1>1 DEF Takers
<1>4. Takers(p, b) = {i \in 1..Len(f.pc) : \/ f.tryStack[i].phase = 0
                                           \/ f.tryStack[i].phase = 1 /\ f.tryStack[i].hasFinally}
  <2> HIDE DEF p
  <2> QED BY <1>1, <1>2, <1>3
<1> QED BY <1>4 DEF b

LEMMA ThrowCompletes ==
    ASSUME IInv, frames # << >>, NEW f, FrameOK(f), NEW exc \in Values,
           ~DropsFinally(f), handleThrow(f, exc)
    PROVE  ECMA!Complete(Bar(f), [type |-> "throw", value |-> exc])
<1> DEFINE p == Bar(f)
           b == [type |-> "throw", value |-> exc]
           T == Takers(p, b)
           found == findHandlerInFrame(f)
<1>1. Len(f.pc) \in Nat /\ DOMAIN f.tryStack = 1..Len(f.pc)
  BY FrameFacts
<1>2. T = {i \in 1..Len(f.pc) : \/ f.tryStack[i].phase = 0
                                \/ f.tryStack[i].phase = 1 /\ f.tryStack[i].hasFinally}
  BY ThrowTakers
<1>3. found = {i \in 1..Len(f.pc) : f.tryStack[i].phase = 0}
  BY <1>1 DEF findHandlerInFrame
<1>4. \A i \in T : \E j \in found : i <= j
  <2> TAKE i \in T
  <2>1. CASE f.tryStack[i].phase = 0
    <3>1. i \in found /\ i <= i
      BY <1>1, <1>2, <1>3, <2>1
    <3> QED BY <3>1
  <2>2. CASE f.tryStack[i].phase = 1 /\ f.tryStack[i].hasFinally
    <3>1. i \in DOMAIN f.tryStack
      BY <1>1, <1>2
    <3>2. PICK j \in found : ~(i > j)
      BY <2>2, <3>1 DEF DropsFinally
    <3>3. i \in Nat /\ j \in Nat
      BY <1>2, <1>3
    <3> QED BY <3>2, <3>3
  <2> QED BY <1>2, <2>1, <2>2
<1>5. b.type = "throw" /\ b.type # "jump"
  OBVIOUS
<1> SUFFICES IF T # {}
             THEN /\ callsBar' = Append(CallersBar, Append(SubSeq(p, 1, Max(T) - 1), ECMA!Into(p[Max(T)], b)))
                  /\ out' = None
             ELSE callsBar' = CallersBar /\ out' = b
  <2> HIDE DEF p, b
  <2> QED BY <1>5, CompleteIs DEF p, b
<1>6. CASE found = {} /\ frames' = Callers /\ out' = b
  <2>1. T = {}
    <3> HIDE DEF T, found
    <3> QED BY <1>4, <1>6
  <2>2. callsBar' = CallersBar
    BY <1>6, BarReturned DEF CallersBar
  <2> HIDE DEF T, b, p
  <2> QED BY <1>6, <2>1, <2>2
<1>7. ASSUME NEW i \in 1..Len(f.pc), f.tryStack[i].phase = 0, \A j \in found : j <= i,
             WithCur(Put(Cut(f, i - 1), Caught(f.tryStack[i], exc))), out' = None
      PROVE  /\ T # {} /\ Max(T) = i
             /\ callsBar' = Append(CallersBar, Append(SubSeq(p, 1, i - 1), ECMA!Into(p[i], b)))
  <2> DEFINE h == f.tryStack[i]
             g == Caught(h, exc)
             k == Cut(f, i - 1)
  <2>1. T # {} /\ Max(T) = i
    <3>1. i \in T /\ T \in SUBSET (1..Len(f.pc))
      BY <1>2, <1>7
    <3>2. \A j \in T : j <= i
      <4> TAKE j \in T
      <4>1. PICK m \in found : j <= m
        BY <1>4
      <4>2. j \in Nat /\ m \in Nat /\ m <= i /\ i \in Nat
        BY <1>2, <1>3, <1>7, <4>1
      <4> QED BY <4>1, <4>2
    <3> HIDE DEF T
    <3>3. Max(T) \in T /\ \A j \in T : j <= Max(T)
      BY <1>1, <3>1, MaxOf
    <3>4. Max(T) \in 1..Len(f.pc) /\ Max(T) <= i /\ i <= Max(T)
      BY <3>1, <3>2, <3>3
    <3> QED BY <3>1, <3>4
  <2>2. h \in Handler /\ Fits(k, h) /\ i - 1 \in 0..Len(f.pc) /\ p[i] = StatementOf(h)
    BY <1>1, <1>7, FitsWhereItIs, BarFacts
  <2>3. /\ g \in Handler /\ Fits(k, g) /\ g.hasCatch = h.hasCatch /\ g.hasFinally = h.hasFinally
        /\ g.phase = (IF h.hasCatch THEN 1 ELSE 2) /\ g.exc = exc /\ g.completion = None
    <3> HIDE DEF h, k
    <3> QED BY <1>7, <2>2, CaughtFacts DEF h
  <2>4. FrameOK(k) /\ Bar(k) = SubSeq(p, 1, i - 1)
    BY <2>2, CutOK, BarCut DEF Prefix
  <2>5. FrameOK(Put(k, g))
    <3> HIDE DEF g
    <3> QED BY <2>3, CutPutOK
  <2>6. Bar(Put(k, g)) = Append(SubSeq(p, 1, i - 1), StatementOf(g))
    <3> HIDE DEF k, g
    <3> QED BY <2>3, <2>4, <2>5, BarPut
  <2>7. /\ p[i].part = "try" /\ p[i].catch = h.hasCatch /\ p[i].pending = None /\ Pending(h) = None
    <3>1. PartOf(h).part = "try" /\ Pending(h) = None
      <4>1. h.phase = 0
        BY <1>7
      <4> HIDE DEF h
      <4> QED BY <2>2, <4>1, PartOfFields, PendingFacts
    <3> HIDE DEF h, p
    <3> QED BY <2>2, <3>1 DEF StatementOf
  <2>8. ECMA!Into(p[i], b) = StatementOf(g)
    <3>1. CASE h.hasCatch
      <4>1. ECMA!Into(p[i], b) = Moved(p[i], "catch")
        BY <1>5, <2>7, <3>1 DEF ECMA!Into, Moved
      <4> HIDE DEF g, h, p, b
      <4>2. PartOf(g).part = "catch" /\ Pending(g) = None
        BY <2>3, <3>1, PartOfFields, PendingFacts
      <4>3. StatementOf(g) = [catch |-> h.hasCatch, finally |-> h.hasFinally, part |-> "catch", pending |-> None]
        BY <2>3, <4>2 DEF StatementOf
      <4> QED BY <2>2, <2>7, <4>1, <4>3, MovedIs
    <3>2. CASE ~h.hasCatch
      <4>1. ECMA!Into(p[i], b) = Interrupted(p[i], b)
        BY <1>5, <2>7, <3>2 DEF ECMA!Into, Interrupted
      <4>2. exc # None
        BY NoneIsNothing
      <4> HIDE DEF g, h, p
      <4>3. PartOf(g).part = "finally" /\ Pending(g) = b
        BY <2>3, <3>2, <4>2, PartOfFields, PendingFacts
      <4>4. StatementOf(g) = [catch |-> h.hasCatch, finally |-> h.hasFinally, part |-> "finally", pending |-> b]
        BY <2>3, <4>3 DEF StatementOf
      <4> HIDE DEF b
      <4> QED BY <2>2, <4>1, <4>4, InterruptedIs
    <3> QED BY <3>1, <3>2
  <2>9. callsBar' = Append(CallersBar, Bar(Put(k, g)))
    <3> HIDE DEF g, k
    <3> QED BY <1>7, <2>5, BarReplaced DEF CallersBar, g, k
  <2> QED BY <2>1, <2>6, <2>8, <2>9
<1>8. \/ found = {} /\ frames' = Callers /\ out' = b
      \/ \E i \in 1..Len(f.pc) : /\ f.tryStack[i].phase = 0 /\ \A j \in found : j <= i
                                 /\ WithCur(Put(Cut(f, i - 1), Caught(f.tryStack[i], exc))) /\ out' = None
  BY ThrowDoes
<1>9. CASE \E i \in 1..Len(f.pc) : /\ f.tryStack[i].phase = 0 /\ \A j \in found : j <= i
                                   /\ WithCur(Put(Cut(f, i - 1), Caught(f.tryStack[i], exc))) /\ out' = None
  <2> HIDE DEF T, b, p, found
  <2> QED BY <1>7, <1>9
<1> QED BY <1>6, <1>8, <1>9

LEMMA EndPartIs ==
    ASSUME ECMA!Running, NEW p, ECMA!Current = p, p # << >>, NEW r, r = p[Len(p)],
           NEW outer, outer = SubSeq(p, 1, Len(p) - 1), r.finally \in BOOLEAN,
           \/ /\ r.part # "finally" /\ r.finally
              /\ callsBar' = [callsBar EXCEPT ![Len(callsBar)] = Append(outer, Moved(r, "finally"))]
              /\ out' = None
           \/ /\ r.part # "finally" /\ ~r.finally
              /\ callsBar' = [callsBar EXCEPT ![Len(callsBar)] = outer] /\ out' = None
           \/ /\ r.part = "finally" /\ r.pending = None
              /\ callsBar' = [callsBar EXCEPT ![Len(callsBar)] = outer] /\ out' = None
           \/ r.part = "finally" /\ r.pending # None /\ ECMA!Complete(outer, r.pending)
    PROVE  ECMA!EndPart
<1>1. CASE /\ r.part # "finally" /\ r.finally
           /\ callsBar' = [callsBar EXCEPT ![Len(callsBar)] = Append(outer, Moved(r, "finally"))]
           /\ out' = None
  BY <1>1 DEF ECMA!EndPart, Moved
<1>2. CASE /\ r.part # "finally" /\ ~r.finally
           /\ callsBar' = [callsBar EXCEPT ![Len(callsBar)] = outer] /\ out' = None
  BY <1>2 DEF ECMA!EndPart
<1>3. CASE /\ r.part = "finally" /\ r.pending = None
           /\ callsBar' = [callsBar EXCEPT ![Len(callsBar)] = outer] /\ out' = None
  BY <1>3 DEF ECMA!EndPart
<1>4. CASE r.part = "finally" /\ r.pending # None /\ ECMA!Complete(outer, r.pending)
  BY <1>4 DEF ECMA!EndPart
<1> QED BY <1>1, <1>2, <1>3, <1>4

\* What a frame drops does not change when its innermost finally block ends.
LEMMA DropsBelow ==
    ASSUME NEW f, FrameOK(f), f.pc # << >>, f.tryStack[Len(f.pc)].phase = 2, DropsFinally(Cut(f, Len(f.pc) - 1))
    PROVE  DropsFinally(f)
<1> DEFINE n == Len(f.pc)
           g == Cut(f, n - 1)
<1>1. n \in Nat /\ n \in 1..n /\ n - 1 \in 0..n /\ DOMAIN f.tryStack = 1..n
  BY LastHandler, FrameFacts
<1>2. FrameOK(g) /\ Len(g.pc) = n - 1 /\ DOMAIN g.tryStack = 1..(n - 1)
  BY <1>1, CutOK, FrameFacts
<1>3. \A j \in 1..(n - 1) : g.tryStack[j] = f.tryStack[j]
  BY <1>1, CutElements
<1> HIDE DEF g
<1>4. PICK i \in 1..(n - 1) : /\ g.tryStack[i].phase = 1 /\ g.tryStack[i].hasFinally
                              /\ \A j \in findHandlerInFrame(g) : i > j
  BY <1>2 DEF DropsFinally, g
<1>5. ASSUME NEW j \in findHandlerInFrame(f) PROVE j \in findHandlerInFrame(g)
  <2>1. j \in 1..n /\ f.tryStack[j].phase = 0
    BY <1>1 DEF findHandlerInFrame
  <2>2. j # n
    BY <2>1
  <2>3. j \in 1..(n - 1)
    BY <1>1, <2>1, <2>2
  <2> QED BY <1>2, <1>3, <2>1, <2>3 DEF findHandlerInFrame
<1>6. i \in DOMAIN f.tryStack /\ f.tryStack[i].phase = 1 /\ f.tryStack[i].hasFinally
  BY <1>1, <1>3, <1>4
<1> QED BY <1>4, <1>5, <1>6 DEF DropsFinally

LEMMA EndPartRefines ==
    ASSUME IInv, EndPart, ~(Raises /\ DropsFinally(Cur))
    PROVE  ECMA!EndPart
<1> DEFINE n == Len(Cur.pc)
           h == Cur.tryStack[n]
           g == Cut(Cur, n - 1)
           p == Bar(Cur)
           r == p[n]
           outer == SubSeq(p, 1, n - 1)
<1>1. /\ frames # << >> /\ FrameOK(Cur) /\ Cur.pc # << >> /\ n \in Nat /\ n \in 1..n
      /\ Len(Cur.tryStack) = n /\ h \in Handler /\ Cur.pc[n] = PartOf(h) /\ n - 1 \in 0..n
  BY EndPartDoes, FrameFacts, LastHandler
<1>2. Running /\ ECMA!Running /\ ECMA!Current = p
  BY <1>1, RunningBar DEF EndPart
<1>3. /\ Len(p) = n /\ p # << >> /\ p[Len(p)] = r /\ outer = SubSeq(p, 1, Len(p) - 1)
      /\ r = StatementOf(h)
  <2>1. Len(p) = n /\ p \in Seq(Stated) /\ p[n] = StatementOf(h)
    BY <1>1, BarFacts
  <2> QED BY <1>1, <2>1, EmptySeq
<1>4. FrameOK(g) /\ Bar(g) = outer
  BY <1>1, CutOK, BarCut DEF Prefix
<1>5. r.part = Cur.pc[n].part /\ r.finally = h.hasFinally /\ r.pending = Pending(h) /\ r.finally \in BOOLEAN
  <2>1. h.hasFinally \in BOOLEAN
    BY <1>1, HandlerFields
  <2> HIDE DEF h, r
  <2> QED BY <1>1, <1>3, <2>1 DEF StatementOf
<1>6. CASE Cur.pc[n].part # "finally" /\ handleTryExit(Cur)
  <2>1. h.phase < 2 /\ WithCur(IF h.hasFinally THEN Put(g, Ending(h)) ELSE g) /\ out' = None
    BY <1>1, <1>6, BlockEndDoes
  <2>2. CASE h.hasFinally
    <3>1. Fits(g, h)
      BY <1>1, FitsWhereItIs
    <3> HIDE DEF h
    <3>2. /\ Ending(h) \in Handler /\ Fits(g, Ending(h)) /\ Ending(h).phase = 2
          /\ Ending(h).hasCatch = h.hasCatch /\ Ending(h).hasFinally = h.hasFinally
          /\ Ending(h).exc = None /\ Ending(h).completion = None
      BY <1>1, <2>1, <3>1, EndingFacts
    <3>3. FrameOK(Put(g, Ending(h)))
      BY <1>1, <3>2, CutPutOK
    <3>4. Bar(Put(g, Ending(h))) = Append(outer, StatementOf(Ending(h)))
      <4> HIDE DEF g, outer
      <4> QED BY <1>4, <3>2, <3>3, BarPut
    <3>5. StatementOf(Ending(h)) = Moved(StatementOf(h), "finally")
      <4>1. PartOf(Ending(h)).part = "finally" /\ Pending(Ending(h)) = None /\ Pending(h) = None
        BY <1>1, <2>1, <3>2, PartOfFields, PendingFacts
      <4>2. StatementOf(Ending(h))
              = [catch |-> h.hasCatch, finally |-> h.hasFinally, part |-> "finally", pending |-> None]
        BY <3>2, <4>1 DEF StatementOf
      <4> QED BY <4>1, <4>2, MovedIs
    <3>6. callsBar' = [callsBar EXCEPT ![Len(callsBar)] = Append(outer, Moved(r, "finally"))]
      <4>1. WithCur(Put(g, Ending(h)))
        BY <2>1, <2>2
      <4>2. callsBar' = [callsBar EXCEPT ![Len(callsBar)] = Bar(Put(g, Ending(h)))]
        <5> HIDE DEF g
        <5> QED BY <1>1, <3>3, <4>1, BarReplaced
      <4> HIDE DEF g, outer, r
      <4> QED BY <1>3, <3>4, <3>5, <4>2
    <3> HIDE DEF p, r, outer
    <3> QED BY <1>2, <1>3, <1>5, <1>6, <2>1, <2>2, <3>6, EndPartIs
  <2>3. CASE ~h.hasFinally
    <3>1. callsBar' = [callsBar EXCEPT ![Len(callsBar)] = outer] /\ out' = None
      <4>1. WithCur(g)
        BY <2>1, <2>3
      <4> HIDE DEF g, outer
      <4> QED BY <1>1, <1>4, <2>1, <4>1, BarReplaced
    <3> HIDE DEF p, r, outer, h
    <3> QED BY <1>2, <1>3, <1>5, <1>6, <2>3, <3>1, EndPartIs
  <2> QED BY <2>2, <2>3
<1>7. CASE Cur.pc[n].part = "finally" /\ handleTryExitFinally(Cur)
  <2>1. /\ h.phase = 2
        /\ \/ h.completion # None /\ Aims(g, h.completion) /\ exitTry(g, h.completion)
           \/ h.completion = None /\ h.exc \in Values /\ handleThrow(g, h.exc)
           \/ h.completion = None /\ h.exc = None /\ WithCur(g) /\ out' = None
    BY <1>1, <1>7, FinallyEndDoes
  <2>2. CASE h.completion # None /\ Aims(g, h.completion) /\ exitTry(g, h.completion)
    <3>1. r.pending = BarOf(h.completion)
      <4> HIDE DEF h, r
      <4> QED BY <1>1, <1>5, <2>1, <2>2, PendingFacts
    <3>2. ECMA!Complete(outer, r.pending)
      <4> HIDE DEF g, h, outer, r
      <4> QED BY <1>1, <1>4, <2>2, <3>1, ExitCompletes
    <3>3. r.pending # None
      <4> HIDE DEF h, r
      <4> QED BY <2>2, <3>1, NoneIsNothing DEF BarOf
    <3> HIDE DEF p, r, outer, h
    <3> QED BY <1>2, <1>3, <1>5, <1>7, <3>2, <3>3, EndPartIs
  <2>3. CASE h.completion = None /\ h.exc \in Values /\ handleThrow(g, h.exc)
    <3>1. h.exc # None
      BY <2>3, NoneIsNothing
    <3>2. ~DropsFinally(g)
      <4>1. Raises
        BY <1>1, <1>2, <2>1, <2>3, <3>1 DEF Raises
      <4> QED BY <1>1, <2>1, <4>1, DropsBelow
    <3>3. r.pending = [type |-> "throw", value |-> h.exc]
      <4> HIDE DEF h, r
      <4> QED BY <1>1, <1>5, <2>1, <2>3, <3>1, PendingFacts
    <3>4. ECMA!Complete(outer, r.pending)
      <4> HIDE DEF g, h, outer, r
      <4> QED BY <1>1, <1>4, <2>3, <3>2, <3>3, ThrowCompletes
    <3>5. r.pending # None
      <4>1. r.pending \in Completion
        <5> HIDE DEF h, r
        <5> QED BY <2>3, <3>3 DEF Completion
      <4> QED BY <4>1, NoneIsNothing
    <3> HIDE DEF p, r, outer, h
    <3> QED BY <1>2, <1>3, <1>5, <1>7, <3>4, <3>5, EndPartIs
  <2>4. CASE h.completion = None /\ h.exc = None /\ WithCur(g) /\ out' = None
    <3>1. r.pending = None
      <4> HIDE DEF h, r
      <4> QED BY <1>1, <1>5, <2>1, <2>4, PendingFacts
    <3>2. callsBar' = [callsBar EXCEPT ![Len(callsBar)] = outer] /\ out' = None
      <4> HIDE DEF g, outer
      <4> QED BY <1>1, <1>4, <2>4, BarReplaced
    <3> HIDE DEF p, r, outer, h
    <3> QED BY <1>2, <1>3, <1>5, <1>7, <3>1, <3>2, EndPartIs
  <2> QED BY <2>1, <2>2, <2>3, <2>4
<1> QED BY <1>6, <1>7, EndPartDoes

LEMMA CallRefines ==
    ASSUME IInv, Call
    PROVE  ECMA!Call
<1> DEFINE e == [pc |-> << >>, tryStack |-> << >>]
<1>1. Running /\ frames # << >> /\ frames' = Append(frames, e) /\ out' = None
  BY DEF Call, Running
<1>2. /\ callsBar \in Seq(Seq(Stated)) /\ Len(callsBar) = Len(frames) /\ Len(frames) \in Nat
      /\ \A i \in 1..Len(frames) : callsBar[i] = Bar(frames[i])
      /\ frames \in Seq(Frame) /\ \A i \in 1..Len(frames) : FrameOK(frames[i])
  BY <1>1, CurrentBar DEF IInv
<1>3. FrameOK(e) /\ e \in Frame /\ Len(e.pc) = 0
  BY EmptyFrame DEF FrameOK
<1>4. Bar(e) = << >>
  <2>1. Bar(e) \in Seq(Stated) /\ Len(Bar(e)) = 0
    BY <1>3, BarFacts
  <2> QED BY <2>1, EmptySeq
<1> HIDE DEF e
<1>5. /\ frames' \in Seq(Frame) /\ Len(frames') = Len(frames) + 1
      /\ \A i \in 1..Len(frames) : frames'[i] = frames[i]
      /\ frames'[Len(frames) + 1] = e
  BY <1>1, <1>2, <1>3, AppendFacts
<1>6. \A i \in 1..Len(frames') : FrameOK(frames'[i])
  <2> TAKE i \in 1..Len(frames')
  <2>1. i \in 1..Len(frames) \/ i = Len(frames) + 1
    BY <1>2, <1>5
  <2> QED BY <1>2, <1>3, <1>5, <2>1
<1>7. /\ callsBar' \in Seq(Seq(Stated)) /\ Len(callsBar') = Len(frames) + 1
      /\ \A i \in 1..(Len(frames) + 1) : callsBar'[i] = Bar(frames'[i])
  <2>1. /\ Bars(frames') \in Seq(Seq(Stated)) /\ Len(Bars(frames')) = Len(frames')
        /\ \A i \in 1..Len(frames') : Bars(frames')[i] = Bar(frames'[i])
    BY <1>5, <1>6, BarsFacts
  <2> QED BY <1>5, <2>1, CallsBar
<1> DEFINE t == Append(callsBar, << >>)
<1>8. /\ t \in Seq(Seq(Stated)) /\ Len(t) = Len(frames) + 1
      /\ \A i \in 1..Len(frames) : t[i] = callsBar[i]
      /\ t[Len(frames) + 1] = << >>
  <2>1. << >> \in Seq(Stated)
    BY EmptySeq
  <2> QED BY <1>2, <2>1, AppendFacts
<1> HIDE DEF t
<1>9. \A i \in 1..(Len(frames) + 1) : callsBar'[i] = t[i]
  <2> TAKE i \in 1..(Len(frames) + 1)
  <2>1. i \in 1..Len(frames) \/ i = Len(frames) + 1
    BY <1>2
  <2> QED BY <1>2, <1>4, <1>5, <1>7, <1>8, <2>1
<1>10. callsBar' = t
  BY <1>7, <1>8, <1>9, SeqEqual
<1> QED BY <1>1, <1>10, RunningBar DEF ECMA!Call, t

LEMMA EnterRefines ==
    ASSUME IInv, NEW c \in BOOLEAN, NEW f \in BOOLEAN, TryEnter(c, f)
    PROVE  ECMA!Enter(c, f)
<1> DEFINE h == NewHandler(Cur, c, f)
           s == [catch |-> c, finally |-> f, part |-> "try", pending |-> None]
<1>1. /\ frames # << >> /\ h \in Handler /\ FrameOK(Put(Cur, h)) /\ WithCur(Put(Cur, h)) /\ out' = None
  BY EnterDoes
<1>2. Running /\ (c \/ f)
  BY DEF TryEnter
<1>3. FrameOK(Cur) /\ callsBar[Len(callsBar)] = Bar(Cur)
  BY <1>1, CurrentBar
<1>4. StatementOf(h) = s
  <2>1. h.hasCatch = c /\ h.hasFinally = f /\ h.phase = 0
    BY DEF NewHandler
  <2> HIDE DEF h
  <2>2. PartOf(h).part = "try" /\ Pending(h) = None
    BY <1>1, <2>1, PartOfFields, PendingFacts
  <2> QED BY <2>1, <2>2 DEF StatementOf
<1> HIDE DEF h, s
<1>5. Bar(Put(Cur, h)) = Append(Bar(Cur), s)
  BY <1>1, <1>3, <1>4, BarPut
<1>6. callsBar' = [callsBar EXCEPT ![Len(callsBar)] = Bar(Put(Cur, h))]
  BY <1>1, BarReplaced
<1>7. callsBar' = [callsBar EXCEPT ![Len(callsBar)] = Append(@, s)]
  BY <1>3, <1>5, <1>6
<1> QED BY <1>1, <1>2, <1>7, RunningBar DEF ECMA!Enter, s

LEMMA BreakRefines ==
    ASSUME IInv, Running, NEW d \in 0..Len(Cur.pc), Break(d)
    PROVE  ECMA!Abrupt([type |-> "jump", value |-> d])
<1> DEFINE c == [type |-> "jump", value |-> Prefix(Cur.pc, d)]
           b == [type |-> "jump", value |-> d]
           p == Bar(Cur)
<1>1. frames # << >> /\ FrameOK(Cur) /\ ECMA!Running /\ ECMA!Current = p
  BY CurrentFrame, RunningBar DEF Running
<1>2. p \in Seq(Stated) /\ Len(p) = Len(Cur.pc) /\ Len(p) \in Nat /\ DOMAIN p = 1..Len(p)
  BY <1>1, BarFacts, LenProperties
<1>3. CASE d = Len(Cur.pc) /\ WithCur(Cur) /\ out' = None
  <2>1. callsBar' = Append(CallersBar, p)
    BY <1>1, <1>3, BarReplaced DEF CallersBar
  <2>2. SubSeq(p, 1, d) = p
    BY <1>2, <1>3, SubSeqFull
  <2>3. b.type = "jump" /\ b.value = d
    OBVIOUS
  <2> HIDE DEF p, b
  <2>4. Takers(p, b) = {}
    BY <1>2, <1>3, <2>3 DEF Takers
  <2>5. ECMA!Complete(p, b)
    BY <1>3, <2>1, <2>2, <2>3, <2>4, CompleteIs
  <2> QED BY <1>1, <2>5 DEF ECMA!Abrupt, b
<1>4. CASE Aims(Cur, c) /\ c \in Jump /\ DepthOf(c) = d /\ exitTry(Cur, c)
  <2> HIDE DEF c, p
  <2>1. BarOf(c) = b
    BY <1>4 DEF BarOf, DepthOf
  <2> HIDE DEF b
  <2>2. ECMA!Complete(p, b)
    BY <1>1, <1>4, <2>1, ExitCompletes DEF p
  <2> QED BY <1>1, <2>2 DEF ECMA!Abrupt, b
<1>5. \/ d = Len(Cur.pc) /\ WithCur(Cur) /\ out' = None
      \/ Aims(Cur, c) /\ c \in Jump /\ DepthOf(c) = d /\ exitTry(Cur, c)
  BY <1>1, BreakDoes
<1> QED BY <1>3, <1>4, <1>5

LEMMA ReturnRefines ==
    ASSUME IInv, NEW v \in Values, Return(v)
    PROVE  ECMA!Abrupt([type |-> "return", value |-> v])
<1> DEFINE c == [type |-> "return", value |-> v]
<1>1. Running /\ frames # << >> /\ FrameOK(Cur) /\ ECMA!Running /\ ECMA!Current = Bar(Cur)
  BY CurrentFrame, RunningBar DEF Return, Running
<1>2. Aims(Cur, c) /\ exitTry(Cur, c)
  BY ReturnAims DEF Return
<1>3. BarOf(c) = c
  <2>1. c \in Completion
    BY DEF Completion
  <2> QED BY <2>1, NoneIsNothing DEF BarOf
<1> HIDE DEF c
<1>4. ECMA!Complete(Bar(Cur), c)
  BY <1>1, <1>2, <1>3, ExitCompletes
<1> QED BY <1>1, <1>4 DEF ECMA!Abrupt, c

LEMMA ThrowRefines ==
    ASSUME IInv, NEW v \in Values, Throw(v), ~(Raises /\ DropsFinally(Cur))
    PROVE  ECMA!Abrupt([type |-> "throw", value |-> v])
<1>1. Running /\ frames # << >> /\ FrameOK(Cur) /\ ECMA!Running /\ ECMA!Current = Bar(Cur)
  BY CurrentFrame, RunningBar DEF Throw, Running
<1>2. handleThrow(Cur, v) /\ ~DropsFinally(Cur)
  BY DEF Throw, Raises
<1>3. ECMA!Complete(Bar(Cur), [type |-> "throw", value |-> v])
  BY <1>1, <1>2, ThrowCompletes
<1> QED BY <1>1, <1>3 DEF ECMA!Abrupt

LEMMA PropagateRefines ==
    ASSUME IInv, Propagate, ~(Raises /\ DropsFinally(Cur))
    PROVE  ECMA!Propagate
<1>1. /\ frames # << >> /\ out.value \in Values /\ out = [type |-> "throw", value |-> out.value]
      /\ handleThrow(Cur, out.value)
  BY ThrownUp
<1>2. ~Running /\ FrameOK(Cur) /\ ~DropsFinally(Cur)
  BY <1>1, CurrentFrame DEF Propagate, Raises
<1>3. callsBar # << >> /\ ~ECMA!Running /\ ECMA!Current = Bar(Cur)
  BY <1>1, <1>2, RunningBar
<1>4. ECMA!Complete(Bar(Cur), [type |-> "throw", value |-> out.value])
  BY <1>1, <1>2, ThrowCompletes
<1> QED BY <1>1, <1>3, <1>4 DEF ECMA!Propagate

LEMMA InitRefines == Init => ECMA!Init
<1> SUFFICES ASSUME Init PROVE ECMA!Init
  OBVIOUS
<1> DEFINE e == [pc |-> << >>, tryStack |-> << >>]
<1>1. frames = << e >> /\ out = None
  BY DEF Init
<1>2. FrameOK(e) /\ e \in Frame /\ Len(e.pc) = 0
  BY EmptyFrame DEF FrameOK
<1>3. Bar(e) = << >>
  <2>1. Bar(e) \in Seq(Stated) /\ Len(Bar(e)) = 0
    BY <1>2, BarFacts
  <2> QED BY <2>1, EmptySeq
<1> HIDE DEF e
<1>4. frames \in Seq(Frame) /\ Len(frames) = 1 /\ frames[1] = e /\ \A i \in 1..Len(frames) : FrameOK(frames[i])
  BY <1>1, <1>2
<1>5. /\ callsBar \in Seq(Seq(Stated)) /\ Len(callsBar) = 1 /\ callsBar[1] = << >>
  <2>1. /\ Bars(frames) \in Seq(Seq(Stated)) /\ Len(Bars(frames)) = Len(frames)
        /\ \A i \in 1..Len(frames) : Bars(frames)[i] = Bar(frames[i])
    BY <1>4, BarsFacts
  <2> QED BY <1>3, <1>4, <2>1, CallsBar
<1>6. << << >> >> \in Seq(Seq(Stated)) /\ Len(<< << >> >>) = 1 /\ << << >> >>[1] = << >>
  OBVIOUS
<1>7. callsBar = << << >> >>
  BY <1>5, <1>6, SeqEqual
<1> QED BY <1>1, <1>7 DEF ECMA!Init

\* Every instruction does what ECMA-262 prescribes for it, but a throw out of a
\* catch block that drops its own finally block: the block that runs next, what
\* each finally block will resume, what a call returns or throws
\* (vm_exception.go exitTry: "per ECMA-262").
THEOREM InstructionsFollowECMA == Spec => ImplementsECMA
<1> DEFINE Follows ==
      ~(Raises /\ DropsFinally(Cur)) =>
        /\ EndPart => ECMA!EndPart
        /\ Propagate => ECMA!Propagate
        /\ Call => ECMA!Call
        /\ \A c, f \in BOOLEAN : TryEnter(c, f) => ECMA!Enter(c, f)
        /\ \A v \in Values : Throw(v) => ECMA!Abrupt([type |-> "throw", value |-> v])
        /\ \A v \in Values : Return(v) => ECMA!Abrupt([type |-> "return", value |-> v])
        /\ Running => \A d \in 0..Len(Cur.pc) : Break(d) => ECMA!Abrupt([type |-> "jump", value |-> d])
<1>1. ASSUME IInv PROVE Follows
  BY <1>1, EndPartRefines, PropagateRefines, CallRefines, EnterRefines, ThrowRefines, ReturnRefines, BreakRefines
<1>2. IInv /\ [Next]_vars => [Follows]_vars
  BY <1>1
<1> HIDE DEF Follows
<1>3. Spec => ECMA!Init /\ [][Follows]_vars
  BY <1>2, Inductive, InitRefines, PTL DEF Spec
<1> QED BY <1>3 DEF ImplementsECMA, Follows
=============================================================================

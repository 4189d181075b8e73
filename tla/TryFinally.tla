---------------------------- MODULE TryFinally ----------------------------
(* Exceptions and try/catch/finally in the bytecode VM: what compileTry and  *)
(* compileBreak lay out, and how the VM unwinds a frame's handler stack for  *)
(* throw, return, break and continue.                                        *)
(*                                                                           *)
(* A pc is abstracted to the try statements around it and the part of each   *)
(* that it is in: the ranges that TryEntry records (StartPC..EndPC and so    *)
(* on) are exactly what tells these apart.  Which statement comes next is    *)
(* the program's choice.                                                     *)
EXTENDS Naturals, Sequences, FiniteSetsExt

CONSTANTS Values,     \* values a program throws or returns
          None,
          MaxDepth,   \* bound: try statements and calls open at once
          MaxCalls    \* bound: frames

VARIABLES frames,     \* [pc, tryStack] of each active call, outermost first
          out         \* what run() last returned: None, a value, or a Go error (jsThrow)

vars == <<frames, out>>

TypeOfPart == [catch : BOOLEAN, finally : BOOLEAN, part : {"try", "catch", "finally"}]

Completion == [type : {"throw", "return"}, value : Values]

(* None is Go's nil: no value, no completion, and no jump to a pc or a depth *)
ASSUME NoneAssumption ==
  None \notin Values \cup Completion \cup [type : {"jump"}, value : Nat \cup Seq(TypeOfPart)]

(* pc of the part of the try statement that handler h is for *)
PartPC(h, part) == Append(h.at, [catch |-> h.hasCatch, finally |-> h.hasFinally, part |-> part])
CatchPC(h) == PartPC(h, "catch")
FinallyPC(h) == PartPC(h, "finally")

Prefix(s, n) == SubSeq(s, 1, n)
Cur == frames[Len(frames)]
WithCur(f) == frames' = [frames EXCEPT ![Len(frames)] = f]
Callers == Prefix(frames, Len(frames) - 1)

(* run() gives the statement at pc its turn; a Go error is being returned otherwise *)
Running == frames # << >> /\ (out # None => out.type # "throw")

jumpInsideRegion(h, target) ==
  LET active == PartPC(h, CASE h.phase = 0 -> "try" [] h.phase = 1 -> "catch" [] h.phase = 2 -> "finally")
  IN  Len(target) >= Len(active) /\ Prefix(target, Len(active)) = active

(* handleThrow: only the current frame is searched.  Handlers that are past  *)
(* their try block are popped with those above the one found.                *)
findHandlerInFrame(f) == {i \in DOMAIN f.tryStack : f.tryStack[i].phase = 0}

handleThrow(f, exc) ==
  LET found == findHandlerInFrame(f) IN
  IF found = {}
  THEN frames' = Callers /\ out' = [type |-> "throw", value |-> exc]
  ELSE LET i == Max(found)
           h == f.tryStack[i]
           below == Prefix(f.tryStack, i - 1)
       IN  /\ WithCur(IF h.hasCatch
                      THEN [pc |-> CatchPC(h), tryStack |-> Append(below, [h EXCEPT !.phase = 1, !.exc = exc])]
                      ELSE [pc |-> FinallyPC(h), tryStack |-> Append(below, [h EXCEPT !.phase = 2, !.exc = exc])])
           /\ out' = None

(* The handler at which exitTry stops popping: one that the jump stays in,   *)
(* or one whose finally block has to run first.                              *)
Stays(h, c) == c.type = "jump" /\ jumpInsideRegion(h, c.value)
(* mutant: a return in a catch block goes past the finally block *)
RunsFinallyFromTry(h) == h.hasFinally /\ h.phase = 0
RunsFinally(h) == h.hasFinally /\ h.phase <= 1

exitTry(f, c) ==
  LET stops == {i \in DOMAIN f.tryStack : Stays(f.tryStack[i], c) \/ RunsFinally(f.tryStack[i])} IN
  IF stops # {}
  THEN LET i == Max(stops)
           h == f.tryStack[i]
       IN  /\ WithCur(IF Stays(h, c)
                      THEN [pc |-> c.value, tryStack |-> Prefix(f.tryStack, i)]
                      ELSE [pc |-> FinallyPC(h),
                            tryStack |-> Append(Prefix(f.tryStack, i - 1),
                                                [h EXCEPT !.completion = c, !.phase = 2])])
           /\ out' = None
  ELSE IF c.type = "jump"
       THEN WithCur([pc |-> c.value, tryStack |-> << >>]) /\ out' = None
       ELSE frames' = Callers /\ out' = c                        \* doReturn

(* OpTryExit and OpTryExitFinally look for the handler of their own entry *)
HandlersOf(f) ==
  LET n == Len(f.pc) IN
  {i \in DOMAIN f.tryStack : /\ f.tryStack[i].at = Prefix(f.pc, n - 1)
                             /\ f.tryStack[i].hasCatch = f.pc[n].catch
                             /\ f.tryStack[i].hasFinally = f.pc[n].finally}

After(f) == Prefix(f.pc, Len(f.pc) - 1)

(* OpTryExit falls through, or jumps over the catch block, to the finally block or the end *)
handleTryExit(f) ==
  LET i == Max(HandlersOf(f))
      h == f.tryStack[i]
      exc == IF h.phase = 1 THEN None ELSE h.exc
  IN  /\ WithCur(IF h.hasFinally
                 THEN [pc |-> FinallyPC(h), tryStack |-> [f.tryStack EXCEPT ![i] = [h EXCEPT !.phase = 2, !.exc = exc]]]
                 ELSE [pc |-> After(f), tryStack |-> Prefix(f.tryStack, i - 1)])
      /\ out' = None

(* mutant: the exception that a catch block has handled is looked at first *)
handleTryExitFinallyExcFirst(f) ==
  LET i == Max(HandlersOf(f))
      h == f.tryStack[i]
      popped == [pc |-> After(f), tryStack |-> Prefix(f.tryStack, i - 1)]
  IN  CASE h.exc # None -> handleThrow(popped, h.exc)
        [] h.exc = None /\ h.completion # None -> exitTry(popped, h.completion)
        [] OTHER -> WithCur(popped) /\ out' = None

handleTryExitFinally(f) ==
  LET i == Max(HandlersOf(f))
      h == f.tryStack[i]
      popped == [pc |-> After(f), tryStack |-> Prefix(f.tryStack, i - 1)]
  IN  CASE h.completion # None -> exitTry(popped, h.completion)
        [] h.completion = None /\ h.exc # None -> handleThrow(popped, h.exc)
        [] OTHER -> WithCur(popped) /\ out' = None

(***************************************************************************)
(* One action per instruction that matters here                            *)
(***************************************************************************)
Room == FoldSet(LAMBDA i, n : n + 1 + Len(frames[i].pc), 0, DOMAIN frames) < MaxDepth

TryEnter(c, f) ==
  /\ Running /\ Room /\ (c \/ f)
  /\ LET h == [at |-> Cur.pc, hasCatch |-> c, hasFinally |-> f, phase |-> 0, exc |-> None, completion |-> None]
     IN  WithCur([pc |-> PartPC(h, "try"), tryStack |-> Append(Cur.tryStack, h)])
  /\ out' = None

Call ==
  /\ Running /\ Room /\ Len(frames) < MaxCalls
  /\ frames' = Append(frames, [pc |-> << >>, tryStack |-> << >>])
  /\ out' = None

EndPart ==
  /\ Running /\ Cur.pc # << >>
  /\ IF Cur.pc[Len(Cur.pc)].part = "finally" THEN handleTryExitFinally(Cur) ELSE handleTryExit(Cur)

Throw(v) == Running /\ handleThrow(Cur, v)

Return(v) == Running /\ exitTry(Cur, [type |-> "return", value |-> v])

(* break and continue: compileBreak emits OpTryExitJmp inside a try and      *)
(* tryExitJmpJudge lowers it to OpJmp when the target is in the same part of *)
(* every statement around it.                                                *)
JudgeOutermost(site, target) == Len(target) > 0 \/ site = << >>   \* mutant: one region is enough
tryExitJmpJudge(site, target) == Len(target) = Len(site)

Break(d) ==
  /\ Running
  /\ LET target == Prefix(Cur.pc, d)
     IN  IF tryExitJmpJudge(Cur.pc, target)
         THEN WithCur([Cur EXCEPT !.pc = target]) /\ out' = None
         ELSE exitTry(Cur, [type |-> "jump", value |-> target])

(* The error of an OpCall reaches the caller's frame, which handles it there *)
Propagate == frames # << >> /\ ~Running /\ handleThrow(Cur, out.value)

Ended == frames = << >> /\ UNCHANGED vars

Init == frames = << [pc |-> << >>, tryStack |-> << >>] >> /\ out = None

Next == \/ \E c, f \in BOOLEAN : TryEnter(c, f)
        \/ Call \/ EndPart \/ Propagate \/ Ended
        \/ \E v \in Values : Throw(v) \/ Return(v)
        \/ Running /\ \E d \in 0..Len(Cur.pc) : Break(d)

Spec == Init /\ [][Next]_vars
-----------------------------------------------------------------------------
(***************************************************************************)
(* Properties                                                              *)
(***************************************************************************)
(* Frames hold positions and handlers, and what is pending is a value or a completion *)
TypeOK ==
  /\ \A i \in DOMAIN frames :
       /\ \A j \in DOMAIN frames[i].pc : frames[i].pc[j] \in TypeOfPart
       /\ \A j \in DOMAIN frames[i].tryStack :
            LET h == frames[i].tryStack[j]
            IN  h.phase \in 0..2 /\ h.exc \in Values \cup {None}
                /\ (h.completion # None => h.completion.type = "jump" \/ h.completion \in Completion)
  /\ out \in Completion \cup {None}

(* The handler stack of a frame is the try statements around its pc, each in *)
(* the phase of the part that pc is in.  A jump lowered to OpJmp that left a *)
(* region, or an unwinding that kept a handler it jumped out of, would make  *)
(* a later throw land in code that is no longer running.                     *)
HandlersMatchPosition ==
  /\ TypeOK
  /\ \A i \in DOMAIN frames :
       LET f == frames[i]
       IN  /\ Len(f.tryStack) = Len(f.pc)
           /\ \A j \in DOMAIN f.pc :
                LET h == f.tryStack[j]
                IN  /\ h.at = Prefix(f.pc, j - 1)
                    /\ h.hasCatch = f.pc[j].catch /\ h.hasFinally = f.pc[j].finally
                    /\ f.pc[j].part = CASE h.phase = 0 -> "try" [] h.phase = 1 -> "catch" [] h.phase = 2 -> "finally"

(* What a finally block will resume, and that nothing else has anything to resume *)
Pending(h) == CASE h.phase < 2 -> None
                [] h.phase = 2 /\ h.completion # None ->
                     IF h.completion.type = "jump"
                     THEN [type |-> "jump", value |-> Len(h.completion.value)] ELSE h.completion
                [] h.phase = 2 /\ h.completion = None /\ h.exc # None -> [type |-> "throw", value |-> h.exc]
                [] OTHER -> None

Statement(f, j) == [catch |-> f.pc[j].catch, finally |-> f.pc[j].finally, part |-> f.pc[j].part,
                    pending |-> IF j \in DOMAIN f.tryStack THEN Pending(f.tryStack[j]) ELSE None]

callsBar == [i \in DOMAIN frames |-> [j \in DOMAIN frames[i].pc |-> Statement(frames[i], j)]]

ECMA == INSTANCE Completions WITH calls <- callsBar

(* handleThrow drops a catch block whose statement has a finally block: the  *)
(* one place where the VM leaves ECMA-262 (see FinallyRuns)                  *)
DropsFinally(f) ==
  \E i \in DOMAIN f.tryStack :
    /\ f.tryStack[i].phase = 1 /\ f.tryStack[i].hasFinally
    /\ \A j \in findHandlerInFrame(f) : i > j

Raises == (\E v \in Values : Throw(v)) \/ Propagate
          \/ (Running /\ Cur.pc # << >> /\ LET h == Cur.tryStack[Len(Cur.tryStack)]
                        IN  h.phase = 2 /\ h.completion = None /\ h.exc # None /\ EndPart)

(* Every instruction of the VM does what ECMA-262 prescribes for it: the     *)
(* block that runs next, what each finally block will resume, what a call    *)
(* returns or throws; save a throw out of a catch block, see above.          *)
ImplementsECMA ==
  /\ ECMA!Init
  /\ [][~(Raises /\ DropsFinally(Cur)) =>
          /\ EndPart => ECMA!EndPart
          /\ Propagate => ECMA!Propagate
          /\ Call => ECMA!Call
          /\ \A c, f \in BOOLEAN : TryEnter(c, f) => ECMA!Enter(c, f)
          /\ \A v \in Values : Throw(v) => ECMA!Abrupt([type |-> "throw", value |-> v])
          /\ \A v \in Values : Return(v) => ECMA!Abrupt([type |-> "return", value |-> v])
          /\ Running => \A d \in 0..Len(Cur.pc) : Break(d) => ECMA!Abrupt([type |-> "jump", value |-> d])]_vars

(* Control leaves a try statement with a finally block only from that block  *)
LeavesFromFinally ==
  \A j \in DOMAIN Cur.pc :
    (Cur.pc[j].finally /\ Cur.pc[j].part # "finally")
      => Len(frames') >= Len(frames) /\ Len(frames'[Len(frames)].pc) >= j

(* "return/break/continue must run finally before they leave the try region" *)
(* (try_finally_semantics_test.go:5): no return, break or normal end leaves  *)
(* a statement with a finally block but from that block, at any depth of     *)
(* nesting and with any completion already pending.                          *)
FinallyBeforeLeaving == [][(frames # << >> /\ ~Raises) => LeavesFromFinally]_vars

(* The same of a throw, which the code does not do: an exception thrown in a *)
(* catch block skips the finally block of its own statement.                 *)
FinallyRuns == [][(frames # << >>) => LeavesFromFinally]_vars
=============================================================================

----------------------------- MODULE Coroutine -----------------------------
(* The VM's value stack and frame stack under calls, generators, async       *)
(* functions and async generators.  A frame owns the stack from its base to  *)
(* the next frame's; a suspended body has its segment copied away, and the   *)
(* variables that closures captured live in upvalues meanwhile.              *)
(*                                                                           *)
(* Every body has one local variable and up to MaxOps operands in flight;    *)
(* what it does next is its own choice.  A cell remembers the body that put  *)
(* it there; "none" is the undefined that restoreFrame pads with.            *)
EXTENDS Naturals, Sequences, SequencesExt

CONSTANTS Generators, AsyncFunctions, AsyncGenerators,
          Plain,            \* the one name of ordinary calls and callbacks
          Values,
          MaxOps, MaxFrames, MaxStack   \* bounds: operands per frame, frames, cells

Coroutines == Generators \cup AsyncFunctions \cup AsyncGenerators
Awaiting == AsyncFunctions \cup AsyncGenerators      \* the bodies that may await

NoBody == "none"

ASSUME CoroutineAssumption ==
  /\ Plain \notin Coroutines /\ Generators \cap Awaiting = {}
  /\ Values # {} /\ MaxOps \in Nat

Undefined == CHOOSE v \in Values : TRUE              \* initial value of every variable

VARIABLES stack,    \* v.stack: cells [of, val]
          frames,   \* v.frames: [who, base, ops], base counted from 0
          body,     \* of each coroutine: [state, stack, base, closed]
          up,       \* the upvalue of its variable: [captured, open, index, val]
          said,     \* history: the value last assigned to its variable, by anybody
          shifted   \* history: a body was resumed away from its base under live frames

coVars == <<stack, frames, body, up, said, shifted>>

Cell(c, v) == [of |-> c, val |-> v]
Top == frames[Len(frames)]
InJS == frames # << >> /\ ~shifted                    \* JavaScript is running, and followed
Slot(f) == f.base + 1                                 \* the frame's local variable
Fits(n) == Len(frames) < MaxFrames /\ Len(stack) + n <= MaxStack

(* "returned": a generator runs on after a return() made from its own body *)
States == {"new", "yielded", "awaiting", "executing", "returned", "completed"}
Running(c) == body[c].state \in {"executing", "returned"}

(* closeUpvalues(base): the value moves from the slot into the upvalue *)
closeUpvalues(c, f) ==
  up' = IF c \in Coroutines /\ up[c].open
        THEN [up EXCEPT ![c] = [@ EXCEPT !.open = FALSE, !.val = stack[Slot(f)].val]] ELSE up

(* mutant: an upvalue closed at the suspension stays closed *)
reopenNothing(c, base) == up' = up
(* reopenUpvalues: the upvalues of closedUps are bound to the slot again *)
reopenUpvalues(c, base) ==
  up' = IF body[c].closed THEN [up EXCEPT ![c] = [@ EXCEPT !.open = TRUE, !.index = base + 1]] ELSE up

(***************************************************************************)
(* Ordinary calls                                                          *)
(***************************************************************************)
callClosure ==
  /\ ~shifted /\ Fits(1)
  /\ frames' = Append(frames, [who |-> Plain, base |-> Len(stack), ops |-> 0])
  /\ stack' = Append(stack, Cell(Plain, Undefined))
  /\ UNCHANGED <<body, up, said, shifted>>

(* doReturn, and the same clean-up after an uncaught throw: down to the base *)
doReturn ==
  /\ InJS
  /\ stack' = SubSeq(stack, 1, Top.base)
  /\ frames' = Front(frames)
  /\ closeUpvalues(Top.who, Top)
  /\ body' = IF Top.who \in Coroutines THEN [body EXCEPT ![Top.who].state = "completed"] ELSE body
  /\ UNCHANGED <<said, shifted>>

Push ==
  /\ InJS /\ Top.ops < MaxOps /\ Len(stack) < MaxStack
  /\ stack' = Append(stack, Cell(Top.who, Undefined))
  /\ frames' = [frames EXCEPT ![Len(frames)].ops = @ + 1]
  /\ UNCHANGED <<body, up, said, shifted>>

Pop ==
  /\ InJS /\ Top.ops > 0
  /\ stack' = Front(stack)
  /\ frames' = [frames EXCEPT ![Len(frames)].ops = @ - 1]
  /\ UNCHANGED <<body, up, said, shifted>>

(***************************************************************************)
(* Variables                                                               *)
(***************************************************************************)
captureUpvalues ==                          \* OpMakeClosure in a coroutine's body
  /\ InJS /\ Top.who \in Coroutines /\ ~up[Top.who].captured
  /\ up' = [up EXCEPT ![Top.who] = [captured |-> TRUE, open |-> TRUE, index |-> Slot(Top), val |-> Undefined]]
  /\ UNCHANGED <<stack, frames, body, said, shifted>>

StoreLocal(v) ==
  /\ InJS /\ Top.who \in Coroutines
  /\ stack' = [stack EXCEPT ![Slot(Top)].val = v]
  /\ said' = [said EXCEPT ![Top.who] = v]
  /\ UNCHANGED <<frames, body, up, shifted>>

StoreUpvalue(c, v) ==                       \* some closure of c's body runs
  /\ InJS /\ up[c].captured
  /\ IF up[c].open
     THEN stack' = [stack EXCEPT ![up[c].index].val = v] /\ UNCHANGED up
     ELSE up' = [up EXCEPT ![c].val = v] /\ UNCHANGED stack
  /\ said' = [said EXCEPT ![c] = v]
  /\ UNCHANGED <<frames, body, shifted>>

(***************************************************************************)
(* Coroutines                                                              *)
(***************************************************************************)
setupFrame(c) ==                            \* the first call, from JavaScript
  /\ InJS /\ body[c].state = "new" /\ Fits(1)
  /\ frames' = Append(frames, [who |-> c, base |-> Len(stack), ops |-> 0])
  /\ stack' = Append(stack, Cell(c, Undefined))
  /\ body' = [body EXCEPT ![c].state = "executing"]
  /\ UNCHANGED <<up, said, shifted>>

(* the segment that is copied away *)
Segment(f) == SubSeq(stack, Slot(f), Len(stack))

(* OpYield or OpAwait on the top frame: the operand is popped and the        *)
(* segment saved.  A generator keeps neither its base nor its upvalues; one  *)
(* that is "returned" keeps no state at all, and will begin again with a     *)
(* variable of its own: that of the old run is followed no further.          *)
NewBody == [state |-> "new", stack |-> << >>, base |-> 0, closed |-> FALSE]
NewUp == [captured |-> FALSE, open |-> FALSE, index |-> 0, val |-> Undefined]

Save(c, how) ==
  IF body[c].state = "returned"
  THEN /\ body' = [body EXCEPT ![c] = NewBody]
       /\ up' = [up EXCEPT ![c] = NewUp] /\ said' = [said EXCEPT ![c] = Undefined]
  ELSE /\ body' = [body EXCEPT ![c] = [state |-> how, stack |-> Segment(Top), base |-> Top.base,
                                       closed |-> c \in Awaiting /\ up[c].open]]
       /\ closeUpvalues(c, Top) /\ UNCHANGED said

Suspend(how) ==
  /\ InJS /\ LET c == Top.who IN
     /\ c \in Coroutines
     /\ how = "yielded" => c \notin AsyncFunctions
     /\ how = "awaiting" => c \in Awaiting
     /\ Save(c, how)
  /\ stack' = SubSeq(stack, 1, Top.base)
  /\ frames' = Front(frames)
  /\ UNCHANGED shifted

(* mutant: a generator's frame gets the base it had when it was suspended *)
resumeAtSavedBase(c) ==
  /\ InJS /\ c \in Generators /\ body[c].state = "yielded" /\ Fits(Len(body[c].stack))
  /\ frames' = Append(frames, [who |-> c, base |-> body[c].base, ops |-> Len(body[c].stack) - 1])
  /\ stack' = stack \o body[c].stack
  /\ body' = [body EXCEPT ![c] = [@ EXCEPT !.state = "executing", !.stack = << >>]]
  /\ UNCHANGED <<up, said, shifted>>

(* GeneratorValue.resume: the segment goes on top of whatever is there *)
resume(c) ==
  /\ InJS /\ c \in Generators /\ body[c].state = "yielded" /\ Fits(Len(body[c].stack))
  /\ frames' = Append(frames, [who |-> c, base |-> Len(stack), ops |-> Len(body[c].stack) - 1])
  /\ stack' = stack \o body[c].stack
  /\ body' = [body EXCEPT ![c] = [@ EXCEPT !.state = "executing", !.stack = << >>]]
  /\ UNCHANGED <<up, said, shifted>>

(* restoreFrame of async functions and generators: the segment goes back to  *)
(* the base it was saved from, cutting or padding the stack to it, and the   *)
(* captured variable gets the value its upvalue has by now.                  *)
Padded(n) == [i \in 1..n |-> IF i \in DOMAIN stack THEN stack[i] ELSE Cell(NoBody, Undefined)]

restoreFrame(c) ==
  LET b == body[c]
      segment == IF b.closed THEN [b.stack EXCEPT ![1].val = up[c].val] ELSE b.stack
  IN  /\ Len(frames) < MaxFrames
      /\ stack' = Padded(b.base) \o segment
      /\ frames' = Append(frames, [who |-> c, base |-> b.base, ops |-> Len(b.stack) - 1])
      /\ body' = [body EXCEPT ![c] = [@ EXCEPT !.state = "executing", !.stack = << >>, !.closed = FALSE]]
      /\ reopenUpvalues(c, b.base)
      /\ shifted' = (frames # << >> /\ Len(stack) # b.base)
      /\ UNCHANGED said

(* The awaited promise settled: the reaction job resumes the body, from the  *)
(* idle loop, or from AwaitPromise under the frames that are waiting in it.  *)
runStep(c) == ~shifted /\ c \in Awaiting /\ body[c].state = "awaiting" /\ restoreFrame(c)

(* g.next() of an async generator that waits at a yield: resumed at once     *)
AsyncNext(c) == InJS /\ c \in AsyncGenerators /\ body[c].state = "yielded" /\ restoreFrame(c)

(* return() and throw() of a generator that is not running: its saved frame  *)
(* is dropped.  return() of one that is running is not refused, next() and   *)
(* throw() are.                                                              *)
returnVal(c) ==
  /\ InJS /\ c \in Generators \cup AsyncGenerators
  /\ \/ /\ body[c].state \in {"new", "yielded"}
        /\ body' = [body EXCEPT ![c] = [NewBody EXCEPT !.state = "completed"]]
     \/ /\ c \in Generators /\ body[c].state = "executing"
        /\ body' = [body EXCEPT ![c].state = "returned"]
  /\ UNCHANGED <<stack, frames, up, said, shifted>>

(***************************************************************************)
(* Specification.  Once shifted, frames read each other's cells: what the    *)
(* program does from there on is not followed.                               *)
(***************************************************************************)
CoInit ==
  /\ stack = << >> /\ frames = << >> /\ shifted = FALSE
  /\ body = [c \in Coroutines |-> NewBody]
  /\ up = [c \in Coroutines |-> NewUp]
  /\ said = [c \in Coroutines |-> Undefined]

Lost == shifted /\ UNCHANGED coVars

CoNext ==
  \/ callClosure \/ doReturn \/ Push \/ Pop \/ captureUpvalues
  \/ \E v \in Values : StoreLocal(v)
  \/ \E c \in Coroutines, v \in Values : StoreUpvalue(c, v)
  \/ \E how \in {"yielded", "awaiting"} : Suspend(how)
  \/ \E c \in Coroutines : setupFrame(c)
  \/ \E c \in Coroutines : resume(c)
  \/ \E c \in Coroutines : runStep(c)
  \/ \E c \in Coroutines : AsyncNext(c)
  \/ \E c \in Coroutines : returnVal(c)
  \/ Lost

CoSpec == CoInit /\ [][CoNext]_coVars
-----------------------------------------------------------------------------
(***************************************************************************)
(* Properties                                                              *)
(***************************************************************************)
Live(c) == \E i \in DOMAIN frames : frames[i].who = c
FrameOf(c) == frames[CHOOSE i \in DOMAIN frames : frames[i].who = c]

(* Types; a coroutine is running exactly while it has a frame, and only one  *)
CoTypeOK ==
  /\ \A i \in DOMAIN stack : stack[i].of \in Coroutines \cup {Plain, NoBody} /\ stack[i].val \in Values
  /\ \A i \in DOMAIN frames : frames[i].who \in Coroutines \cup {Plain} /\ frames[i].ops \in 0..MaxOps
  /\ \A c \in Coroutines :
       /\ body[c].state \in States /\ said[c] \in Values
       /\ Running(c) <=> Live(c)
       /\ \A i, j \in DOMAIN frames : frames[i].who = c /\ frames[j].who = c => i = j

EndOf(i) == IF i = Len(frames) THEN Len(stack) ELSE frames[i + 1].base

(* Every active frame has its local and its operands to itself, whatever was *)
(* suspended and resumed above it, from wherever: a call returns to operands *)
(* that are all there and its own.  So has a suspended body in its segment.  *)
FramesIntact ==
  /\ CoTypeOK
  /\ ~shifted => \A i \in DOMAIN frames :
       LET f == frames[i]
       IN  /\ EndOf(i) - f.base = 1 + f.ops
           /\ \A k \in (f.base + 1)..EndOf(i) : stack[k].of = f.who
  /\ \A c \in Coroutines : body[c].state \in {"yielded", "awaiting"} =>
       /\ Len(body[c].stack) \in 1..(1 + MaxOps)
       /\ \A k \in DOMAIN body[c].stack : body[c].stack[k].of = c

ClosureSees(c) == IF up[c].open THEN stack[up[c].index].val ELSE up[c].val
BodySees(c) == stack[Slot(FrameOf(c))].val

(* A captured variable is one variable: the running body and its closures    *)
(* read what either of them wrote last, also over suspensions during which   *)
(* closures went on writing.  Of bodies that may await ("Keeping an upvalue  *)
(* closed after resume lets those two copies diverge", vm_closure.go:66);    *)
(* generators do keep it closed.  An open upvalue points into the frame that *)
(* owns the variable, never at another's cell or past the end of the stack.  *)
OneVariable ==
  ~shifted =>
    /\ \A c \in Awaiting :
         /\ up[c].captured => ClosureSees(c) = said[c]
         /\ Live(c) => BodySees(c) = said[c]
    /\ \A c \in Coroutines : up[c].open => Live(c) /\ up[c].index = Slot(FrameOf(c))

=============================================================================

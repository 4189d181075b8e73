---------------------------- MODULE Completions ----------------------------
(* What ECMA-262 promises of try statements, as the interpreter's comment on *)
(* exitTry claims it.  A call is the sequence of the try statements it is    *)
(* in, outermost first; each is in one of its parts, and a finally block     *)
(* keeps the completion that it interrupted until it ends.                   *)
EXTENDS Naturals, Sequences, FiniteSetsExt

CONSTANTS Values,      \* values thrown and returned
          None

VARIABLES calls,       \* the active calls, outermost first
          out          \* how control last left a call; a throw is on its way to the caller

vars == <<calls, out>>

Parts == {"try", "catch", "finally"}

Completion == [type : {"throw", "return"}, value : Values] \cup [type : {"jump"}, value : Nat]

(* The statement r, being in its part, handles the completion c *)
Handles(r, c) ==
  \/ r.part = "try" /\ (r.finally \/ c.type = "throw")
  \/ r.part = "catch" /\ r.finally

Into(r, c) == IF r.part = "try" /\ r.catch /\ c.type = "throw"
              THEN [r EXCEPT !.part = "catch"]
              ELSE [r EXCEPT !.part = "finally", !.pending = c]

(* c leaves the statements of the current call from the inside out.  A jump  *)
(* ends in the statement at its depth, which stays; the innermost statement  *)
(* in the way that handles c takes over.                                     *)
Complete(p, c) ==
  LET handlers == {i \in DOMAIN p : Handles(p[i], c) /\ (c.type = "jump" => i > c.value)}
      callers == SubSeq(calls, 1, Len(calls) - 1)
  IN  IF handlers # {}
      THEN LET i == Max(handlers)
           IN  calls' = Append(callers, Append(SubSeq(p, 1, i - 1), Into(p[i], c))) /\ out' = None
      ELSE IF c.type = "jump"
           THEN calls' = Append(callers, SubSeq(p, 1, c.value)) /\ out' = None
           ELSE calls' = callers /\ out' = c

Current == calls[Len(calls)]

Running == calls # << >> /\ (out # None => out.type # "throw")

Enter(c, f) ==
  /\ Running /\ (c \/ f)
  /\ calls' = [calls EXCEPT ![Len(calls)] =
                 Append(@, [catch |-> c, finally |-> f, part |-> "try", pending |-> None])]
  /\ out' = None

Call == Running /\ calls' = Append(calls, << >>) /\ out' = None

(* The part that control is in ends normally *)
EndPart ==
  /\ Running /\ Current # << >>
  /\ LET p == Current
         r == p[Len(p)]
         outer == SubSeq(p, 1, Len(p) - 1)
         goto(q) == calls' = [calls EXCEPT ![Len(calls)] = q] /\ out' = None
     IN  CASE r.part # "finally" /\ r.finally -> goto(Append(outer, [r EXCEPT !.part = "finally"]))
           [] r.part # "finally" /\ ~r.finally -> goto(outer)
           [] r.part = "finally" /\ r.pending = None -> goto(outer)
           [] OTHER -> Complete(outer, r.pending)

Abrupt(c) == Running /\ Complete(Current, c)

Propagate == calls # << >> /\ ~Running /\ Complete(Current, out)

Init == calls = << << >> >> /\ out = None

Next == \/ \E c, f \in BOOLEAN : Enter(c, f)
        \/ Call \/ EndPart \/ Propagate
        \/ \E v \in Values : Abrupt([type |-> "throw", value |-> v])
        \/ \E v \in Values : Abrupt([type |-> "return", value |-> v])
        \/ Running /\ \E d \in 0..Len(Current) : Abrupt([type |-> "jump", value |-> d])

Spec == Init /\ [][Next]_vars
=============================================================================

--------------------------- MODULE RequestQueue ---------------------------
(* What an async generator promises of its requests (ECMA-262 27.6.3): each  *)
(* is answered once, in the order they were made, and once a request has     *)
(* been answered by the end of the body, the later ones are answered without *)
(* it: next and return with done, throw with a rejection.                    *)
EXTENDS Naturals, Sequences

CONSTANTS Generators

VARIABLES
  asked,    \* per generator the kinds of the requests made, in order
  answers   \* per generator the answers given, in order: [req, res]

Kinds == {"next", "return", "throw"}
Results == {"yield", "done", "rejected"}

Over(s) == \E i \in DOMAIN s : s[i].res # "yield"
Late(kind) == IF kind = "throw" THEN "rejected" ELSE "done"

Init == asked = [g \in Generators |-> << >>] /\ answers = [g \in Generators |-> << >>]

Ask(g) ==
  /\ \E k \in Kinds : asked' = [asked EXCEPT ![g] = Append(@, k)]
  /\ UNCHANGED answers

Answer(g) ==
  LET r == Len(answers[g]) + 1
  IN  /\ r <= Len(asked[g])
      /\ \E x \in Results :
           /\ Over(answers[g]) => x = Late(asked[g][r])
           /\ answers' = [answers EXCEPT ![g] = Append(@, [req |-> r, res |-> x])]
      /\ UNCHANGED asked

Next == \E g \in Generators : Ask(g) \/ Answer(g)

Spec == Init /\ [][Next]_<<asked, answers>>
=============================================================================

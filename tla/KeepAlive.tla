----------------------------- MODULE KeepAlive -----------------------------
(***************************************************************************)
(* What the event loop promises, without its channels, tokens and threads  *)
(* (src/internal/engine/interpreter/eventloop.go:11-18): things keep it    *)
(* alive; it is over once none is left, or once it has been stopped, and   *)
(* nothing becomes alive after that.                                       *)
(***************************************************************************)
CONSTANT Things

VARIABLES
    alive, \* what keeps the loop alive
    over,  \* the loop accepts nothing more
    stop   \* somebody has asked it to stop

vars == <<alive, over, stop>>

Init == alive = {} /\ over = FALSE /\ stop = FALSE

Begin(x) ==
    /\ ~over /\ x \notin alive
    /\ alive' = alive \cup {x}
    /\ UNCHANGED <<over, stop>>

End(x) ==
    /\ x \in alive
    /\ alive' = alive \ {x}
    /\ UNCHANGED <<over, stop>>

Stop ==
    /\ stop' = TRUE
    /\ UNCHANGED <<alive, over>>

Exit ==
    /\ ~over /\ (alive = {} \/ stop)
    /\ over' = TRUE
    /\ UNCHANGED <<alive, stop>>

Next == (\E x \in Things : Begin(x) \/ End(x)) \/ Stop \/ Exit

Spec == Init /\ [][Next]_vars

FairSpec == Spec /\ WF_vars(Exit)
=============================================================================

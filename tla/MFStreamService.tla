--------------------------- MODULE MFStreamService ---------------------------
(* What a byte stream promises its callers, as abstract as it gets: every  *)
(* read or write is answered at most once, in the order of submission, and *)
(* closing the stream leaves room for at most one more answer.             *)
EXTENDS Naturals, Sequences

CONSTANT Ops      \* reads and writes, each submitted at most once

VARIABLES
    submitted,    \* operations handed to the stream
    waiting,      \* those not yet answered, oldest first
    answered,     \* those answered, in order
    closed,       \* the stream was closed
    late          \* answers given after that

vars == <<submitted, waiting, answered, closed, late>>

Init ==
    /\ submitted = {} /\ waiting = << >> /\ answered = << >>
    /\ closed = FALSE /\ late = 0

Submit(o) ==
    /\ o \notin submitted
    /\ submitted' = submitted \cup {o}
    /\ waiting' = Append(waiting, o)
    /\ UNCHANGED <<answered, closed, late>>

Answer ==
    /\ waiting # << >> /\ late = 0
    /\ answered' = Append(answered, Head(waiting))
    /\ waiting' = Tail(waiting)
    /\ late' = IF closed THEN 1 ELSE 0
    /\ UNCHANGED <<submitted, closed>>

Close ==
    /\ closed' = TRUE
    /\ UNCHANGED <<submitted, waiting, answered, late>>

Next == (\E o \in Ops : Submit(o)) \/ Answer \/ Close

Spec == Init /\ [][Next]_vars
=============================================================================

--------------------------- MODULE AsyncIterator ---------------------------
(***************************************************************************)
(* What an async generator promises to the scripts that call next, return  *)
(* and throw on it: every request is answered once, in the order of the    *)
(* requests, and once an answer says that the iteration is over (done, or  *)
(* a rejection) no later answer carries a value again.                     *)
(***************************************************************************)
EXTENDS Naturals, Sequences

CONSTANT MaxRequests    \* bound: how many requests scripts make

VARIABLES
    waiting,    \* the requests that have no answer yet, oldest first
    answered,   \* [id, as] of the requests that have one, oldest first
    finished    \* an answer has said that the iteration is over

vars == <<waiting, answered, finished>>

Outcomes == {"value", "done", "rejected"}

Init == waiting = <<>> /\ answered = <<>> /\ finished = FALSE

Ask ==
    /\ Len(answered) + Len(waiting) < MaxRequests
    /\ waiting' = Append(waiting, Len(answered) + Len(waiting) + 1)
    /\ UNCHANGED <<answered, finished>>

Answer(outcome) ==
    /\ waiting # <<>>
    /\ finished => outcome # "value"
    /\ waiting' = Tail(waiting)
    /\ answered' = Append(answered, [id |-> Head(waiting), as |-> outcome])
    /\ finished' = (finished \/ outcome # "value")

Next == Ask \/ \E outcome \in Outcomes : Answer(outcome)

Spec == Init /\ [][Next]_vars
=============================================================================

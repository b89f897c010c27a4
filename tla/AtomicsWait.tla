---------------------------- MODULE AtomicsWait ----------------------------
(***************************************************************************)
(* Atomics.wait and Atomics.notify on one SharedArrayBuffer that several   *)
(* agents share: lib/Runtime/Library/AtomicsObject.cpp (EntryWait,         *)
(* EntryNotify) and lib/Runtime/Library/SharedArrayBuffer.cpp              *)
(* (GetWaiterList, WaiterList).  This is the Windows build: elsewhere      *)
(* AddAndSuspendWaiter does not suspend yet ("TODO for xplat").            *)
(*                                                                         *)
(* Each WaiterList has a critical section, csForAccess.  A step below is   *)
(* one stretch of a call under that lock, or one outside of any: a waiter  *)
(* leaves the lock for as long as it sleeps on its event, and stores to    *)
(* the array take no lock at all.                                          *)
(***************************************************************************)
EXTENDS Integers, SequencesExt

CONSTANTS
    Agents,     \* script contexts, each on a thread of its own
    Indices,    \* byte offsets of int32 elements in the buffer
    Values,     \* what the elements can hold
    Lists,      \* addresses at which a WaiterList can be allocated
    Counts,     \* integers that scripts pass to notify as the count
    HalfWord,   \* how many int32 values are negative (2^31 in the program)
    None        \* no list, or an argument the script left out

ASSUME AtomicsAssumption ==
    /\ None \notin Lists
    /\ Counts \subseteq Int /\ None \notin Counts
    /\ HalfWord \in Nat \ {0}

VARIABLES
    cell,               \* the elements of the array
    indexToWaiterList,  \* SharedContents::indexToWaiterList
    waiters,            \* WaiterList::m_waiters of each list, oldest first
    call,               \* the call of wait or notify that each agent is in
    event,              \* the event of its latest wait: closed, reset or set
    owed                \* the indices stored to since they were last notified
                        \* with room for every waiter (history)

vars == <<cell, indexToWaiterList, waiters, call, event, owed>>

\* The locals of a call: how far it is (pc), the WaiterList it works on, its
\* bufferIndex, the value a wait expects to find, whether its timeout is
\* other than INFINITE, and how many waiters a notify may wake.
NoCall == [pc |-> "idle", list |-> None, index |-> None, value |-> None,
           finite |-> FALSE, count |-> 0]

Called(a) == call[a].pc

-----------------------------------------------------------------------------
(* Conversions and lists.                                                  *)

IntMax == HalfWord - 1

\* JavascriptConversion::ToInt32 of an integral number: it wraps around.
ToInt32(d) == ((d + HalfWord) % (2 * HalfWord)) - HalfWord

\* Mutant: the clamp is left out.
NotifyCountUnclamped(c) == IF c = None THEN IntMax ELSE ToInt32(c)

\* The count of EntryNotify: INT_MAX if left out, else clamped from below.
NotifyCount(c) ==
    IF c = None THEN IntMax
    ELSE LET i == ToInt32(c) IN IF i < 0 THEN 0 ELSE i

\* A list that is not in the map yet (HeapNew).
Unused(l) == \A i \in Indices : indexToWaiterList[i] # l

\* Mutant: the map is looked up before the lock is taken and the list added after it.
GetWaiterListAnew(i, l) == Unused(l)

\* GetWaiterList, under csSharedArrayBuffer, returns l: the list of an index
\* is allocated by the first call that asks for it, and found by the others.
GetWaiterList(i, l) ==
    IF indexToWaiterList[i] = None THEN Unused(l) ELSE l = indexToWaiterList[i]

\* The agents on a list.
OnList(l) == {waiters[l][k] : k \in 1..Len(waiters[l])}

\* How many waiters a notify with count n takes off list l.
Removed(l, n) == IF n < Len(waiters[l]) THEN n ELSE Len(waiters[l])

\* Mutant: only one of the removed waiters is woken.
SetEventOfOne(S) ==
    event' = [b \in Agents |-> IF S # {} /\ b = CHOOSE x \in S : TRUE
                               THEN "set" ELSE event[b]]

\* SetEvent for the agents of S.
SetEvent(S) == event' = [b \in Agents |-> IF b \in S THEN "set" ELSE event[b]]

-----------------------------------------------------------------------------
(* EntryWait.                                                              *)

\* The arguments are converted, and the list of the index is looked up.
WaitStart(a, i, l, v, t) ==
    /\ Called(a) = "idle"
    /\ GetWaiterList(i, l)
    /\ indexToWaiterList' = [indexToWaiterList EXCEPT ![i] = l]
    /\ call' = [call EXCEPT ![a] = [pc |-> "entering", list |-> l, index |-> i,
                                   value |-> v, finite |-> t, count |-> 0]]
    /\ UNCHANGED <<cell, waiters, event, owed>>

\* Under the lock: does the element hold what the script expects?
Matches(a) == cell[call[a].index] = call[a].value

Goto(a, there) == call' = [call EXCEPT ![a].pc = there]

Return(a) == call' = [call EXCEPT ![a] = NoCall]

\* "not-equal".
WaitNotEqual(a) ==
    /\ Called(a) = "entering" /\ ~Matches(a)
    /\ Return(a)
    /\ UNCHANGED <<cell, indexToWaiterList, waiters, event, owed>>

\* AddAndSuspendWaiter up to WaitForSingleObject: the agent is listed with a
\* new event that is not set, and leaves the lock.
AddAndSuspendWaiter(a) ==
    /\ Called(a) = "entering" /\ Matches(a)
    /\ waiters' = [waiters EXCEPT ![call[a].list] = Append(@, a)]
    /\ event' = [event EXCEPT ![a] = "reset"]
    /\ Goto(a, "asleep")
    /\ UNCHANGED <<cell, indexToWaiterList, owed>>

\* WaitForSingleObject returns WAIT_OBJECT_0, ...
WaitWakes(a) ==
    /\ Called(a) = "asleep" /\ event[a] = "set"
    /\ Goto(a, "awoken")
    /\ UNCHANGED <<cell, indexToWaiterList, waiters, event, owed>>

\* ... or WAIT_TIMEOUT; the agent does not have the lock at this point.
WaitTimesOut(a) ==
    /\ Called(a) = "asleep" /\ event[a] = "reset" /\ call[a].finite
    /\ Goto(a, "timedOut")
    /\ UNCHANGED <<cell, indexToWaiterList, waiters, event, owed>>

\* Under the lock again: "ok".  The event stays open.
WaitReturnsOk(a) ==
    /\ Called(a) = "awoken"
    /\ Return(a)
    /\ UNCHANGED <<cell, indexToWaiterList, waiters, event, owed>>

\* Mutant: a waiter that timed out stays on the list.
RemoveWaiterNever(a) == UNCHANGED <<waiters, event>>

\* RemoveWaiter: the waiter is taken off the list and its event closed.  A
\* waiter that is not there any more runs into Assert(false), which the
\* release build passes over.
RemoveWaiter(a) ==
    LET s == waiters[call[a].list]
        p == CHOOSE k \in 1..Len(s) : s[k] = a
    IN  IF a \in OnList(call[a].list)
        THEN /\ waiters' = [waiters EXCEPT ![call[a].list] = RemoveAt(s, p)]
             /\ event' = [event EXCEPT ![a] = "closed"]
        ELSE UNCHANGED <<waiters, event>>

\* Under the lock again: "timed-out".
WaitReturnsTimedOut(a) ==
    /\ Called(a) = "timedOut"
    /\ RemoveWaiter(a)
    /\ Return(a)
    /\ UNCHANGED <<cell, indexToWaiterList, owed>>

-----------------------------------------------------------------------------
(* EntryNotify, and the stores of the scripts.                             *)

NotifyStart(a, i, l, c) ==
    /\ Called(a) = "idle"
    /\ GetWaiterList(i, l)
    /\ indexToWaiterList' = [indexToWaiterList EXCEPT ![i] = l]
    /\ call' = [call EXCEPT ![a] = [pc |-> "notifying", list |-> l, index |-> i,
                                   value |-> None, finite |-> FALSE, count |-> NotifyCount(c)]]
    /\ UNCHANGED <<cell, waiters, event, owed>>

\* Under the lock: as many waiters as the count allows are taken off the
\* front of the list and their events set.
RemoveAndWakeWaiters(a) ==
    LET s == waiters[call[a].list]
        n == Removed(call[a].list, call[a].count)
    IN  /\ Called(a) = "notifying"
        /\ waiters' = [waiters EXCEPT ![call[a].list] = SubSeq(s, n + 1, Len(s))]
        /\ SetEvent({s[k] : k \in 1..n})
        /\ owed' = IF n = Len(s) THEN owed \ {call[a].index} ELSE owed
        /\ Return(a)
        /\ UNCHANGED <<cell, indexToWaiterList>>

\* Atomics.store, add, sub, ... or a plain store of the script.
Store(a, i, v) ==
    /\ Called(a) = "idle"
    /\ cell[i] # v
    /\ cell' = [cell EXCEPT ![i] = v]
    /\ owed' = owed \cup {i}
    /\ UNCHANGED <<indexToWaiterList, waiters, call, event>>

-----------------------------------------------------------------------------
Init ==
    /\ cell \in [Indices -> Values]
    /\ indexToWaiterList = [i \in Indices |-> None]
    /\ waiters = [l \in Lists |-> <<>>]
    /\ call = [a \in Agents |-> NoCall]
    /\ event = [a \in Agents |-> "closed"]
    /\ owed = {}

\* The steps by which a call that has begun goes on.
Continue(a) ==
    \/ WaitNotEqual(a)
    \/ AddAndSuspendWaiter(a)
    \/ WaitWakes(a)
    \/ WaitTimesOut(a)
    \/ WaitReturnsOk(a)
    \/ WaitReturnsTimedOut(a)
    \/ RemoveAndWakeWaiters(a)

Next ==
    \E a \in Agents :
        \/ Continue(a)
        \/ \E i \in Indices, l \in Lists, v \in Values, t \in BOOLEAN : WaitStart(a, i, l, v, t)
        \/ \E i \in Indices, l \in Lists, c \in Counts \cup {None} : NotifyStart(a, i, l, c)
        \/ \E i \in Indices, v \in Values : Store(a, i, v)

Spec == Init /\ [][Next]_vars

\* The agents' threads are scheduled, and the critical sections, which hold
\* no thread for longer than a few steps, are eventually entered.
FairSpec == Spec /\ \A a \in Agents : WF_vars(Continue(a))

-----------------------------------------------------------------------------
(* Properties.                                                             *)

Calls ==
    [pc : {"idle", "entering", "asleep", "awoken", "timedOut", "notifying"},
     list : Lists \cup {None}, index : Indices \cup {None}, value : Values \cup {None},
     finite : BOOLEAN, count : 0..IntMax]

\* Every variable has its type; a count is not negative, as
\* RemoveAndWakeWaiters asserts.
TypeOK ==
    /\ cell \in [Indices -> Values]
    /\ indexToWaiterList \in [Indices -> Lists \cup {None}]
    /\ waiters \in [Lists -> Seq(Agents)]
    /\ call \in [Agents -> Calls]
    /\ event \in [Agents -> {"closed", "reset", "set"}]
    /\ owed \subseteq Indices

\* No two indices share a list.
ListsDistinct ==
    \A i, j \in Indices :
        indexToWaiterList[i] = indexToWaiterList[j] /\ indexToWaiterList[i] # None => i = j

\* A call works on the list that the map has for its index.
RightList ==
    \A a \in Agents :
        Called(a) # "idle" =>
            /\ call[a].index \in Indices
            /\ call[a].list = indexToWaiterList[call[a].index] /\ call[a].list \in Lists

\* The event of a wait in progress is open, and set for an awoken agent.
EventsFollow ==
    \A a \in Agents :
        /\ Called(a) \in {"asleep", "timedOut"} => event[a] \in {"reset", "set"}
        /\ Called(a) = "awoken" => event[a] = "set"

\* An agent is listed, on the list of its own index, exactly while its wait
\* has not been notified and has not returned.
ListedWhileUnnotified ==
    \A a \in Agents, l \in Lists :
        a \in OnList(l) <=>
            /\ Called(a) \in {"asleep", "timedOut"} /\ event[a] = "reset"
            /\ call[a].list = l

\* An agent is on a list at most once (the Assert(!Contains(waiter)) of
\* AddAndSuspendWaiter).
ListedOnce ==
    \A l \in Lists : \A j, k \in 1..Len(waiters[l]) :
        waiters[l][j] = waiters[l][k] => j = k

\* The waiter lists and the waiters agree: an agent that sleeps can be found
\* by the next notify of its index or has been notified already, nobody else
\* is found, and nobody is counted twice by notify.
WaitersExact == ListedWhileUnnotified /\ ListedOnce

\* No wakeup is lost between the comparison in wait and the suspension: an
\* agent that sleeps unnotified although its element no longer holds the
\* value it expects was overtaken by a store that no notify has followed.
NoLostWakeup ==
    \A a \in Agents :
        Called(a) = "asleep" /\ event[a] = "reset" /\ ~(cell[call[a].index] = call[a].value)
            => call[a].index \in owed

\* An agent that a notify has taken off its list, and an agent whose wait has
\* a timeout, does not sleep for ever.
WaitEnds ==
    \A a \in Agents :
        Called(a) = "asleep" /\ (call[a].finite \/ a \notin OnList(call[a].list))
            ~> Called(a) = "idle"

\* A wait that timed out finds itself on the list (RemoveWaiter says
\* Assert(false) otherwise), that is, no notify has counted it as woken.
TimedOutIsListed ==
    \A a \in Agents : Called(a) = "timedOut" => a \in OnList(call[a].list)

\* The invariant that the proofs carry.
IndInv ==
    /\ TypeOK
    /\ ListsDistinct
    /\ RightList
    /\ EventsFollow
    /\ WaitersExact
    /\ NoLostWakeup
=============================================================================

------------------------- MODULE AtomicsWaitProofs -------------------------
(***************************************************************************)
(* Proofs that no wakeup of Atomics.wait is lost and that the waiter lists *)
(* are exact, for any number of agents, elements, values and counts.       *)
(***************************************************************************)
EXTENDS AtomicsWait, TLAPS

\* ToInt32 gives an int32, so that the clamped count is at most INT_MAX.
LEMMA NotifyCountType ==
  ASSUME NEW c \in Counts \cup {None}
  PROVE  NotifyCount(c) \in 0..IntMax
<1>1. HalfWord \in Nat /\ HalfWord > 0 /\ IntMax \in Nat /\ IntMax = HalfWord - 1
  BY AtomicsAssumption DEF IntMax
<1>2. CASE c = None
  BY <1>1, <1>2 DEF NotifyCount
<1>3. CASE c # None
  <2>1. c \in Int
    BY <1>3, AtomicsAssumption
  <2>2. (c + HalfWord) % (2 * HalfWord) \in 0..(2 * HalfWord - 1)
    BY <1>1, <2>1
  <2>3. ToInt32(c) \in Int /\ ToInt32(c) <= IntMax
    BY <1>1, <2>2 DEF ToInt32
  <2> QED
    BY <1>1, <1>3, <2>3 DEF NotifyCount
<1> QED
  BY <1>2, <1>3

-----------------------------------------------------------------------------
(* What the operations on a list do to its elements.                       *)

\* The elements of a sequence, and that it has none of them twice.
Elements(s) == {s[k] : k \in 1..Len(s)}

Distinct(s) == \A j, k \in 1..Len(s) : s[j] = s[k] => j = k

\* AddAndSuspendWaiter's m_waiters->Add.
LEMMA AppendFacts ==
  ASSUME NEW S, NEW s \in Seq(S), Distinct(s), NEW x \in S, x \notin Elements(s)
  PROVE  LET r == Append(s, x)
         IN  r \in Seq(S) /\ Distinct(r) /\ Elements(r) = Elements(s) \cup {x}
<1> DEFINE r == Append(s, x)
<1>1. r \in Seq(S) /\ Len(r) = Len(s) + 1 /\ Len(s) \in Nat
  OBVIOUS
<1>2. \A k \in 1..Len(s) : r[k] = s[k]
  OBVIOUS
<1>3. r[Len(s) + 1] = x
  OBVIOUS
<1>4. \A k \in 1..Len(s) : s[k] # x
  BY DEF Elements
<1> HIDE DEF r
<1>5. Distinct(r)
  BY <1>1, <1>2, <1>3, <1>4 DEF Distinct
<1>6. Elements(r) \subseteq Elements(s) \cup {x}
  BY <1>1, <1>2, <1>3 DEF Elements
<1>7. Elements(s) \cup {x} \subseteq Elements(r)
  BY <1>1, <1>2, <1>3 DEF Elements
<1> QED
  BY <1>1, <1>5, <1>6, <1>7 DEF r

\* RemoveAndWakeWaiters's repeated RemoveAt(0).
LEMMA DropFacts ==
  ASSUME NEW S, NEW s \in Seq(S), Distinct(s), NEW n \in 0..Len(s)
  PROVE  LET r == SubSeq(s, n + 1, Len(s))
         IN  /\ r \in Seq(S) /\ Distinct(r)
             /\ Elements(r) = Elements(s) \ {s[k] : k \in 1..n}
             /\ {s[k] : k \in 1..n} \subseteq Elements(s)
             /\ n = Len(s) => Elements(r) = {}
<1> DEFINE r == SubSeq(s, n + 1, Len(s))
<1>1. r \in Seq(S) /\ Len(r) = Len(s) - n /\ Len(s) \in Nat /\ n \in Nat /\ n <= Len(s)
  OBVIOUS
<1>2. \A k \in 1..Len(r) : r[k] = s[n + k]
  OBVIOUS
<1> HIDE DEF r
<1>3. Distinct(r)
  BY <1>1, <1>2 DEF Distinct
<1>4. Elements(r) \subseteq Elements(s) \ {s[k] : k \in 1..n}
  BY <1>1, <1>2 DEF Elements, Distinct
<1>5. ASSUME NEW k \in 1..Len(s), k \notin 1..n
      PROVE  s[k] \in Elements(r)
  <2>1. k - n \in 1..Len(r) /\ s[k] = r[k - n]
    BY <1>1, <1>2, <1>5
  <2> QED
    BY <2>1 DEF Elements
<1>6. Elements(s) \ {s[k] : k \in 1..n} \subseteq Elements(r)
  BY <1>1, <1>5 DEF Elements
<1>7. {s[k] : k \in 1..n} \subseteq Elements(s)
  BY <1>1 DEF Elements
<1>8. n = Len(s) => Elements(r) = {}
  BY <1>1 DEF Elements
<1> QED
  BY <1>1, <1>3, <1>4, <1>6, <1>7, <1>8 DEF r

\* RemoveWaiter's RemoveAt(i).
LEMMA RemoveAtFacts ==
  ASSUME NEW S, NEW s \in Seq(S), Distinct(s), NEW p \in 1..Len(s)
  PROVE  LET r == RemoveAt(s, p)
         IN  r \in Seq(S) /\ Distinct(r) /\ Elements(r) = Elements(s) \ {s[p]}
<1> DEFINE u == SubSeq(s, 1, p - 1)
           v == SubSeq(s, p + 1, Len(s))
           r == RemoveAt(s, p)
<1>1. Len(s) \in Nat /\ p \in Nat /\ 1 <= p /\ p <= Len(s)
  OBVIOUS
<1>2. u \in Seq(S) /\ Len(u) = p - 1 /\ \A k \in 1..(p - 1) : u[k] = s[k]
  BY <1>1
<1>3. v \in Seq(S) /\ Len(v) = Len(s) - p /\ \A k \in 1..(Len(s) - p) : v[k] = s[p + k]
  BY <1>1
<1>4. r = u \o v
  BY DEF RemoveAt
<1> HIDE DEF u, v, r
<1>5. r \in Seq(S) /\ Len(r) = Len(s) - 1 /\ Len(s) \in Nat /\ p \in Nat
  BY <1>1, <1>2, <1>3, <1>4
<1>6. \A k \in 1..Len(r) : r[k] = IF k <= Len(u) THEN u[k] ELSE v[k - Len(u)]
  BY <1>2, <1>3, <1>4
<1>7. ASSUME NEW k \in 1..Len(r)
      PROVE  r[k] = IF k < p THEN s[k] ELSE s[k + 1]
  <2>1. CASE k < p
    BY <1>1, <1>2, <1>6, <2>1
  <2>2. CASE ~(k < p)
    <3>1. k - (p - 1) \in 1..(Len(s) - p) /\ p + (k - (p - 1)) = k + 1
      BY <1>1, <1>5, <2>2
    <3>2. v[k - (p - 1)] = s[k + 1]
      BY <1>3, <3>1
    <3> QED
      BY <1>1, <1>2, <1>6, <2>2, <3>2
  <2> QED
    BY <2>1, <2>2
<1>8. Distinct(r)
  BY <1>5, <1>7 DEF Distinct
<1>9. Elements(r) \subseteq Elements(s) \ {s[p]}
  BY <1>5, <1>7 DEF Elements, Distinct
<1>10. ASSUME NEW k \in 1..Len(s), k # p
      PROVE  s[k] \in Elements(r)
  <2>1. CASE k < p
    BY <1>5, <1>7, <2>1 DEF Elements
  <2>2. CASE k > p
    <3>1. k - 1 \in 1..Len(r) /\ r[k - 1] = s[k]
      BY <1>5, <1>7, <2>2
    <3> QED
      BY <3>1 DEF Elements
  <2> QED
    BY <1>10, <1>5, <2>1, <2>2
<1>11. Elements(s) \ {s[p]} \subseteq Elements(r)
  BY <1>10 DEF Elements
<1> QED
  BY <1>5, <1>8, <1>9, <1>11 DEF r

-----------------------------------------------------------------------------
(* The steps keep the invariant.                                           *)

\* What the type invariant says of the call of one agent.
LEMMA CallFields ==
  ASSUME TypeOK, NEW a \in Agents
  PROVE  /\ call[a] \in Calls
         /\ call[a].pc \in {"idle", "entering", "asleep", "awoken", "timedOut", "notifying"}
         /\ call[a].count \in 0..IntMax
         /\ NoCall \in Calls
<1>1. 0 \in 0..IntMax
  BY AtomicsAssumption DEF IntMax
<1> QED
  BY <1>1 DEF TypeOK, Calls, NoCall

\* The lists and events of a step that changes neither, and only the call of
\* agent a, are exact again if a is as listed as before.
LEMMA ExactFrame ==
  ASSUME WaitersExact, TypeOK, NEW a \in Agents, UNCHANGED <<waiters, event>>,
         call' \in [Agents -> Calls],
         \A b \in Agents \ {a} : call'[b] = call[b],
         \/ /\ call'[a].pc \in {"asleep", "timedOut"} /\ call[a].pc \in {"asleep", "timedOut"}
            /\ call'[a].list = call[a].list
         \/ /\ \/ call'[a].pc \notin {"asleep", "timedOut"}
               \/ event[a] # "reset"
            /\ \/ call[a].pc \notin {"asleep", "timedOut"}
               \/ event[a] # "reset"
  PROVE  WaitersExact'
<1>1. ListedOnce'
  BY DEF WaitersExact, ListedOnce
<1>2. \A l \in Lists : OnList(l)' = OnList(l)
  BY DEF OnList
<1>3. ListedWhileUnnotified'
  BY <1>2 DEF WaitersExact, ListedWhileUnnotified, Called
<1> QED
  BY <1>1, <1>3 DEF WaitersExact

\* The beginning of wait and of notify: a list is found or allocated.
LEMMA StartKeeps ==
  ASSUME IndInv, NEW a \in Agents, NEW i \in Indices, NEW l \in Lists, NEW c \in Calls,
         Called(a) = "idle", GetWaiterList(i, l),
         indexToWaiterList' = [indexToWaiterList EXCEPT ![i] = l],
         call' = [call EXCEPT ![a] = c],
         c.pc \in {"entering", "notifying"}, c.list = l, c.index = i,
         UNCHANGED <<cell, waiters, event, owed>>
  PROVE  IndInv'
<1> USE DEF IndInv
<1>1. TypeOK'
  BY DEF TypeOK
<1>2. call' \in [Agents -> Calls] /\ call'[a] = c /\ \A b \in Agents \ {a} : call'[b] = call[b]
  BY DEF TypeOK
<1>3. /\ indexToWaiterList'[i] = l /\ l # None
      /\ \A j \in Indices \ {i} : indexToWaiterList'[j] = indexToWaiterList[j]
  BY AtomicsAssumption DEF TypeOK
<1>4. \A j \in Indices \ {i} : indexToWaiterList[j] # l
  BY AtomicsAssumption DEF GetWaiterList, Unused, ListsDistinct, TypeOK
<1>5. ListsDistinct'
  BY <1>3, <1>4 DEF ListsDistinct
<1>6. \A j \in Indices : indexToWaiterList[j] # None => indexToWaiterList'[j] = indexToWaiterList[j]
  BY <1>3 DEF GetWaiterList
<1>7. RightList'
  BY <1>2, <1>3, <1>6, AtomicsAssumption DEF RightList, Called
<1>8. EventsFollow'
  BY <1>2 DEF EventsFollow, Called
<1>9. WaitersExact'
  BY <1>2, ExactFrame DEF Called
<1>10. NoLostWakeup'
  BY <1>2 DEF NoLostWakeup, Called
<1> QED
  BY <1>1, <1>5, <1>7, <1>8, <1>9, <1>10

\* The first stretch of EntryWait looks up the list and keeps the invariant.
LEMMA WaitStartKeeps ==
  ASSUME IndInv, NEW a \in Agents, NEW i \in Indices, NEW l \in Lists,
         NEW v \in Values, NEW t \in BOOLEAN, WaitStart(a, i, l, v, t)
  PROVE  IndInv'
<1> DEFINE c == [pc |-> "entering", list |-> l, index |-> i,
                 value |-> v, finite |-> t, count |-> 0]
<1>1. 0 \in 0..IntMax
  BY AtomicsAssumption DEF IntMax
<1>2. c \in Calls
  BY <1>1 DEF Calls
<1> QED
  BY <1>2, StartKeeps DEF WaitStart

\* So does the first stretch of EntryNotify; the count it computes is not
\* negative.
LEMMA NotifyStartKeeps ==
  ASSUME IndInv, NEW a \in Agents, NEW i \in Indices, NEW l \in Lists,
         NEW n \in Counts \cup {None}, NotifyStart(a, i, l, n)
  PROVE  IndInv'
<1> DEFINE c == [pc |-> "notifying", list |-> l, index |-> i,
                 value |-> None, finite |-> FALSE, count |-> NotifyCount(n)]
<1>1. c \in Calls
  BY NotifyCountType DEF Calls
<1> QED
  BY <1>1, StartKeeps DEF NotifyStart

\* A step that moves one call on, or ends it, without touching a list.
LEMMA CallKeeps ==
  ASSUME IndInv, NEW a \in Agents, NEW c \in Calls,
         call' = [call EXCEPT ![a] = c],
         UNCHANGED <<cell, indexToWaiterList, waiters, event, owed>>,
         \/ c = NoCall /\ Called(a) \notin {"asleep", "timedOut"}
         \/ c = NoCall /\ event[a] # "reset"
         \/ /\ Called(a) = "asleep" /\ c.list = call[a].list /\ c.index = call[a].index
            /\ \/ c.pc = "awoken" /\ event[a] = "set"
               \/ c.pc = "timedOut"
  PROVE  IndInv'
<1> USE DEF IndInv
<1>1. TypeOK'
  BY DEF TypeOK
<1>2. call' \in [Agents -> Calls] /\ call'[a] = c /\ \A b \in Agents \ {a} : call'[b] = call[b]
  BY DEF TypeOK
<1>3. ListsDistinct'
  BY DEF ListsDistinct
<1>4. RightList'
  BY <1>2 DEF RightList, Called, NoCall
<1>5. EventsFollow'
  BY <1>2 DEF EventsFollow, Called, NoCall
<1>6. WaitersExact'
  BY <1>2, ExactFrame DEF Called, NoCall
<1>7. NoLostWakeup'
  BY <1>2 DEF NoLostWakeup, Called, NoCall
<1> QED
  BY <1>1, <1>3, <1>4, <1>5, <1>6, <1>7

\* wait is suspended: the element holds the expected value at this moment, so
\* no store is owed to the agent.
LEMMA AddAndSuspendWaiterKeeps ==
  ASSUME IndInv, NEW a \in Agents, AddAndSuspendWaiter(a)
  PROVE  IndInv'
<1> USE DEF IndInv
<1>0. PICK l \in Lists : l = call[a].list
  BY CallFields DEF AddAndSuspendWaiter, RightList, Called
<1>1. Called(a) = "entering" /\ call[a] \in Calls
  BY CallFields DEF AddAndSuspendWaiter
<1>2. /\ call' \in [Agents -> Calls] /\ call'[a] = [call[a] EXCEPT !.pc = "asleep"]
      /\ \A b \in Agents \ {a} : call'[b] = call[b]
  <2>1. [call[a] EXCEPT !.pc = "asleep"] \in Calls
    BY <1>1 DEF Calls
  <2> QED
    BY <2>1 DEF AddAndSuspendWaiter, Goto, TypeOK
<1>3. call'[a].pc = "asleep" /\ call'[a].list = l /\ call'[a].index = call[a].index
      /\ call'[a].value = call[a].value
  BY <1>0, <1>1, <1>2 DEF Calls
<1>4. waiters[l] \in Seq(Agents) /\ Distinct(waiters[l]) /\ a \notin OnList(l)
  BY <1>1 DEF TypeOK, WaitersExact, ListedOnce, ListedWhileUnnotified, Distinct
<1>5. a \notin Elements(waiters[l])
  BY <1>4 DEF OnList, Elements
<1>6. /\ waiters' \in [Lists -> Seq(Agents)] /\ Distinct(waiters'[l])
      /\ Elements(waiters'[l]) = Elements(waiters[l]) \cup {a}
      /\ \A k \in Lists \ {l} : waiters'[k] = waiters[k]
  <2>1. LET r == Append(waiters[l], a)
        IN  r \in Seq(Agents) /\ Distinct(r) /\ Elements(r) = Elements(waiters[l]) \cup {a}
    BY <1>4, <1>5, AppendFacts
  <2>2. waiters' = [waiters EXCEPT ![l] = Append(waiters[l], a)]
    BY <1>0 DEF AddAndSuspendWaiter
  <2> QED
    BY <1>1, <2>1, <2>2 DEF TypeOK
<1>7. event' \in [Agents -> {"closed", "reset", "set"}] /\ event'[a] = "reset"
      /\ \A b \in Agents \ {a} : event'[b] = event[b]
  BY DEF AddAndSuspendWaiter, TypeOK
<1>8. UNCHANGED <<cell, indexToWaiterList, owed>> /\ cell[call[a].index] = call[a].value
  BY DEF AddAndSuspendWaiter, Matches
<1>9. TypeOK'
  BY <1>2, <1>6, <1>7, <1>8 DEF TypeOK
<1>10. ListsDistinct'
  BY <1>8 DEF ListsDistinct
<1>11. RightList'
  <2>1. call[a].index \in Indices /\ l = indexToWaiterList[call[a].index]
    BY <1>0, <1>1 DEF RightList
  <2>2. ASSUME NEW b \in Agents, b # a, call'[b].pc # "idle"
        PROVE  /\ call'[b].index \in Indices /\ call'[b].list \in Lists
               /\ call'[b].list = indexToWaiterList'[call'[b].index]
    BY <1>2, <1>8, <2>2 DEF RightList, Called
  <2> QED
    BY <1>3, <1>8, <2>1, <2>2 DEF RightList, Called
<1>12. EventsFollow'
  BY <1>2, <1>3, <1>7 DEF EventsFollow, Called
<1>13. ListedOnce'
  BY <1>6 DEF WaitersExact, ListedOnce, Distinct
<1>14. OnList(l)' = OnList(l) \cup {a} /\ \A k \in Lists \ {l} : OnList(k)' = OnList(k)
  BY <1>6 DEF OnList, Elements
<1>15. ListedWhileUnnotified'
  <2> SUFFICES ASSUME NEW b \in Agents, NEW k \in Lists
               PROVE  (b \in OnList(k) <=> /\ Called(b) \in {"asleep", "timedOut"}
                                           /\ event[b] = "reset" /\ call[b].list = k)'
    BY DEF ListedWhileUnnotified
  <2>1. b \in OnList(k) <=> /\ Called(b) \in {"asleep", "timedOut"}
                            /\ event[b] = "reset" /\ call[b].list = k
    BY DEF WaitersExact, ListedWhileUnnotified
  <2>2. CASE b = a
    BY <1>1, <1>3, <1>7, <1>14, <2>1, <2>2 DEF Called
  <2>3. CASE b # a
    BY <1>2, <1>7, <1>14, <2>1, <2>3 DEF Called
  <2> QED
    BY <2>2, <2>3
<1>16. NoLostWakeup'
  BY <1>2, <1>3, <1>7, <1>8 DEF NoLostWakeup, Called
<1> QED
  BY <1>9, <1>10, <1>11, <1>12, <1>13, <1>15, <1>16 DEF WaitersExact

\* wait has timed out and removes itself, if no notify has done so.
LEMMA WaitReturnsTimedOutKeeps ==
  ASSUME IndInv, NEW a \in Agents, WaitReturnsTimedOut(a)
  PROVE  IndInv'
<1> USE DEF IndInv
<1>0. PICK l \in Lists : l = call[a].list
  BY DEF WaitReturnsTimedOut, RightList, Called
<1>1. Called(a) = "timedOut"
  BY DEF WaitReturnsTimedOut
<1>2. /\ call' \in [Agents -> Calls] /\ call'[a] = NoCall /\ call'[a].pc = "idle"
      /\ \A b \in Agents \ {a} : call'[b] = call[b]
      /\ call' = [call EXCEPT ![a] = NoCall]
  BY CallFields DEF WaitReturnsTimedOut, Return, TypeOK, NoCall
<1>3. UNCHANGED <<cell, indexToWaiterList, owed>>
  BY DEF WaitReturnsTimedOut
<1>4. CASE a \notin OnList(l)
  <2>1. UNCHANGED <<waiters, event>>
    BY <1>0, <1>4 DEF WaitReturnsTimedOut, RemoveWaiter
  <2>2. event[a] # "reset"
    BY <1>0, <1>1, <1>4 DEF WaitersExact, ListedWhileUnnotified
  <2> QED
    BY <1>2, <1>3, <2>1, <2>2, CallFields, CallKeeps
<1>5. CASE a \in OnList(l)
  <2> DEFINE s == waiters[l]
             p == CHOOSE k \in 1..Len(s) : s[k] = a
  <2>1. p \in 1..Len(s) /\ s[p] = a
    BY <1>5 DEF OnList
  <2>2. s \in Seq(Agents) /\ Distinct(s)
    BY <1>1 DEF TypeOK, WaitersExact, ListedOnce, Distinct
  <2>3. waiters' = [waiters EXCEPT ![l] = RemoveAt(s, p)] /\ event' = [event EXCEPT ![a] = "closed"]
    BY <1>0, <1>5 DEF WaitReturnsTimedOut, RemoveWaiter
  <2> HIDE DEF p
  <2>4. LET r == RemoveAt(s, p)
        IN  r \in Seq(Agents) /\ Distinct(r) /\ Elements(r) = Elements(s) \ {a}
    BY <2>1, <2>2, RemoveAtFacts
  <2>5. /\ waiters' \in [Lists -> Seq(Agents)] /\ Distinct(waiters'[l])
        /\ Elements(waiters'[l]) = Elements(waiters[l]) \ {a}
        /\ \A k \in Lists \ {l} : waiters'[k] = waiters[k]
    BY <1>1, <2>3, <2>4 DEF TypeOK
  <2>6. event' \in [Agents -> {"closed", "reset", "set"}] /\ event'[a] = "closed"
        /\ \A b \in Agents \ {a} : event'[b] = event[b]
    BY <2>3 DEF TypeOK
  <2>7. TypeOK'
    BY <1>2, <1>3, <2>5, <2>6 DEF TypeOK
  <2>8. ListsDistinct'
    BY <1>3 DEF ListsDistinct
  <2>9. RightList'
    BY <1>2, <1>3 DEF RightList, Called
  <2>10. EventsFollow'
    BY <1>2, <2>6 DEF EventsFollow, Called
  <2>11. ListedOnce'
    BY <2>5 DEF WaitersExact, ListedOnce, Distinct
  <2>12. OnList(l)' = OnList(l) \ {a} /\ \A k \in Lists \ {l} : OnList(k)' = OnList(k)
    BY <2>5 DEF OnList, Elements
  <2>13. \A k \in Lists \ {l} : a \notin OnList(k)
    BY <1>0 DEF WaitersExact, ListedWhileUnnotified
  <2>14. ListedWhileUnnotified'
    BY <1>0, <1>1, <1>2, <2>6, <2>12, <2>13 DEF WaitersExact, ListedWhileUnnotified, Called
  <2>15. NoLostWakeup'
    BY <1>2, <1>3, <2>6 DEF NoLostWakeup, Called
  <2> QED
    BY <2>7, <2>8, <2>9, <2>10, <2>11, <2>14, <2>15 DEF WaitersExact
<1> QED
  BY <1>4, <1>5

\* notify: the agents it wakes are the ones it takes off the list; with room
\* for all of them, nobody is left asleep on the index.
LEMMA RemoveAndWakeWaitersKeeps ==
  ASSUME IndInv, NEW a \in Agents, RemoveAndWakeWaiters(a)
  PROVE  IndInv'
<1> USE DEF IndInv
<1>0. PICK l \in Lists : l = call[a].list
  BY DEF RemoveAndWakeWaiters, RightList, Called
<1> DEFINE s == waiters[l]
           n == Removed(l, call[a].count)
           W == {s[k] : k \in 1..n}
<1>1. Called(a) = "notifying" /\ call[a].index \in Indices
      /\ l = indexToWaiterList[call[a].index] /\ call[a].count \in 0..IntMax
  BY <1>0, CallFields DEF RemoveAndWakeWaiters, RightList
<1>2. s \in Seq(Agents) /\ Distinct(s)
  BY <1>1 DEF TypeOK, WaitersExact, ListedOnce, Distinct
<1>3. n \in 0..Len(s)
  BY <1>1, <1>2, AtomicsAssumption DEF Removed, IntMax
<1>4. /\ waiters' = [waiters EXCEPT ![l] = SubSeq(s, n + 1, Len(s))]
      /\ event' = [b \in Agents |-> IF b \in W THEN "set" ELSE event[b]]
      /\ owed' = IF n = Len(s) THEN owed \ {call[a].index} ELSE owed
      /\ call' = [call EXCEPT ![a] = NoCall]
      /\ UNCHANGED <<cell, indexToWaiterList>>
  BY <1>0 DEF RemoveAndWakeWaiters, SetEvent, Return
<1>5. LET r == SubSeq(s, n + 1, Len(s))
      IN  /\ r \in Seq(Agents) /\ Distinct(r)
          /\ Elements(r) = Elements(s) \ W
          /\ W \subseteq Elements(s)
          /\ n = Len(s) => Elements(r) = {}
  BY <1>2, <1>3, DropFacts
<1>6. Elements(s) = OnList(l)
  BY DEF Elements, OnList
<1>7. W \subseteq OnList(l) /\ (n = Len(s) => OnList(l) \subseteq W)
  BY <1>5, <1>6
<1> HIDE DEF W, n
<1>8. /\ waiters' \in [Lists -> Seq(Agents)] /\ Distinct(waiters'[l])
      /\ Elements(waiters'[l]) = OnList(l) \ W
      /\ \A k \in Lists \ {l} : waiters'[k] = waiters[k]
  BY <1>1, <1>4, <1>5, <1>6 DEF TypeOK
<1>9. /\ event' \in [Agents -> {"closed", "reset", "set"}]
      /\ \A b \in Agents : event'[b] = IF b \in W THEN "set" ELSE event[b]
  BY <1>4 DEF TypeOK
<1>10. /\ call' \in [Agents -> Calls] /\ call'[a].pc = "idle"
       /\ \A b \in Agents \ {a} : call'[b] = call[b]
  BY <1>4, CallFields DEF TypeOK, NoCall
<1>11. owed' \subseteq owed
  BY <1>4
<1>12. OnList(l)' = OnList(l) \ W /\ \A k \in Lists \ {l} : OnList(k)' = OnList(k)
  BY <1>8 DEF OnList, Elements
<1>13. TypeOK'
  BY <1>4, <1>8, <1>9, <1>10, <1>11 DEF TypeOK
<1> HIDE DEF s
<1>14. \A b \in Agents : b \in OnList(l) =>
          Called(b) \in {"asleep", "timedOut"} /\ event[b] = "reset" /\ call[b].list = l
  BY <1>1 DEF WaitersExact, ListedWhileUnnotified
<1>15. a \notin OnList(l)
  BY <1>1, <1>14
<1>16. ListsDistinct'
  BY <1>4 DEF ListsDistinct
<1>17. RightList'
  BY <1>4, <1>10 DEF RightList, Called
<1>18. EventsFollow'
  BY <1>9, <1>10 DEF EventsFollow, Called
<1>19. ListedOnce'
  BY <1>8 DEF WaitersExact, ListedOnce, Distinct
<1>20. ListedWhileUnnotified'
  <2> SUFFICES ASSUME NEW b \in Agents, NEW k \in Lists
               PROVE  (b \in OnList(k) <=> /\ Called(b) \in {"asleep", "timedOut"}
                                           /\ event[b] = "reset" /\ call[b].list = k)'
    BY DEF ListedWhileUnnotified
  <2>1. b \in OnList(k) <=> /\ Called(b) \in {"asleep", "timedOut"}
                            /\ event[b] = "reset" /\ call[b].list = k
    BY DEF WaitersExact, ListedWhileUnnotified
  <2>2. CASE b = a
    <3>1. b \notin OnList(k)
      BY <1>1, <2>1, <2>2
    <3>2. b \notin OnList(k)'
      BY <1>12, <3>1
    <3> QED
      BY <1>10, <2>2, <3>2 DEF Called
  <2>3. CASE b # a /\ k = l
    BY <1>7, <1>9, <1>10, <1>12, <2>1, <2>3 DEF Called
  <2>4. CASE b # a /\ k # l
    BY <1>7, <1>9, <1>10, <1>12, <1>14, <2>1, <2>4 DEF Called
  <2> QED
    BY <2>2, <2>3, <2>4
<1>21. NoLostWakeup'
  <2> SUFFICES ASSUME NEW b \in Agents,
                      (Called(b) = "asleep" /\ event[b] = "reset"
                       /\ ~(cell[call[b].index] = call[b].value))'
               PROVE  (call[b].index \in owed)'
    BY DEF NoLostWakeup
  <2>1. b # a /\ b \notin W /\ event[b] = "reset" /\ Called(b) = "asleep" /\ call'[b] = call[b]
    BY <1>9, <1>10 DEF Called
  <2>2. call[b].index \in owed
    BY <1>4, <2>1 DEF NoLostWakeup
  <2>3. CASE n = Len(s)
    <3>1. call[b].index # call[a].index
      <4>1. b \notin OnList(l)
        BY <1>7, <2>1, <2>3
      <4>2. call[b].list # l
        BY <1>1, <2>1, <4>1 DEF WaitersExact, ListedWhileUnnotified
      <4> QED
        BY <1>1, <2>1, <4>2 DEF RightList
    <3> QED
      BY <1>4, <2>1, <2>2, <3>1
  <2>4. CASE n # Len(s)
    BY <1>4, <2>1, <2>2, <2>4
  <2> QED
    BY <2>3, <2>4
<1> QED
  BY <1>13, <1>16, <1>17, <1>18, <1>19, <1>20, <1>21 DEF WaitersExact

\* A store keeps the invariant: the waiters it overtakes are owed a notify.
LEMMA StoreKeeps ==
  ASSUME IndInv, NEW a \in Agents, NEW i \in Indices, NEW v \in Values, Store(a, i, v)
  PROVE  IndInv'
<1> USE DEF IndInv
<1>1. /\ cell' = [cell EXCEPT ![i] = v] /\ owed' = owed \cup {i}
      /\ UNCHANGED <<indexToWaiterList, waiters, call, event>>
  BY DEF Store
<1>2. TypeOK'
  BY <1>1 DEF TypeOK
<1>3. ListsDistinct' /\ RightList' /\ EventsFollow'
  BY <1>1 DEF ListsDistinct, RightList, EventsFollow, Called
<1>4. WaitersExact'
  BY <1>1 DEF WaitersExact, ListedOnce, ListedWhileUnnotified, OnList, Called
<1>5. NoLostWakeup'
  BY <1>1 DEF NoLostWakeup, Called, RightList, TypeOK
<1> QED
  BY <1>2, <1>3, <1>4, <1>5

-----------------------------------------------------------------------------
(* The theorems.                                                           *)

\* A SharedArrayBuffer that nobody waits on satisfies the invariant.
LEMMA InitEstablishes == Init => IndInv
<1> SUFFICES ASSUME Init PROVE IndInv
  OBVIOUS
<1>1. 0 \in 0..IntMax
  BY AtomicsAssumption DEF IntMax
<1>2. TypeOK
  BY <1>1 DEF Init, TypeOK, Calls, NoCall
<1>3. \A l \in Lists : waiters[l] = <<>> /\ Len(waiters[l]) = 0 /\ OnList(l) = {}
  BY DEF Init, OnList
<1>4. \A a \in Agents : call[a].pc = "idle"
  BY DEF Init, NoCall
<1>5. ListsDistinct /\ RightList /\ EventsFollow /\ NoLostWakeup
  BY <1>4 DEF Init, ListsDistinct, RightList, EventsFollow, NoLostWakeup, Called
<1>6. WaitersExact
  BY <1>3, <1>4 DEF WaitersExact, ListedOnce, ListedWhileUnnotified, Called
<1> QED
  BY <1>2, <1>5, <1>6 DEF IndInv

\* Every step of wait, of notify and of a store keeps it.
LEMMA NextKeeps == IndInv /\ [Next]_vars => IndInv'
<1> SUFFICES ASSUME IndInv, [Next]_vars PROVE IndInv'
  OBVIOUS
<1>1. CASE UNCHANGED vars
  BY <1>1 DEF vars, IndInv, TypeOK, ListsDistinct, RightList, EventsFollow, WaitersExact,
              ListedOnce, ListedWhileUnnotified, NoLostWakeup, OnList, Called
<1>2. ASSUME NEW a \in Agents, Continue(a) PROVE IndInv'
  <2>1. TypeOK /\ call[a] \in Calls /\ NoCall \in Calls
    BY CallFields DEF IndInv
  <2>2. CASE WaitNotEqual(a)
    BY <2>1, <2>2, CallKeeps DEF WaitNotEqual, Return
  <2>3. CASE AddAndSuspendWaiter(a)
    BY <2>3, AddAndSuspendWaiterKeeps
  <2>4. CASE WaitWakes(a)
    <3> DEFINE c == [call[a] EXCEPT !.pc = "awoken"]
    <3>1. /\ c \in Calls /\ c.pc = "awoken" /\ c.list = call[a].list
          /\ c.index = call[a].index
      BY <2>1 DEF Calls
    <3>2. call' = [call EXCEPT ![a] = c] /\ Called(a) = "asleep" /\ event[a] = "set"
          /\ UNCHANGED <<cell, indexToWaiterList, waiters, event, owed>>
      BY <2>4 DEF WaitWakes, Goto
    <3> HIDE DEF c
    <3> QED
      BY <3>1, <3>2, CallKeeps
  <2>5. CASE WaitTimesOut(a)
    <3> DEFINE c == [call[a] EXCEPT !.pc = "timedOut"]
    <3>1. /\ c \in Calls /\ c.pc = "timedOut" /\ c.list = call[a].list
          /\ c.index = call[a].index
      BY <2>1 DEF Calls
    <3>2. call' = [call EXCEPT ![a] = c] /\ Called(a) = "asleep"
          /\ UNCHANGED <<cell, indexToWaiterList, waiters, event, owed>>
      BY <2>5 DEF WaitTimesOut, Goto
    <3> HIDE DEF c
    <3> QED
      BY <3>1, <3>2, CallKeeps
  <2>6. CASE WaitReturnsOk(a)
    BY <2>1, <2>6, CallKeeps DEF WaitReturnsOk, Return
  <2>7. CASE WaitReturnsTimedOut(a)
    BY <2>7, WaitReturnsTimedOutKeeps
  <2>8. CASE RemoveAndWakeWaiters(a)
    BY <2>8, RemoveAndWakeWaitersKeeps
  <2> QED
    BY <1>2, <2>2, <2>3, <2>4, <2>5, <2>6, <2>7, <2>8 DEF Continue
<1> QED
  BY <1>1, <1>2, WaitStartKeeps, NotifyStartKeeps, StoreKeeps DEF Next

\* The invariant holds in every reachable state.
THEOREM IndInvAlways == Spec => []IndInv
  BY InitEstablishes, NextKeeps, PTL DEF Spec

\* Every variable keeps its type, and the count that notify hands to
\* RemoveAndWakeWaiters is never negative.
THEOREM TypeCorrect == Spec => []TypeOK
<1>1. IndInv => TypeOK
  BY DEF IndInv
<1> QED
  BY <1>1, IndInvAlways, PTL

\* The waiter lists hold exactly the unnotified waiters, each once, for any
\* number of agents and indices.
THEOREM WaitersAreExact == Spec => []WaitersExact
<1>1. IndInv => WaitersExact
  BY DEF IndInv
<1> QED
  BY <1>1, IndInvAlways, PTL

\* A store followed by a notify of all waiters leaves nobody asleep who
\* expects the old value, however wait, store and notify interleave.
THEOREM NoWakeupIsLost == Spec => []NoLostWakeup
<1>1. IndInv => NoLostWakeup
  BY DEF IndInv
<1> QED
  BY <1>1, IndInvAlways, PTL
=============================================================================

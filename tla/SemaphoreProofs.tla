--------------------------- MODULE SemaphoreProofs ---------------------------
(***************************************************************************)
(* Semaphore for every finite set of threads and every limit: the counter  *)
(* counts the Tickets, no wakeup is lost, and the code implements the gate *)
(* of SemaphoreGate.                                                       *)
(***************************************************************************)
EXTENDS Semaphore, FiniteSetTheorems, TLAPS

\* The inductive invariant.  TicketsCounted alone is not inductive: a Ticket
\* could be counted by a thread that does not own the mutex.
IInv ==
    /\ TypeOK
    /\ Guarded
    /\ RoomKept
    /\ TicketsCounted
    /\ NoLostWakeup

\* Every set of threads is finite, so its cardinality is a natural number.
LEMMA ThreadsFinite ==
    ASSUME NEW S, S \subseteq Thread
    PROVE  IsFiniteSet(S) /\ Cardinality(S) \in Nat
BY FS_Subset, FS_CardinalityType, SemaphoreAssumption

\* One thread more, one more in the cardinality.
LEMMA CountAdd ==
    ASSUME NEW S, S \subseteq Thread, NEW t \in Thread, t \notin S
    PROVE  Cardinality(S \cup {t}) = Cardinality(S) + 1
BY FS_AddElement, ThreadsFinite

\* One thread less, one less in the cardinality.
LEMMA CountRemove ==
    ASSUME NEW S, S \subseteq Thread, NEW t \in S
    PROVE  Cardinality(S \ {t}) = Cardinality(S) - 1
BY FS_RemoveElement, ThreadsFinite

\* A larger set of threads does not have fewer members.
LEMMA CountSubset ==
    ASSUME NEW S, NEW T, S \subseteq T, T \subseteq Thread
    PROVE  Cardinality(S) <= Cardinality(T)
BY FS_Subset, ThreadsFinite

\* The initial state satisfies the inductive invariant.
LEMMA InitIInv == Init => IInv
<1>1. ASSUME Init PROVE IInv
  <2>1. Tickets = {} /\ Asleep = {} /\ At("admit") = {}
    BY <1>1 DEF Init, Tickets, Asleep, At
  <2>2. Cardinality({}) = 0
    BY FS_EmptySet
  <2>3. TypeOK
    BY <1>1 DEF Init, TypeOK, Location
  <2>4. Guarded
    BY <1>1, SemaphoreAssumption DEF Init, Guarded
  <2> QED
    BY <1>1, <2>1, <2>2, <2>3, <2>4
    DEF IInv, Init, RoomKept, TicketsCounted, NoLostWakeup
<1> QED BY <1>1

\* The type invariant and the mutex, which every action keeps by itself.
LEMMA StepTypeGuarded ==
    ASSUME TypeOK, Guarded, TicketsCounted, [Next]_vars
    PROVE  TypeOK' /\ Guarded'
<1> USE SemaphoreAssumption DEF TypeOK, Location, Guarded, Goto, Lock, Unlock
<1>1. ASSUME NEW t \in Thread, EnterLock(t) PROVE TypeOK' /\ Guarded'
  BY <1>1 DEF EnterLock
<1>2. ASSUME NEW t \in Thread, EnterWait(t) PROVE TypeOK' /\ Guarded'
  BY <1>2 DEF EnterWait
<1>3. ASSUME NEW t \in Thread, EnterAdmit(t) PROVE TypeOK' /\ Guarded'
  BY <1>3 DEF EnterAdmit
<1>4. ASSUME NEW t \in Thread, WaitReturn(t) PROVE TypeOK' /\ Guarded'
  BY <1>4 DEF WaitReturn
<1>5. ASSUME NEW t \in Thread, EnterCount(t) PROVE TypeOK' /\ Guarded'
  BY <1>5 DEF EnterCount
<1>6. ASSUME NEW t \in Thread, LeaveLock(t) PROVE TypeOK' /\ Guarded'
  BY <1>6 DEF LeaveLock
<1>7. ASSUME NEW t \in Thread, LeaveNotify(t) PROVE TypeOK' /\ Guarded'
  <2>1. t \in Tickets /\ Tickets \subseteq Thread
    BY <1>7 DEF LeaveNotify, Tickets, At
  <2>2. Cardinality(Tickets) = Cardinality(Tickets \ {t}) + 1
    BY <2>1, CountRemove, ThreadsFinite
  <2>3. Cardinality(Tickets \ {t}) \in Nat
    BY <2>1, ThreadsFinite
  <2>4. traffic' \in Nat
    BY <1>7, <2>2, <2>3 DEF LeaveNotify, TicketsCounted
  <2>5. CASE Goto(t, "out")
    BY <1>7, <2>4, <2>5 DEF LeaveNotify
  <2>6. CASE \E w \in Asleep : pc' = [pc EXCEPT ![t] = "out", ![w] = "relock"]
    BY <1>7, <2>4, <2>6 DEF LeaveNotify, Asleep, At
  <2> QED BY <1>7, <2>5, <2>6 DEF LeaveNotify
<1>8. ASSUME NEW t \in Thread, SpuriousWake(t) PROVE TypeOK' /\ Guarded'
  BY <1>8 DEF SpuriousWake
<1>9. CASE UNCHANGED vars
  BY <1>9 DEF vars
<1> QED
  BY <1>1, <1>2, <1>3, <1>4, <1>5, <1>6, <1>7, <1>8, <1>9 DEF Next

\* What each step does to the sets that the properties speak of.
LEMMA EnterLockPlaces ==
    ASSUME TypeOK, NEW t \in Thread, EnterLock(t)
    PROVE  UNCHANGED <<Tickets, Asleep, Woken, Entering, At("admit")>>
BY DEF TypeOK, EnterLock, Goto, Tickets, Asleep, Woken, Entering, At

\* A thread that finds no room joins the sleepers and holds no Ticket.
LEMMA EnterWaitPlaces ==
    ASSUME TypeOK, NEW t \in Thread, EnterWait(t)
    PROVE  /\ UNCHANGED <<Tickets, Woken, Entering, At("admit")>>
           /\ Asleep' = Asleep \cup {t}
           /\ t \notin Tickets \cup Asleep \cup Entering
BY DEF TypeOK, EnterWait, Goto, Tickets, Asleep, Woken, Entering, At

\* A thread that finds room is entering, and holds no Ticket yet.
LEMMA EnterAdmitPlaces ==
    ASSUME TypeOK, NEW t \in Thread, EnterAdmit(t)
    PROVE  /\ UNCHANGED <<Tickets, Asleep, Woken>>
           /\ Entering' = Entering \cup {t}
           /\ t \notin Tickets \cup Asleep \cup Woken
BY DEF TypeOK, EnterAdmit, Goto, Tickets, Asleep, Woken, Entering, At

\* Returning from wait() takes the mutex back and moves no thread between the sets.
LEMMA WaitReturnPlaces ==
    ASSUME TypeOK, NEW t \in Thread, WaitReturn(t)
    PROVE  UNCHANGED <<Tickets, Asleep, Woken, Entering, At("admit")>>
BY DEF TypeOK, WaitReturn, Goto, Tickets, Asleep, Woken, Entering, At

\* ++__traffic gives the entering thread its Ticket.
LEMMA EnterCountPlaces ==
    ASSUME TypeOK, NEW t \in Thread, EnterCount(t)
    PROVE  /\ UNCHANGED Asleep
           /\ Tickets' = Tickets \cup {t}
           /\ Woken' = Woken \ {t}
           /\ Entering' = Entering \ {t}
           /\ At("admit")' = At("admit") \ {t}
           /\ t \in Entering /\ t \notin Tickets \cup Asleep
           /\ pc[t] = "admit" <=> t \notin Woken
BY DEF TypeOK, EnterCount, Goto, Tickets, Asleep, Woken, Entering, At

\* __leave's lock moves no thread between the sets.
LEMMA LeaveLockPlaces ==
    ASSUME TypeOK, NEW t \in Thread, LeaveLock(t)
    PROVE  UNCHANGED <<Tickets, Asleep, Woken, Entering, At("admit")>>
BY DEF TypeOK, LeaveLock, Goto, Tickets, Asleep, Woken, Entering, At

\* __leave gives one Ticket back and wakes one sleeper, if there is one.
LEMMA LeaveNotifyPlaces ==
    ASSUME TypeOK, NEW t \in Thread, LeaveNotify(t)
    PROVE  /\ t \in Tickets
           /\ Tickets' = Tickets \ {t}
           /\ UNCHANGED At("admit")
           /\ \/ Asleep = {} /\ UNCHANGED <<Asleep, Woken, Entering>>
              \/ \E w \in Asleep :
                    /\ w \notin Entering
                    /\ Asleep' = Asleep \ {w}
                    /\ Woken' = Woken \cup {w}
                    /\ Entering' = Entering \cup {w}
<1> USE DEF TypeOK, Goto, Tickets, Asleep, Woken, Entering, At
<1>1. t \in Tickets
  BY DEF LeaveNotify
<1>2. CASE Asleep = {} /\ Goto(t, "out")
  BY <1>1, <1>2 DEF LeaveNotify
<1>3. ASSUME NEW w \in Asleep, pc' = [pc EXCEPT ![t] = "out", ![w] = "relock"]
      PROVE  /\ Tickets' = Tickets \ {t}
             /\ UNCHANGED At("admit")
             /\ w \notin Entering
             /\ Asleep' = Asleep \ {w}
             /\ Woken' = Woken \cup {w}
             /\ Entering' = Entering \cup {w}
  BY <1>1, <1>3 DEF LeaveNotify
<1> QED BY <1>1, <1>2, <1>3 DEF LeaveNotify

\* A spurious wake-up is a sleeper woken without a Ticket given back.
LEMMA SpuriousWakePlaces ==
    ASSUME TypeOK, NEW t \in Thread, SpuriousWake(t)
    PROVE  /\ UNCHANGED <<Tickets, At("admit")>>
           /\ Asleep' = Asleep \ {t}
           /\ Woken' = Woken \cup {t}
           /\ Entering' = Entering \cup {t}
           /\ t \in Asleep /\ t \notin Entering
BY DEF TypeOK, SpuriousWake, Goto, Tickets, Asleep, Woken, Entering, At

\* The room seen, the count and the promised wakeup, kept by every step.
LEMMA StepCounts ==
    ASSUME IInv, [Next]_vars
    PROVE  RoomKept' /\ TicketsCounted' /\ NoLostWakeup'
<1> DEFINE Goal == RoomKept' /\ TicketsCounted' /\ NoLostWakeup'
<1>0. /\ TypeOK /\ traffic \in Nat /\ Concurrency \in Nat
      /\ Tickets \subseteq Thread /\ Entering \subseteq Thread
      /\ Asleep \subseteq Thread
      /\ traffic = Cardinality(Tickets)
      /\ Cardinality(Entering) \in Nat
  BY ThreadsFinite, SemaphoreAssumption
  DEF IInv, TypeOK, TicketsCounted, Tickets, Entering, Woken, Asleep, At
<1> HIDE DEF Goal
<1>same. ASSUME UNCHANGED <<traffic, Tickets, Asleep, Entering, At("admit")>>
         PROVE  Goal
  BY <1>same DEF Goal, IInv, RoomKept, TicketsCounted, NoLostWakeup
<1>1. ASSUME NEW t \in Thread, EnterLock(t) PROVE Goal
  BY <1>0, <1>1, <1>same, EnterLockPlaces DEF EnterLock
<1>2. ASSUME NEW t \in Thread, EnterWait(t) PROVE Goal
  <2>1. traffic' = traffic /\ Concurrency <= traffic
    BY <1>2 DEF EnterWait
  <2>2. UNCHANGED <<Tickets, Entering, At("admit")>>
    BY <1>0, <1>2, EnterWaitPlaces
  <2> QED
    BY <1>0, <2>1, <2>2
    DEF Goal, IInv, RoomKept, TicketsCounted, NoLostWakeup
<1>3. ASSUME NEW t \in Thread, EnterAdmit(t) PROVE Goal
  <2>1. traffic' = traffic /\ traffic < Concurrency
    BY <1>0, <1>3 DEF EnterAdmit
  <2>2. UNCHANGED <<Tickets, Asleep>> /\ Entering' = Entering \cup {t}
    BY <1>0, <1>3, EnterAdmitPlaces
  <2>3. /\ Cardinality(Entering') \in Nat
        /\ Cardinality(Entering) <= Cardinality(Entering')
    BY <1>0, <2>2, CountSubset, ThreadsFinite
  <2> QED
    BY <1>0, <2>1, <2>2, <2>3
    DEF Goal, IInv, RoomKept, TicketsCounted, NoLostWakeup
<1>4. ASSUME NEW t \in Thread, WaitReturn(t) PROVE Goal
  BY <1>0, <1>4, <1>same, WaitReturnPlaces DEF WaitReturn
<1>5. ASSUME NEW t \in Thread, EnterCount(t) PROVE Goal
  <2>1. /\ Asleep' = Asleep /\ Tickets' = Tickets \cup {t}
        /\ Entering' = Entering \ {t}
        /\ At("admit")' = At("admit") \ {t}
        /\ t \in Entering /\ t \notin Tickets
    BY <1>0, <1>5, EnterCountPlaces
  <2>2. traffic' = traffic + 1 /\ owner = t
    BY <1>5 DEF EnterCount, Unlock
  <2>3. Cardinality(Tickets') = Cardinality(Tickets) + 1
    BY <1>0, <2>1, CountAdd
  <2>4. Cardinality(Entering') = Cardinality(Entering) - 1
    BY <1>0, <2>1, CountRemove
  <2>5. At("admit")' = {}
    \* Every thread there owns the mutex, so t is the only one.
    BY <2>1, <2>2 DEF IInv, Guarded, At
  <2> QED
    BY <1>0, <2>1, <2>2, <2>3, <2>4, <2>5
    DEF Goal, IInv, RoomKept, TicketsCounted, NoLostWakeup
<1>6. ASSUME NEW t \in Thread, LeaveLock(t) PROVE Goal
  BY <1>0, <1>6, <1>same, LeaveLockPlaces DEF LeaveLock
<1>7. ASSUME NEW t \in Thread, LeaveNotify(t) PROVE Goal
  <2>1. t \in Tickets /\ Tickets' = Tickets \ {t} /\ UNCHANGED At("admit")
    BY <1>0, <1>7, LeaveNotifyPlaces
  <2>2. traffic' = traffic - 1
    BY <1>7 DEF LeaveNotify
  <2>3. TicketsCounted' /\ RoomKept'
    BY <1>0, <2>1, <2>2, CountRemove DEF IInv, RoomKept, TicketsCounted
  <2>4. CASE Asleep' = {}
    BY <2>3, <2>4 DEF Goal, NoLostWakeup
  <2>5. ASSUME NEW w \in Asleep, w \notin Entering,
               Entering' = Entering \cup {w}
        PROVE  NoLostWakeup'
    <3>1. Cardinality(Entering') = Cardinality(Entering) + 1
      BY <1>0, <2>5, CountAdd
    <3>2. traffic + Cardinality(Entering) >= Concurrency
      BY <2>5 DEF IInv, NoLostWakeup
    <3> QED BY <1>0, <2>2, <3>1, <3>2 DEF NoLostWakeup
  <2> QED BY <1>0, <1>7, <2>3, <2>4, <2>5, LeaveNotifyPlaces DEF Goal
<1>8. ASSUME NEW t \in Thread, SpuriousWake(t) PROVE Goal
  <2>1. /\ UNCHANGED <<traffic, Tickets, At("admit")>>
        /\ Entering' = Entering \cup {t} /\ t \in Asleep
    BY <1>0, <1>8, SpuriousWakePlaces DEF SpuriousWake
  <2>2. /\ Cardinality(Entering') \in Nat
        /\ Cardinality(Entering) <= Cardinality(Entering')
    BY <1>0, <2>1, CountSubset, ThreadsFinite
  <2> QED
    BY <1>0, <2>1, <2>2 DEF Goal, IInv, RoomKept, TicketsCounted, NoLostWakeup
<1>9. ASSUME UNCHANGED vars PROVE Goal
  BY <1>9, <1>same DEF vars, Tickets, Asleep, Entering, Woken, At
<1> QED
  BY <1>1, <1>2, <1>3, <1>4, <1>5, <1>6, <1>7, <1>8, <1>9 DEF Next, Goal

\* The inductive invariant holds in every reachable state.
THEOREM Invariance == Spec => []IInv
<1>1. IInv /\ [Next]_vars => IInv'
  BY StepTypeGuarded, StepCounts DEF IInv
<1> QED BY <1>1, InitIInv, PTL DEF Spec

\* The counter and the program counters stay in their types; __traffic, which
\* is unsigned, is never decremented below zero.
THEOREM TypeCorrect == Spec => []TypeOK
BY Invariance, PTL DEF IInv

\* __traffic is the number of live Tickets.
THEOREM CountCorrect == Spec => []TicketsCounted
BY Invariance, PTL DEF IInv

\* A thread that found room still has it when it counts itself.
THEOREM RoomIsKept == Spec => []RoomKept
BY Invariance, PTL DEF IInv

\* __leave never forgets a thread that sleeps in wait().
THEOREM WakeupsKept == Spec => []NoLostWakeup
BY Invariance, PTL DEF IInv

\* The gate counts with the same Cardinality.
LEMMA SameCardinality == ASSUME NEW S PROVE Gate!Cardinality(S) = Cardinality(S)
BY DEF Gate!Cardinality, Cardinality

\* A thread that is neither asleep, nor woken, nor holds a Ticket, is outside.
LEMMA OutsideByPlace ==
    ASSUME NEW t \in Thread, t \notin Tickets \cup Asleep \cup Woken
    PROVE  t \in Gate!Outside
BY DEF Gate!Outside

\* Each step of the code is a step of the gate or leaves it alone.
LEMMA StepRefines ==
    ASSUME IInv, [Next]_vars
    PROVE  [Gate!GateNext]_Gate!gateVars
<1>0. TypeOK /\ Cardinality(Tickets) = traffic
  BY DEF IInv, TicketsCounted
<1>1. ASSUME NEW t \in Thread, EnterLock(t) \/ LeaveLock(t) \/ WaitReturn(t)
      PROVE  UNCHANGED Gate!gateVars
  BY <1>0, <1>1, EnterLockPlaces, LeaveLockPlaces, WaitReturnPlaces
  DEF Gate!gateVars
<1>2. ASSUME NEW t \in Thread, EnterWait(t) PROVE Gate!FallAsleep(t)
  <2>1. t \in Gate!Outside
    BY <1>0, <1>2, EnterWaitPlaces, OutsideByPlace DEF Entering
  <2>2. traffic >= Concurrency
    BY <1>0, <1>2, SemaphoreAssumption DEF EnterWait, TypeOK
  <2> QED
    BY <1>0, <1>2, <2>1, <2>2, EnterWaitPlaces, SameCardinality
    DEF Gate!FallAsleep
<1>3. ASSUME NEW t \in Thread, EnterAdmit(t) PROVE UNCHANGED Gate!gateVars
  BY <1>0, <1>3, EnterAdmitPlaces DEF Gate!gateVars
<1>4. ASSUME NEW t \in Thread, EnterCount(t)
      PROVE  Gate!GoIn(t) \/ Gate!GoInCalled(t)
  <2>1. CASE t \in Woken
    BY <1>0, <1>4, <2>1, EnterCountPlaces DEF Gate!GoInCalled
  <2>2. CASE t \notin Woken
    <3>1. t \in At("admit")
      BY <1>0, <1>4, <2>2, EnterCountPlaces DEF Entering
    <3>2. Cardinality(Tickets) < Concurrency
      BY <1>0, <3>1 DEF IInv, RoomKept
    <3>3. t \in Gate!Outside
      BY <1>0, <1>4, <2>2, EnterCountPlaces, OutsideByPlace
    <3>4. Woken' = Woken
      BY <1>0, <1>4, <2>2, EnterCountPlaces
    <3> QED
      BY <1>0, <1>4, <3>2, <3>3, <3>4, EnterCountPlaces, SameCardinality
      DEF Gate!GoIn
  <2> QED BY <2>1, <2>2
<1>5. ASSUME NEW t \in Thread, LeaveNotify(t) PROVE Gate!GoOut(t)
  BY <1>0, <1>5, LeaveNotifyPlaces DEF Gate!GoOut
<1>6. ASSUME NEW t \in Thread, SpuriousWake(t) PROVE Gate!WakeUncalled(t)
  BY <1>0, <1>6, SpuriousWakePlaces DEF Gate!WakeUncalled
<1>7. ASSUME UNCHANGED vars PROVE UNCHANGED Gate!gateVars
  BY <1>7 DEF vars, Gate!gateVars, Tickets, Asleep, Woken, At
<1> QED
  BY <1>1, <1>2, <1>3, <1>4, <1>5, <1>6, <1>7 DEF Next, Gate!GateNext

\* The semaphore implements the gate: whatever the interleaving, a thread from
\* outside passes only when there is room, and a leaving thread calls a sleeper.
THEOREM GateImplemented == Spec => ImplementsGate
<1>1. Init => Gate!GateInit
  BY DEF Init, Gate!GateInit, Tickets, Asleep, Woken, At
<1> QED BY <1>1, Invariance, StepRefines, PTL DEF Spec, ImplementsGate, Gate!GateSpec
==============================================================================

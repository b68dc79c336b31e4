------------------------------ MODULE Semaphore ------------------------------
(***************************************************************************)
(* ashe::Semaphore (src/Semaphore.cpp, src/libashe/Semaphore.hpp): a       *)
(* counting semaphore made of a std::mutex, a std::condition_variable and  *)
(* the counter __traffic.  A thread enters by constructing a Ticket and    *)
(* leaves by destroying it.                                                *)
(*                                                                         *)
(* One action per step that another thread can observe: taking the mutex,  *)
(* deciding under it, going to sleep (which releases it), waking up, taking*)
(* it again, counting and releasing it.                                    *)
(***************************************************************************)
EXTENDS Integers, FiniteSets

CONSTANTS Thread,        \* the threads that use one semaphore
          Concurrency,   \* __concurrency
          NoThread,      \* the owner of a free mutex
          Spurious       \* whether the condition variable wakes spuriously

\* The constructor throws SemaphoreException for a concurrency of zero.
ASSUME SemaphoreAssumption ==
    /\ IsFiniteSet(Thread)
    /\ NoThread \notin Thread
    /\ Concurrency \in Nat \ {0}
    /\ Spurious \in BOOLEAN

VARIABLES pc,        \* where each thread is, see Location
          owner,     \* who holds __mtx
          traffic    \* __traffic

vars == <<pc, owner, traffic>>

Location ==
    { "out",       \* holds no Ticket
      "check",     \* __enter, holds the mutex, before the comparison
      "asleep",    \* inside __cv.wait, the mutex released
      "relock",    \* woken, but wait() has not got the mutex back
      "resume",    \* wait() returned, holds the mutex, before += 1
      "admit",     \* the comparison found room, before += 1
      "in",        \* holds a Ticket
      "sub" }      \* __leave, holds the mutex, before -= 1

At(l) == {t \in Thread : pc[t] = l}

Asleep == At("asleep")

Tickets == At("in") \cup At("sub")

Woken == At("relock") \cup At("resume")

Goto(t, l) == pc' = [pc EXCEPT ![t] = l]

Init ==
    /\ pc = [t \in Thread |-> "out"]
    /\ owner = NoThread
    /\ traffic = 0

Lock(t) == owner = NoThread /\ owner' = t

Unlock(t) == owner = t /\ owner' = NoThread

\* __enter: std::unique_lock on __mtx.
EnterLock(t) ==
    /\ pc[t] = "out"
    /\ Lock(t)
    /\ Goto(t, "check")
    /\ UNCHANGED traffic

\* __enter: the limit is reached, __cv.wait releases the mutex and sleeps.
EnterWait(t) ==
    /\ pc[t] = "check"
    /\ Concurrency <= traffic
    /\ Unlock(t)
    /\ Goto(t, "asleep")
    /\ UNCHANGED traffic

\* Mutant of EnterAdmit: the comparison of __enter off by one.
EnterAdmitOneMore(t) ==
    /\ pc[t] = "check"
    /\ ~ (Concurrency < traffic)
    /\ Goto(t, "admit")
    /\ UNCHANGED <<owner, traffic>>

\* __enter: there is room.
EnterAdmit(t) ==
    /\ pc[t] = "check"
    /\ ~ (Concurrency <= traffic)
    /\ Goto(t, "admit")
    /\ UNCHANGED <<owner, traffic>>

\* __cv.wait: the woken thread gets the mutex back and wait() returns.  The
\* code tests with "if": the comparison is not made again.
WaitReturn(t) ==
    /\ pc[t] = "relock"
    /\ Lock(t)
    /\ Goto(t, "resume")
    /\ UNCHANGED traffic

\* __enter: __traffic += 1, and the end of the scope unlocks.
EnterCount(t) ==
    /\ pc[t] \in {"admit", "resume"}
    /\ traffic' = traffic + 1
    /\ Unlock(t)
    /\ Goto(t, "in")

\* __leave: std::unique_lock on __mtx.
LeaveLock(t) ==
    /\ pc[t] = "in"
    /\ Lock(t)
    /\ Goto(t, "sub")
    /\ UNCHANGED traffic

\* Mutant of LeaveNotify: notify_one only when the semaphore was just full.
LeaveNotifyWhenFull(t) ==
    /\ pc[t] = "sub"
    /\ traffic' = traffic - 1
    /\ Unlock(t)
    /\ \/ /\ Asleep = {} \/ traffic # Concurrency
          /\ Goto(t, "out")
       \/ \E w \in Asleep :
            /\ traffic = Concurrency
            /\ pc' = [pc EXCEPT ![t] = "out", ![w] = "relock"]

\* Mutant of LeaveNotify: no notify_one.
LeaveSilently(t) ==
    /\ pc[t] = "sub"
    /\ traffic' = traffic - 1
    /\ Unlock(t)
    /\ Goto(t, "out")

\* Mutant of LeaveNotify: the counter is left to the thread that is woken.
LeaveHandOver(t) ==
    /\ pc[t] = "sub"
    /\ traffic' = traffic - (IF Asleep = {} THEN 1 ELSE 0)
    /\ Unlock(t)
    /\ \/ /\ Asleep = {}
          /\ Goto(t, "out")
       \/ \E w \in Asleep : pc' = [pc EXCEPT ![t] = "out", ![w] = "relock"]

\* __leave: __traffic -= 1, notify_one, and the end of the scope unlocks.
LeaveNotify(t) ==
    /\ pc[t] = "sub"
    /\ traffic' = traffic - 1
    /\ Unlock(t)
    /\ \/ /\ Asleep = {}
          /\ Goto(t, "out")
       \/ \E w \in Asleep : pc' = [pc EXCEPT ![t] = "out", ![w] = "relock"]

\* The condition variable wakes a thread without a notification.
SpuriousWake(t) ==
    /\ Spurious
    /\ pc[t] = "asleep"
    /\ Goto(t, "relock")
    /\ UNCHANGED <<owner, traffic>>

Next ==
    \E t \in Thread :
        \/ EnterLock(t)
        \/ EnterWait(t)
        \/ EnterAdmit(t)
        \/ WaitReturn(t)
        \/ EnterCount(t)
        \/ LeaveLock(t)
        \/ LeaveNotify(t)
        \/ SpuriousWake(t)

Spec == Init /\ [][Next]_vars

(***************************************************************************)
(* Fairness.  A thread that holds the mutex runs on.  A free mutex that is *)
(* wanted by threads in __leave or in wait() is taken by one of them sooner*)
(* or later, but std::mutex does not say by which.  Tickets are destroyed  *)
(* sooner or later.  Nobody has to enter, and nobody wakes spuriously.     *)
(***************************************************************************)
Fairness ==
    /\ \A t \in Thread :
        WF_vars(EnterWait(t) \/ EnterAdmit(t) \/ EnterCount(t) \/ LeaveNotify(t))
    /\ WF_vars(\E t \in Thread : WaitReturn(t) \/ LeaveLock(t))

FairSpec == Spec /\ Fairness
------------------------------------------------------------------------------
\* The type invariant.  __traffic is unsigned in the code: it would wrap if
\* it were ever decremented below zero, so it has to stay in Nat here.
TypeOK ==
    /\ pc \in [Thread -> Location]
    /\ owner \in Thread \cup {NoThread}
    /\ traffic \in Nat

\* The mutex protects the counter: a thread is between the lock and the unlock
\* of __enter, __leave or wait() exactly when it owns __mtx.
Guarded ==
    \A t \in Thread :
        pc[t] \in {"check", "admit", "resume", "sub"} <=> owner = t

\* The room that a thread has seen is still there when it counts itself.
RoomKept == At("admit") # {} => traffic < Concurrency

\* __traffic is the number of live Tickets, however __enter and __leave of
\* different threads interleave and however waiting threads are woken.
TicketsCounted == traffic = Cardinality(Tickets)

\* The threads that will be counted without sleeping again.
Entering == Woken \cup At("admit")

\* No wakeup is lost: as long as somebody sleeps in wait(), the Tickets and the
\* threads on their way to one fill the semaphore, so that a Ticket is still
\* to be destroyed, and its __leave will notify.
NoLostWakeup ==
    Asleep # {} => traffic + Cardinality(Entering) >= Concurrency

\* Semaphore implements SemaphoreGate: what a user sees of it is a gate with a
\* bench, at which only threads from outside respect the limit.
Gate == INSTANCE SemaphoreGate WITH
    inside <- Tickets, sleeping <- Asleep, called <- Woken

ImplementsGate == Gate!GateSpec

\* When threads sleep in wait(), one of them is woken sooner or later.
SleepersAreCalled == Asleep # {} ~> Woken # {}

\* What Semaphore.hpp:67-68 and examples/concurrent_file_open_limit.cpp:27 say:
\* __concurrency is the limit of __traffic.  The code does not keep it: a
\* thread from outside may take the room a woken thread was woken for.
LimitRespected == traffic <= Concurrency
==============================================================================

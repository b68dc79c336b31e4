---------------------------- MODULE SemaphoreGate ----------------------------
(***************************************************************************)
(* What ashe::Semaphore promises its users, with the mutex, the condition  *)
(* variable and the counter left out: a gate that threads pass, and a      *)
(* bench on which they sleep when Concurrency threads are inside.          *)
(*                                                                         *)
(* The gate is checked only for threads that come in from outside.  A      *)
(* thread that was sleeping and is called goes in when it likes, whatever  *)
(* the number of threads inside is by then: this is what src/Semaphore.cpp *)
(* implements (module Semaphore), so a called thread may make the gate     *)
(* exceed its limit.                                                       *)
(***************************************************************************)
EXTENDS Integers, FiniteSets

CONSTANTS Thread,       \* the threads that use the semaphore
          Concurrency   \* how many of them may be inside

VARIABLES inside,       \* the threads that hold a Ticket
          sleeping,     \* the threads asleep on the bench
          called        \* the threads that were woken and are not inside yet

gateVars == <<inside, sleeping, called>>

GateInit ==
    /\ inside = {}
    /\ sleeping = {}
    /\ called = {}

Outside == Thread \ (inside \cup sleeping \cup called)

\* A thread finds room and goes in.
GoIn(t) ==
    /\ t \in Outside
    /\ Cardinality(inside) < Concurrency
    /\ inside' = inside \cup {t}
    /\ UNCHANGED <<sleeping, called>>

\* A thread finds the gate full and falls asleep.
FallAsleep(t) ==
    /\ t \in Outside
    /\ Cardinality(inside) >= Concurrency
    /\ sleeping' = sleeping \cup {t}
    /\ UNCHANGED <<inside, called>>

\* A thread that was called goes in; the limit is not looked at again.
GoInCalled(t) ==
    /\ t \in called
    /\ inside' = inside \cup {t}
    /\ called' = called \ {t}
    /\ UNCHANGED sleeping

\* A thread leaves and calls one of the sleeping threads, if there is one.
GoOut(t) ==
    /\ t \in inside
    /\ inside' = inside \ {t}
    /\ \/ /\ sleeping = {}
          /\ UNCHANGED <<sleeping, called>>
       \/ \E w \in sleeping :
            /\ sleeping' = sleeping \ {w}
            /\ called' = called \cup {w}

\* A sleeping thread wakes although nobody called it.
WakeUncalled(t) ==
    /\ t \in sleeping
    /\ sleeping' = sleeping \ {t}
    /\ called' = called \cup {t}
    /\ UNCHANGED inside

GateNext ==
    \E t \in Thread :
        \/ GoIn(t)
        \/ FallAsleep(t)
        \/ GoInCalled(t)
        \/ GoOut(t)
        \/ WakeUncalled(t)

GateSpec == GateInit /\ [][GateNext]_gateVars
==============================================================================

------------------------------ MODULE BufferValue ------------------------------
(***************************************************************************)
(* What class Buffer promises: every object has a value of its own, which  *)
(* only an operation on that object changes.                               *)
(***************************************************************************)
CONSTANTS Objects,   \* the Buffer objects of a program
          Lengths,   \* the sizes that it asks for
          Values,    \* what it writes
          Junk,      \* what memory holds that was never written
          Null       \* nullptr, and an object that does not exist

VARIABLE val   \* the value of each object

Value(n, v) == [size |-> n, holds |-> v]

Uninitialised(n) == Value(n, IF n = 0 THEN Null ELSE Junk)

Exists(o) == val[o] # Null

ValueInit == val = [o \in Objects |-> Null]

Make(o, n) ==
    /\ ~Exists(o)
    /\ val' = [val EXCEPT ![o] = Uninitialised(n)]

\* Construction from, and assignment of, another object.
Duplicate(o, x) ==
    /\ Exists(x) /\ o # x
    /\ val' = [val EXCEPT ![o] = val[x]]

\* x = x: the size stays, the contents do not.
DuplicateSelf(o) ==
    /\ Exists(o)
    /\ val' = [val EXCEPT ![o] = Uninitialised(val[o].size)]

\* The value goes from x to o, and x is empty, be it o itself.
Take(o, x) ==
    /\ Exists(x)
    /\ val' = [val EXCEPT ![o] = val[x], ![x] = Uninitialised(0)]

Resize(o, n) ==
    /\ Exists(o)
    /\ val' = [val EXCEPT ![o] = Uninitialised(n)]

Exchange(o, x) ==
    /\ Exists(o) /\ Exists(x)
    /\ val' = [val EXCEPT ![o] = val[x], ![x] = val[o]]

Write(o, v) ==
    /\ Exists(o) /\ val[o].size # 0
    /\ val' = [val EXCEPT ![o] = Value(val[o].size, v)]

Unmake(o) ==
    /\ Exists(o)
    /\ val' = [val EXCEPT ![o] = Null]

ValueNext ==
    \E o \in Objects :
        \/ \E n \in Lengths : Make(o, n) \/ Resize(o, n)
        \/ Resize(o, 0)
        \/ \E x \in Objects : Duplicate(o, x) \/ Take(o, x) \/ Exchange(o, x)
        \/ DuplicateSelf(o)
        \/ \E v \in Values : Write(o, v)
        \/ Unmake(o)

ValueSpec == ValueInit /\ [][ValueNext]_val
==============================================================================

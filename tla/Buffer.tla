-------------------------------- MODULE Buffer --------------------------------
(***************************************************************************)
(* Class Buffer (src/Buffer.cpp): objects that point to a private part,    *)
(* which points to a block of memory, under construction, copy, move,      *)
(* assignment, swap() and destruction in any order.                        *)
(*                                                                         *)
(* A malloc() or new that fails ends the program: a behaviour that stops.  *)
(***************************************************************************)
EXTENDS Integers

CONSTANTS Objects,   \* the Buffer objects of a program
          Cells,     \* where a __BufferPrivData can be
          Blocks,    \* where malloc() can put a block
          Lengths,   \* the sizes that the program asks for
          Values,    \* what it writes
          Junk,      \* what memory holds that was never written
          Null       \* nullptr; an object, cell or block that is not there

\* What a __BufferPrivData is, and a block.
Parts == [ptr : Blocks \cup {Null}, size : Nat]

Memory == [size : Nat, holds : Values \cup {Junk, Null}]

ASSUME BufferAssumption ==
    /\ Lengths \subseteq Nat
    /\ Null \notin Cells \cup Blocks \cup Values \cup {Junk}
    /\ Null \notin Parts \cup Memory

VARIABLES pd,     \* __pd of every object
          cell,   \* every __BufferPrivData: ptr and size
          heap    \* every block: how large, and what it holds

bufVars == <<pd, cell, heap>>

Alive(o) == pd[o] # Null
Part(o) == cell[pd[o]]

\* std::free(); nullptr is allowed.
Freed(h, p) == [q \in Blocks |-> IF q = p THEN Null ELSE h[q]]

\* What malloc(n) can return when the blocks are h: alloc() asks for no memory
\* when n is 0.
Mallocs(h, n) == IF n = 0 THEN {Null} ELSE {p \in Blocks : h[p] = Null}

\* The blocks h with the one at p, if any, n bytes long and holding v.
Stored(h, p, n, v) ==
    [q \in Blocks |-> IF q = p THEN [size |-> n, holds |-> v] ELSE h[q]]

Holds(h, p) == IF p = Null THEN Null ELSE h[p].holds

News == {c \in Cells : cell[c] = Null}

BufInit ==
    /\ pd = [o \in Objects |-> Null]
    /\ cell = [c \in Cells |-> Null]
    /\ heap = [p \in Blocks |-> Null]

EmptyPart == [ptr |-> Null, size |-> 0]

Construct(o, n) ==
    /\ ~Alive(o)
    /\ \E c \in News, p \in Mallocs(heap, n) :
        /\ pd' = [pd EXCEPT ![o] = c]
        /\ cell' = [cell EXCEPT ![c] = [ptr |-> p, size |-> n]]
        /\ heap' = Stored(heap, p, n, Junk)

CopyConstruct(o, x) ==
    /\ ~Alive(o) /\ Alive(x)
    /\ \E c \in News, p \in Mallocs(heap, Part(x).size) :
        /\ pd' = [pd EXCEPT ![o] = c]
        /\ cell' = [cell EXCEPT ![c] = [ptr |-> p, size |-> Part(x).size]]
        /\ heap' = Stored(heap, p, Part(x).size, Holds(heap, Part(x).ptr))

\* Mutant of MoveConstruct: x keeps its private part too.
MoveConstructSharing(o, x) ==
    /\ ~Alive(o) /\ Alive(x)
    /\ pd' = [pd EXCEPT ![o] = pd[x]]
    /\ UNCHANGED <<cell, heap>>

MoveConstruct(o, x) ==
    /\ ~Alive(o) /\ Alive(x)
    /\ \E c \in News :
        /\ pd' = [pd EXCEPT ![o] = pd[x], ![x] = c]
        /\ cell' = [cell EXCEPT ![c] = EmptyPart]
    /\ UNCHANGED heap

Destruct(o) ==
    /\ Alive(o)
    /\ heap' = Freed(heap, Part(o).ptr)
    /\ cell' = [cell EXCEPT ![pd[o]] = Null]
    /\ pd' = [pd EXCEPT ![o] = Null]

\* alloc(n), and what the new block holds then.
AllocAndCopy(o, n, v) ==
    \E p \in Mallocs(Freed(heap, Part(o).ptr), n) :
        /\ cell' = [cell EXCEPT ![pd[o]] = [ptr |-> p, size |-> n]]
        /\ heap' = Stored(Freed(heap, Part(o).ptr), p, n, v)
        /\ UNCHANGED pd

Alloc(o, n) ==
    /\ Alive(o)
    /\ AllocAndCopy(o, n, Junk)

\* Mutant of CopyAssign: nothing is copied.
CopyAssignUnwritten(o, x) ==
    /\ Alive(o) /\ Alive(x)
    /\ AllocAndCopy(o, Part(x).size, Junk)

\* operator=: x.data() is evaluated after alloc(), so it is the new block when
\* the two objects are one.
CopyAssign(o, x) ==
    /\ Alive(o) /\ Alive(x)
    /\ AllocAndCopy(o, Part(x).size,
                    IF x = o THEN Junk ELSE Holds(heap, Part(x).ptr))

\* operator=(&&), an object moved to itself included: its part is deleted, and
\* the pointer to it replaced by a new part before it is used again.
MoveAssign(o, x) ==
    /\ Alive(o) /\ Alive(x)
    /\ heap' = Freed(heap, Part(o).ptr)
    /\ \E c \in News \cup {pd[o]} :
        /\ cell' = [cell EXCEPT ![pd[o]] = Null, ![c] = EmptyPart]
        /\ pd' = [pd EXCEPT ![o] = pd[x], ![x] = c]

\* free(): the part stays.
Free(o) ==
    /\ Alive(o)
    /\ heap' = Freed(heap, Part(o).ptr)
    /\ cell' = [cell EXCEPT ![pd[o]] = EmptyPart]
    /\ UNCHANGED pd

SwapParts(o, x) ==
    /\ Alive(o) /\ Alive(x)
    /\ pd' = [pd EXCEPT ![o] = pd[x], ![x] = pd[o]]
    /\ UNCHANGED <<cell, heap>>

\* The program writes through data().
Fill(o, v) ==
    /\ Alive(o) /\ Part(o).ptr # Null
    /\ heap' = [heap EXCEPT ![Part(o).ptr].holds = v]
    /\ UNCHANGED <<pd, cell>>

BufNext ==
    \E o \in Objects :
        \/ \E n \in Lengths : Construct(o, n) \/ Alloc(o, n)
        \/ \E x \in Objects :
            \/ CopyConstruct(o, x) \/ MoveConstruct(o, x)
            \/ CopyAssign(o, x) \/ MoveAssign(o, x)
            \/ SwapParts(o, x)
        \/ Free(o) \/ Destruct(o)
        \/ \E v \in Values : Fill(o, v)

BufSpec == BufInit /\ [][BufNext]_bufVars
------------------------------------------------------------------------------
\* Every private part has one object and every block one private part, which
\* knows its size, after any mixture of copies, moves and swaps: nothing is
\* leaked, freed twice, or used after it was freed.
OwnedOnce ==
    /\ \A c \in Cells :
        cell[c] # Null <=> \E o \in Objects : pd[o] = c
    /\ \A o, x \in Objects : Alive(o) /\ pd[o] = pd[x] => o = x
    /\ \A p \in Blocks :
        heap[p] # Null <=> \E c \in Cells : cell[c] # Null /\ cell[c].ptr = p
    /\ \A c, d \in Cells :
        cell[c] # Null /\ cell[d] # Null /\ cell[c].ptr = cell[d].ptr =>
            c = d \/ cell[c].ptr = Null
    /\ \A c \in Cells : cell[c] # Null =>
        cell[c].size = IF cell[c].ptr = Null THEN 0 ELSE heap[cell[c].ptr].size

\* The values that the objects have.
Shown ==
    [o \in Objects |->
        IF Alive(o) THEN [size |-> Part(o).size, holds |-> Holds(heap, Part(o).ptr)]
                    ELSE Null]

AsValues == INSTANCE BufferValue WITH val <- Shown

\* Every call does to the values what its abstract counterpart does.
CallsSimulate ==
    \A o \in Objects :
        /\ \A n \in Lengths :
            /\ Construct(o, n) => AsValues!Make(o, n)
            /\ Alloc(o, n) => AsValues!Resize(o, n)
        /\ Free(o) => AsValues!Resize(o, 0)
        /\ Destruct(o) => AsValues!Unmake(o)
        /\ \A v \in Values : Fill(o, v) => AsValues!Write(o, v)
        /\ CopyAssign(o, o) => AsValues!DuplicateSelf(o)
        /\ \A x \in Objects \ {o} :
            CopyConstruct(o, x) \/ CopyAssign(o, x) => AsValues!Duplicate(o, x)
        /\ \A x \in Objects :
            /\ MoveConstruct(o, x) \/ MoveAssign(o, x) => AsValues!Take(o, x)
            /\ SwapParts(o, x) => AsValues!Exchange(o, x)

\* The objects behave as if each had a value of its own: this implies
\* AsValues!ValueSpec, and says of every call which step it is.
ImplementsValue == AsValues!ValueInit /\ [][CallsSimulate]_bufVars
==============================================================================

---------------------------- MODULE OwnershipProofs ----------------------------
(***************************************************************************)
(* Who releases what: theorems about the memory of the Buffer objects      *)
(* (module Buffer) and the descriptors of the WebSocket objects (module    *)
(* WsOwner).                                                               *)
(*                                                                         *)
(* A Buffer points to a private part, and that to a block.  The invariant  *)
(* of these two levels is kept by two operations on parts, giving one a    *)
(* block after its old one was freed, and deleting one with its block;     *)
(* every call is made of them.  Both leave what the other objects show     *)
(* alone, so that each call is the step of module BufferValue.             *)
(***************************************************************************)
EXTENDS Buffer, WsOwner, TLAPS

\* No block is empty: alloc() asks for none then.
Heaps == [Blocks -> {m \in Memory : m.size # 0} \cup {Null}]

BufTypeOK ==
    /\ pd \in [Objects -> Cells \cup {Null}]
    /\ cell \in [Cells -> Parts \cup {Null}]
    /\ heap \in Heaps

\* The two levels of OwnedOnce, for any pointers p, private parts cl and heap hp.
PartsOnce(p, cl) ==
    /\ \A c \in Cells : cl[c] # Null <=> \E o \in Objects : p[o] = c
    /\ \A o, x \in Objects : p[o] # Null /\ p[o] = p[x] => o = x

BlocksOnce(cl, hp) ==
    /\ \A p \in Blocks :
        hp[p] # Null <=> \E c \in Cells : cl[c] # Null /\ cl[c].ptr = p
    /\ \A c, d \in Cells :
        cl[c] # Null /\ cl[d] # Null /\ cl[c].ptr = cl[d].ptr =>
            c = d \/ cl[c].ptr = Null
    /\ \A c \in Cells : cl[c] # Null =>
        cl[c].size = IF cl[c].ptr = Null THEN 0 ELSE hp[cl[c].ptr].size

\* OwnedOnce is said level by level.
LEMMA TwoLevels == OwnedOnce <=> PartsOnce(pd, cell) /\ BlocksOnce(cell, heap)
BY DEF OwnedOnce, PartsOnce, BlocksOnce, Alive

\* The block that a private part has.
BlockOf(cl, c) == IF cl[c] = Null THEN Null ELSE cl[c].ptr

\* What malloc() returns points nowhere only if nothing was asked for, and else
\* to a block that was free.
LEMMA MallocGives ==
    ASSUME NEW h \in Heaps, NEW n \in Nat, NEW p \in Mallocs(h, n)
    PROVE  /\ p \in Blocks \cup {Null}
           /\ p = Null <=> n = 0
           /\ p # Null => p \in Blocks /\ h[p] = Null
BY BufferAssumption DEF Mallocs

\* free() leaves a heap.
LEMMA FreedTyped ==
    ASSUME NEW h \in Heaps, NEW p
    PROVE  Freed(h, p) \in Heaps
BY DEF Freed, Heaps

\* Whatever is stored in a block that is not empty, it stays a heap.
LEMMA StoredTyped ==
    ASSUME NEW h \in Heaps, NEW n \in Nat, NEW v \in Values \cup {Junk, Null},
           NEW p, p \in Blocks => n # 0
    PROVE  Stored(h, p, n, v) \in Heaps
BY DEF Stored, Heaps, Memory

\* Freeing the block of a private part that goes away.
LEMMA DropKeeps ==
    ASSUME NEW cl \in [Cells -> Parts \cup {Null}], NEW hp \in Heaps,
           BlocksOnce(cl, hp), NEW c \in Cells
    PROVE  BlocksOnce([cl EXCEPT ![c] = Null], Freed(hp, BlockOf(cl, c)))
<1> DEFINE dl == [cl EXCEPT ![c] = Null]
           dp == Freed(hp, BlockOf(cl, c))
<1>1. \A d \in Cells : dl[d] = IF d = c THEN Null ELSE cl[d]
  OBVIOUS
<1>2. \A q \in Blocks : dp[q] = IF q = BlockOf(cl, c) THEN Null ELSE hp[q]
  BY DEF Freed
<1> HIDE DEF dl, dp
<1>3. \A q \in Blocks :
        dp[q] # Null <=> \E d \in Cells : dl[d] # Null /\ dl[d].ptr = q
  BY <1>1, <1>2, BufferAssumption DEF BlocksOnce, BlockOf, Parts
<1>4. \A d, e \in Cells :
        dl[d] # Null /\ dl[e] # Null /\ dl[d].ptr = dl[e].ptr =>
            d = e \/ dl[d].ptr = Null
  BY <1>1 DEF BlocksOnce
<1>5. \A d \in Cells : dl[d] # Null =>
        dl[d].size = IF dl[d].ptr = Null THEN 0 ELSE dp[dl[d].ptr].size
  BY <1>1, <1>2, BufferAssumption DEF BlocksOnce, BlockOf, Parts
<1> QED BY <1>3, <1>4, <1>5 DEF BlocksOnce, dl, dp

\* A private part that gets a block, or none, from a heap in which its old one
\* was freed.
LEMMA PutKeeps ==
    ASSUME NEW cl \in [Cells -> Parts \cup {Null}], NEW hp \in Heaps,
           BlocksOnce(cl, hp), NEW c \in Cells, cl[c] = Null,
           NEW n \in Nat, NEW v \in Values \cup {Junk, Null},
           NEW p \in Mallocs(hp, n)
    PROVE  BlocksOnce([cl EXCEPT ![c] = [ptr |-> p, size |-> n]], Stored(hp, p, n, v))
<1> DEFINE dl == [cl EXCEPT ![c] = [ptr |-> p, size |-> n]]
           dp == Stored(hp, p, n, v)
           part == [ptr |-> p, size |-> n]
           mem == [size |-> n, holds |-> v]
<1>0. /\ p \in Blocks \cup {Null}
      /\ p = Null <=> n = 0
      /\ p # Null => p \in Blocks /\ hp[p] = Null
  BY MallocGives
<1>1. \A d \in Cells : dl[d] = IF d = c THEN part ELSE cl[d]
  OBVIOUS
<1>2. \A q \in Blocks : dp[q] = IF q = p THEN mem ELSE hp[q]
  BY DEF Stored
<1>3. part # Null /\ mem # Null /\ part.ptr = p /\ part.size = n /\ mem.size = n
  BY <1>0, BufferAssumption DEF Parts, Memory
<1> HIDE DEF dl, dp, part, mem
<1>4. \A q \in Blocks :
        dp[q] # Null <=> \E d \in Cells : dl[d] # Null /\ dl[d].ptr = q
  BY <1>0, <1>1, <1>2, <1>3, BufferAssumption DEF BlocksOnce
<1>5. \A d, e \in Cells :
        dl[d] # Null /\ dl[e] # Null /\ dl[d].ptr = dl[e].ptr =>
            d = e \/ dl[d].ptr = Null
  BY <1>0, <1>1, <1>3 DEF BlocksOnce
<1>6. \A d \in Cells : dl[d] # Null =>
        dl[d].size = IF dl[d].ptr = Null THEN 0 ELSE dp[dl[d].ptr].size
  BY <1>0, <1>1, <1>2, <1>3, BufferAssumption DEF BlocksOnce, Parts
<1> QED BY <1>4, <1>5, <1>6 DEF BlocksOnce, dl, dp

\* n bytes, of which there are none in the other sense if n is 0.
Bytes(n, v) == [size |-> n, holds |-> IF n = 0 THEN Null ELSE v]

\* What an object with the private part c shows.
PartShown(cl, hp, c) == [size |-> cl[c].size, holds |-> Holds(hp, cl[c].ptr)]

\* The private parts that there are, but for c, show what they did.
OthersShow(cl, hp, dl, dp, c) ==
    \A d \in Cells \ {c} : cl[d] # Null =>
        PartShown(dl, dp, d) = PartShown(cl, hp, d)

\* std::free(nullptr) does nothing.
LEMMA FreedNothing ==
    ASSUME NEW h \in Heaps
    PROVE  Freed(h, Null) = h
BY BufferAssumption DEF Freed, Heaps

\* alloc() of a private part, new or not: its old block is freed, and p is what
\* malloc() returns for the new one.
Reallocated(cl, hp, c, n, v, p, dl, dp) ==
    /\ cl \in [Cells -> Parts \cup {Null}] /\ hp \in Heaps
    /\ BlocksOnce(cl, hp)
    /\ c \in Cells /\ n \in Nat /\ v \in Values \cup {Junk, Null}
    /\ p \in Mallocs(Freed(hp, BlockOf(cl, c)), n)
    /\ dl = [cl EXCEPT ![c] = [ptr |-> p, size |-> n]]
    /\ dp = Stored(Freed(hp, BlockOf(cl, c)), p, n, v)

\* The blocks have one part each afterwards.
LEMMA ReplaceKeeps ==
    ASSUME NEW cl, NEW hp, NEW c, NEW n, NEW v, NEW p, NEW dl, NEW dp,
           Reallocated(cl, hp, c, n, v, p, dl, dp)
    PROVE  /\ BlocksOnce(dl, dp)
           /\ dl \in [Cells -> Parts \cup {Null}]
           /\ dp \in Heaps
<1> USE DEF Reallocated
<1> DEFINE cn == [cl EXCEPT ![c] = Null]
           hn == Freed(hp, BlockOf(cl, c))
<1>1. cn \in [Cells -> Parts \cup {Null}] /\ cn[c] = Null
  OBVIOUS
<1>2. hn \in Heaps
  BY FreedTyped
<1>3. BlocksOnce(cn, hn)
  BY DropKeeps
<1>4. [cn EXCEPT ![c] = [ptr |-> p, size |-> n]] = [cl EXCEPT ![c] = [ptr |-> p, size |-> n]]
  OBVIOUS
<1>5. p \in Blocks \cup {Null} /\ (p \in Blocks => n # 0)
  BY <1>2, MallocGives, BufferAssumption
<1>6. [ptr |-> p, size |-> n] \in Parts
  BY <1>5 DEF Parts
<1>7. Stored(hn, p, n, v) \in Heaps
  BY <1>2, <1>5, StoredTyped
<1> HIDE DEF cn, hn
<1>8. BlocksOnce([cn EXCEPT ![c] = [ptr |-> p, size |-> n]], Stored(hn, p, n, v))
  BY <1>1, <1>2, <1>3, PutKeeps DEF hn
<1> QED BY <1>4, <1>6, <1>7, <1>8 DEF hn

\* The objects of all other private parts do not notice.
LEMMA ReplaceShows ==
    ASSUME NEW cl, NEW hp, NEW c, NEW n, NEW v, NEW p, NEW dl, NEW dp,
           Reallocated(cl, hp, c, n, v, p, dl, dp)
    PROVE  /\ PartShown(dl, dp, c) = Bytes(n, v)
           /\ OthersShow(cl, hp, dl, dp, c)
<1> USE DEF Reallocated
<1> DEFINE hn == Freed(hp, BlockOf(cl, c))
<1>1. /\ p \in Blocks \cup {Null}
      /\ p = Null <=> n = 0
      /\ p # Null => p \in Blocks /\ hn[p] = Null
  BY FreedTyped, MallocGives
<1>2. PartShown(dl, dp, c) = Bytes(n, v)
  BY <1>1 DEF PartShown, Bytes, Holds, Stored
<1>3. ASSUME NEW d \in Cells \ {c}, cl[d] # Null
      PROVE  PartShown(dl, dp, d) = PartShown(cl, hp, d)
  <2>1. dl[d] = cl[d] /\ cl[d].ptr \in Blocks \cup {Null}
    BY <1>3 DEF Parts
  <2>2. CASE cl[d].ptr = Null
    BY <2>1, <2>2 DEF PartShown, Holds
  <2>3. CASE cl[d].ptr # Null
    <3>1. hp[cl[d].ptr] # Null
      BY <2>1, <2>3, <1>3 DEF BlocksOnce
    <3>2. cl[d].ptr # BlockOf(cl, c)
      BY <2>3, <1>3 DEF BlocksOnce, BlockOf
    <3>3. hn[cl[d].ptr] = hp[cl[d].ptr]
      BY <2>1, <2>3, <3>2 DEF Freed
    <3>4. cl[d].ptr # p
      BY <1>1, <2>3, <3>1, <3>3
    <3>5. dp[cl[d].ptr] = hp[cl[d].ptr]
      BY <2>1, <2>3, <3>3, <3>4 DEF Stored
    <3> QED BY <2>1, <2>3, <3>5 DEF PartShown, Holds
  <2> QED BY <2>2, <2>3
<1> QED BY <1>2, <1>3 DEF OthersShow

\* When a part is deleted with its block, the objects of the others do not notice.
LEMMA DropShows ==
    ASSUME NEW cl \in [Cells -> Parts \cup {Null}], NEW hp \in Heaps,
           BlocksOnce(cl, hp), NEW c \in Cells
    PROVE  OthersShow(cl, hp, [cl EXCEPT ![c] = Null],
                      Freed(hp, BlockOf(cl, c)), c)
<1> SUFFICES ASSUME NEW d \in Cells \ {c}, cl[d] # Null
             PROVE  PartShown([cl EXCEPT ![c] = Null], Freed(hp, BlockOf(cl, c)), d)
                      = PartShown(cl, hp, d)
  BY DEF OthersShow
<1>1. cl[d].ptr \in Blocks \cup {Null}
  BY DEF Parts
<1>2. cl[d].ptr # Null => cl[d].ptr # BlockOf(cl, c)
  BY DEF BlocksOnce, BlockOf
<1> QED BY <1>1, <1>2 DEF PartShown, Holds, Freed

------------------------------------------------------------------------------
\* The inductive invariant.
BufInv == BufTypeOK /\ PartsOnce(pd, cell) /\ BlocksOnce(cell, heap)

\* What an object shows, now and after a step.
LEMMA ShownIs ==
    ASSUME NEW o \in Objects
    PROVE  /\ Shown[o] = IF pd[o] = Null THEN Null ELSE PartShown(cell, heap, pd[o])
           /\ Shown'[o] = IF pd'[o] = Null THEN Null
                                           ELSE PartShown(cell', heap', pd'[o])
BY DEF Shown, PartShown, Alive, Part

\* An object with a private part that shows what it did shows it too.
LEMMA ShownStays ==
    ASSUME NEW o \in Objects, NEW x \in Objects, pd'[o] = pd[x],
           NEW c, OthersShow(cell, heap, cell', heap', c),
           pd[x] # Null => pd[x] \in Cells \ {c} /\ cell[pd[x]] # Null
    PROVE  Shown'[o] = Shown[x]
BY DEF Shown, OthersShow, PartShown, Alive, Part

\* If one object shows something new and the others what they did, that is all
\* that changes.
LEMMA ShownChanges ==
    ASSUME NEW o \in Objects, NEW new, Shown'[o] = new,
           \A q \in Objects \ {o} : Shown'[q] = Shown[q]
    PROVE  Shown' = [Shown EXCEPT ![o] = new]
BY DEF Shown

\* An object that there is has a private part, and a value.
LEMMA AliveHas ==
    ASSUME BufInv, NEW o \in Objects, Alive(o)
    PROVE  /\ pd[o] \in Cells /\ cell[pd[o]] # Null
           /\ cell[pd[o]] \in Parts
           /\ cell[pd[o]].size \in Nat /\ cell[pd[o]].ptr \in Blocks \cup {Null}
           /\ BlockOf(cell, pd[o]) = Part(o).ptr
           /\ Holds(heap, Part(o).ptr) \in Values \cup {Junk, Null}
           /\ Shown[o] = [size |-> Part(o).size, holds |-> Holds(heap, Part(o).ptr)]
           /\ Shown[o] # Null
           /\ Part(o).size = 0 <=> Part(o).ptr = Null
<1>1. pd[o] \in Cells /\ cell[pd[o]] # Null
  BY DEF BufInv, BufTypeOK, PartsOnce, Alive
<1>2. cell[pd[o]] \in Parts
  BY <1>1 DEF BufInv, BufTypeOK
<1>3. cell[pd[o]].size \in Nat /\ cell[pd[o]].ptr \in Blocks \cup {Null}
  BY <1>2 DEF Parts
<1>4. Holds(heap, Part(o).ptr) \in Values \cup {Junk, Null}
  <2>1. CASE Part(o).ptr = Null
    BY <2>1 DEF Holds
  <2>2. CASE Part(o).ptr # Null
    <3>1. Part(o).ptr \in Blocks /\ heap[Part(o).ptr] # Null
      BY <1>1, <1>3, <2>2 DEF BufInv, BlocksOnce, Part
    <3>2. heap[Part(o).ptr] \in Memory
      BY <3>1 DEF BufInv, BufTypeOK, Heaps
    <3> QED BY <3>2, <2>2 DEF Holds, Memory
  <2> QED BY <2>1, <2>2
<1>5. Shown[o] = [size |-> Part(o).size, holds |-> Holds(heap, Part(o).ptr)]
  BY DEF Shown
<1>6. Shown[o] \in Memory
  BY <1>3, <1>4, <1>5 DEF Memory, Part
<1>7. Part(o).size = 0 <=> Part(o).ptr = Null
  <2>1. CASE Part(o).ptr = Null
    BY <1>1, <2>1 DEF BufInv, BlocksOnce, Part
  <2>2. CASE Part(o).ptr # Null
    <3>1. Part(o).ptr \in Blocks /\ heap[Part(o).ptr] # Null
      BY <1>1, <1>3, <2>2 DEF BufInv, BlocksOnce, Part
    <3>2. heap[Part(o).ptr].size # 0
      BY <3>1 DEF BufInv, BufTypeOK, Heaps
    <3> QED BY <1>1, <2>2, <3>2 DEF BufInv, BlocksOnce, Part
  <2> QED BY <2>1, <2>2
<1>8. Shown[o] # Null
  BY <1>6, BufferAssumption
<1>9. BlockOf(cell, pd[o]) = Part(o).ptr
  BY <1>1 DEF BlockOf, Part
<1> QED
  BY <1>1, <1>2, <1>3, <1>4, <1>5, <1>7, <1>8, <1>9

\* There is nothing at first.
LEMMA InitBufInv == BufInit => BufInv
<1> SUFFICES ASSUME BufInit PROVE BufInv
  OBVIOUS
<1>1. BufTypeOK
  BY DEF BufInit, BufTypeOK, Heaps
<1>2. PartsOnce(pd, cell)
  BY BufferAssumption DEF BufInit, PartsOnce
<1>3. BlocksOnce(cell, heap)
  BY DEF BufInit, BlocksOnce
<1> QED BY <1>1, <1>2, <1>3 DEF BufInv

\* What a constructor does: a private part that there was not, for an object that
\* there was not, and a block or none.
Constructed(o, n, v) ==
    \E c \in News, p \in Mallocs(heap, n) :
        /\ pd' = [pd EXCEPT ![o] = c]
        /\ cell' = [cell EXCEPT ![c] = [ptr |-> p, size |-> n]]
        /\ heap' = Stored(heap, p, n, v)

\* A constructor keeps the invariant, and only its own object shows anything new.
LEMMA NewObject ==
    ASSUME BufInv, NEW o \in Objects, ~Alive(o), NEW n \in Nat,
           NEW v \in Values \cup {Junk, Null}, Constructed(o, n, v)
    PROVE  /\ BufInv'
           /\ Shown' = [Shown EXCEPT ![o] = Bytes(n, v)]
<1> PICK c \in News, p \in Mallocs(heap, n) :
        /\ pd' = [pd EXCEPT ![o] = c]
        /\ cell' = [cell EXCEPT ![c] = [ptr |-> p, size |-> n]]
        /\ heap' = Stored(heap, p, n, v)
  BY DEF Constructed
<1>0. /\ pd \in [Objects -> Cells \cup {Null}]
      /\ cell \in [Cells -> Parts \cup {Null}]
      /\ heap \in Heaps /\ PartsOnce(pd, cell) /\ BlocksOnce(cell, heap)
  BY DEF BufInv, BufTypeOK
<1>1. c \in Cells /\ cell[c] = Null /\ c # Null /\ pd[o] = Null
  BY BufferAssumption DEF News, Alive
<1>2. /\ p \in Mallocs(Freed(heap, BlockOf(cell, c)), n)
      /\ heap' = Stored(Freed(heap, BlockOf(cell, c)), p, n, v)
  BY <1>0, <1>1, FreedNothing DEF BlockOf
<1>r. Reallocated(cell, heap, c, n, v, p, cell', heap')
  BY <1>0, <1>1, <1>2 DEF Reallocated
<1>3. /\ BlocksOnce(cell', heap')
      /\ cell' \in [Cells -> Parts \cup {Null}]
      /\ heap' \in Heaps
  BY <1>r, ReplaceKeeps
<1>4. /\ PartShown(cell', heap', c) = Bytes(n, v)
      /\ OthersShow(cell, heap, cell', heap', c)
  BY <1>r, ReplaceShows
<1>5. cell'[c] # Null /\ \A d \in Cells \ {c} : cell'[d] = cell[d]
  <2>1. p \in Blocks \cup {Null}
    BY <1>0, MallocGives
  <2>2. [ptr |-> p, size |-> n] \in Parts
    BY <2>1 DEF Parts
  <2> QED BY <1>0, <1>1, <2>2, BufferAssumption
<1>6. pd'[o] = c /\ \A q \in Objects \ {o} : pd'[q] = pd[q]
  BY <1>0
<1>7. PartsOnce(pd', cell')
  <2>1. ASSUME NEW d \in Cells
        PROVE  cell'[d] # Null <=> \E q \in Objects : pd'[q] = d
    <3>1. CASE d = c
      BY <1>5, <1>6, <3>1
    <3>2. CASE d # c
      BY <1>0, <1>1, <1>5, <1>6, <3>2, BufferAssumption DEF PartsOnce
    <3> QED BY <3>1, <3>2
  <2>2. ASSUME NEW q \in Objects, NEW x \in Objects, pd'[q] # Null, pd'[q] = pd'[x]
        PROVE  q = x
    BY <1>0, <1>1, <1>6, <2>2 DEF PartsOnce
  <2> QED BY <2>1, <2>2 DEF PartsOnce
<1>8. Shown'[o] = Bytes(n, v)
  BY <1>1, <1>4, <1>6, ShownIs
<1>9. ASSUME NEW q \in Objects \ {o}
      PROVE  Shown'[q] = Shown[q]
  <2>1. pd[q] # Null => pd[q] \in Cells \ {c} /\ cell[pd[q]] # Null
    BY <1>0, <1>1 DEF PartsOnce
  <2> QED BY <1>4, <1>6, <2>1, ShownStays
<1>10. BufTypeOK'
  BY <1>0, <1>1, <1>3 DEF BufTypeOK
<1>11. Shown' = [Shown EXCEPT ![o] = Bytes(n, v)]
  BY <1>8, <1>9, ShownChanges
<1> QED BY <1>3, <1>7, <1>10, <1>11 DEF BufInv

\* What alloc() and free() do: the private part stays, its block goes and it gets
\* another one or none.
LEMMA NewBlock ==
    ASSUME BufInv, NEW o \in Objects, Alive(o),
           NEW n \in Nat, NEW v \in Values \cup {Junk, Null},
           NEW p \in Mallocs(Freed(heap, Part(o).ptr), n),
           pd' = pd,
           cell' = [cell EXCEPT ![pd[o]] = [ptr |-> p, size |-> n]],
           heap' = Stored(Freed(heap, Part(o).ptr), p, n, v)
    PROVE  /\ BufInv'
           /\ Shown' = [Shown EXCEPT ![o] = Bytes(n, v)]
<1>0. /\ pd \in [Objects -> Cells \cup {Null}]
      /\ cell \in [Cells -> Parts \cup {Null}]
      /\ heap \in Heaps /\ PartsOnce(pd, cell) /\ BlocksOnce(cell, heap)
  BY DEF BufInv, BufTypeOK
<1> PICK c \in Cells : c = pd[o]
  BY AliveHas
<1>1. cell[c] # Null /\ c # Null /\ BlockOf(cell, c) = Part(o).ptr
  BY AliveHas, BufferAssumption
<1>2. /\ p \in Mallocs(Freed(heap, BlockOf(cell, c)), n)
      /\ cell' = [cell EXCEPT ![c] = [ptr |-> p, size |-> n]]
      /\ heap' = Stored(Freed(heap, BlockOf(cell, c)), p, n, v)
  BY <1>1
<1>r. Reallocated(cell, heap, c, n, v, p, cell', heap')
  BY <1>0, <1>1, <1>2 DEF Reallocated
<1>3. /\ BlocksOnce(cell', heap')
      /\ cell' \in [Cells -> Parts \cup {Null}]
      /\ heap' \in Heaps
  BY <1>r, ReplaceKeeps
<1>4. /\ PartShown(cell', heap', c) = Bytes(n, v)
      /\ OthersShow(cell, heap, cell', heap', c)
  BY <1>r, ReplaceShows
<1>5. cell'[c] # Null /\ \A d \in Cells \ {c} : cell'[d] = cell[d]
  <2>1. p \in Blocks \cup {Null}
    BY <1>0, MallocGives, FreedTyped
  <2>2. [ptr |-> p, size |-> n] \in Parts
    BY <2>1 DEF Parts
  <2> QED BY <1>0, <1>1, <2>2, BufferAssumption
<1>7. PartsOnce(pd', cell')
  BY <1>0, <1>1, <1>5 DEF PartsOnce
<1>8. Shown'[o] = Bytes(n, v)
  BY <1>1, <1>4, ShownIs
<1>9. ASSUME NEW q \in Objects \ {o}
      PROVE  Shown'[q] = Shown[q]
  <2>1. pd[q] # Null => pd[q] \in Cells \ {c} /\ cell[pd[q]] # Null
    BY <1>0, <1>1 DEF PartsOnce
  <2> QED BY <1>4, <2>1, ShownStays
<1>10. BufTypeOK'
  BY <1>0, <1>3 DEF BufTypeOK
<1>11. Shown' = [Shown EXCEPT ![o] = Bytes(n, v)]
  BY <1>8, <1>9, ShownChanges
<1> QED BY <1>3, <1>7, <1>10, <1>11 DEF BufInv

------------------------------------------------------------------------------
\* The steps, each with what it is for the values of the objects.
LEMMA AliveExists ==
    ASSUME BufInv, NEW o \in Objects
    PROVE  Alive(o) <=> AsValues!Exists(o)
BY AliveHas DEF AsValues!Exists, Shown

\* What was never written.
LEMMA UninitialisedBytes ==
    ASSUME NEW n
    PROVE  AsValues!Uninitialised(n) = Bytes(n, Junk)
BY DEF AsValues!Uninitialised, AsValues!Value, Bytes

\* What a constructed copy holds is what the other one shows.
LEMMA ShownBytes ==
    ASSUME BufInv, NEW o \in Objects, Alive(o)
    PROVE  Shown[o] = Bytes(Part(o).size, Holds(heap, Part(o).ptr))
BY AliveHas DEF Bytes, Holds

\* Buffer(n) makes a value (Buffer.cpp:16).
LEMMA ConstructSteps ==
    ASSUME BufInv, NEW o \in Objects, NEW n \in Lengths, Construct(o, n)
    PROVE  BufInv' /\ AsValues!Make(o, n)
<1>1. ~Alive(o) /\ n \in Nat
  BY BufferAssumption DEF Construct
<1>2. Constructed(o, n, Junk)
  BY DEF Construct, Constructed
<1>3. BufInv' /\ Shown' = [Shown EXCEPT ![o] = Bytes(n, Junk)]
  BY <1>1, <1>2, NewObject
<1> QED BY <1>1, <1>3, AliveExists, UninitialisedBytes DEF AsValues!Make

\* Buffer(x) duplicates the value of x (Buffer.cpp:22).
LEMMA CopyConstructSteps ==
    ASSUME BufInv, NEW o \in Objects, NEW x \in Objects, CopyConstruct(o, x)
    PROVE  BufInv' /\ AsValues!Duplicate(o, x)
<1>1. ~Alive(o) /\ Alive(x) /\ o # x
  BY DEF CopyConstruct
<1> DEFINE n == Part(x).size
           v == Holds(heap, Part(x).ptr)
<1>2. Constructed(o, n, v)
  BY DEF CopyConstruct, Constructed
<1>3. n \in Nat /\ v \in Values \cup {Junk, Null}
  BY <1>1, AliveHas DEF Part
<1>4. Shown[x] = Bytes(n, v)
  BY <1>1, ShownBytes
<1> HIDE DEF n, v
<1>5. BufInv' /\ Shown' = [Shown EXCEPT ![o] = Bytes(n, v)]
  BY <1>1, <1>2, <1>3, NewObject
<1> QED BY <1>1, <1>4, <1>5, AliveExists DEF AsValues!Duplicate

\* alloc(), with what is copied to the new block afterwards (Buffer.cpp:74).
LEMMA AllocAndCopySteps ==
    ASSUME BufInv, NEW o \in Objects, Alive(o), NEW n \in Nat,
           NEW v \in Values \cup {Junk, Null}, AllocAndCopy(o, n, v)
    PROVE  BufInv' /\ Shown' = [Shown EXCEPT ![o] = Bytes(n, v)]
BY NewBlock DEF AllocAndCopy

\* alloc(n) leaves n bytes that nobody wrote (Buffer.cpp:74).
LEMMA AllocSteps ==
    ASSUME BufInv, NEW o \in Objects, NEW n \in Lengths, Alloc(o, n)
    PROVE  BufInv' /\ AsValues!Resize(o, n)
<1>1. Alive(o) /\ n \in Nat /\ AllocAndCopy(o, n, Junk)
  BY BufferAssumption DEF Alloc
<1>2. BufInv' /\ Shown' = [Shown EXCEPT ![o] = Bytes(n, Junk)]
  BY <1>1, AllocAndCopySteps
<1> QED BY <1>1, <1>2, AliveExists, UninitialisedBytes DEF AsValues!Resize

\* o = x duplicates the value, and o = o loses it (Buffer.cpp:41).
LEMMA CopyAssignSteps ==
    ASSUME BufInv, NEW o \in Objects, NEW x \in Objects, CopyAssign(o, x)
    PROVE  /\ BufInv'
           /\ o = x => AsValues!DuplicateSelf(o)
           /\ o # x => AsValues!Duplicate(o, x)
<1> DEFINE n == Part(x).size
           v == Holds(heap, Part(x).ptr)
<1>1. Alive(o) /\ Alive(x) /\ AllocAndCopy(o, n, IF x = o THEN Junk ELSE v)
  BY DEF CopyAssign
<1>2. n \in Nat /\ v \in Values \cup {Junk, Null}
  BY <1>1, AliveHas DEF Part
<1>3. Shown[x] = Bytes(n, v)
  BY <1>1, ShownBytes
<1>4. AsValues!Exists(o) /\ AsValues!Exists(x)
  BY <1>1, AliveExists
<1> HIDE DEF n, v
<1>5. CASE o = x
  <2>1. BufInv' /\ Shown' = [Shown EXCEPT ![o] = Bytes(n, Junk)]
    BY <1>1, <1>2, <1>5, AllocAndCopySteps
  <2>2. Shown[o].size = n
    BY <1>3, <1>5 DEF Bytes
  <2> QED BY <1>4, <1>5, <2>1, <2>2, UninitialisedBytes DEF AsValues!DuplicateSelf
<1>6. CASE o # x
  <2>1. BufInv' /\ Shown' = [Shown EXCEPT ![o] = Bytes(n, v)]
    BY <1>1, <1>2, <1>6, AllocAndCopySteps
  <2> QED BY <1>3, <1>4, <1>6, <2>1 DEF AsValues!Duplicate
<1> QED BY <1>5, <1>6

\* free() leaves no byte (Buffer.cpp:92).
LEMMA FreeSteps ==
    ASSUME BufInv, NEW o \in Objects, Free(o)
    PROVE  BufInv' /\ AsValues!Resize(o, 0)
<1>1. Alive(o) /\ pd' = pd
  BY DEF Free
<1>2. Freed(heap, Part(o).ptr) \in Heaps
  BY FreedTyped DEF BufInv, BufTypeOK
<1>3. /\ Null \in Mallocs(Freed(heap, Part(o).ptr), 0)
      /\ cell' = [cell EXCEPT ![pd[o]] = [ptr |-> Null, size |-> 0]]
      /\ heap' = Stored(Freed(heap, Part(o).ptr), Null, 0, Junk)
  BY <1>2, BufferAssumption DEF Free, EmptyPart, Mallocs, Stored, Heaps
<1>4. AllocAndCopy(o, 0, Junk)
  BY <1>1, <1>3 DEF AllocAndCopy
<1>5. BufInv' /\ Shown' = [Shown EXCEPT ![o] = Bytes(0, Junk)]
  BY <1>1, <1>4, AllocAndCopySteps
<1> QED BY <1>1, <1>5, AliveExists, UninitialisedBytes DEF AsValues!Resize

\* The destructor takes the part and its block away (Buffer.cpp:33).
LEMMA DestructSteps ==
    ASSUME BufInv, NEW o \in Objects, Destruct(o)
    PROVE  BufInv' /\ AsValues!Unmake(o)
<1>0. /\ pd \in [Objects -> Cells \cup {Null}]
      /\ cell \in [Cells -> Parts \cup {Null}]
      /\ heap \in Heaps /\ PartsOnce(pd, cell) /\ BlocksOnce(cell, heap)
  BY DEF BufInv, BufTypeOK
<1>1. Alive(o)
  BY DEF Destruct
<1> PICK c \in Cells : c = pd[o]
  BY <1>1, AliveHas
<1>2. /\ c # Null /\ cell[c] # Null
      /\ heap' = Freed(heap, BlockOf(cell, c))
      /\ cell' = [cell EXCEPT ![c] = Null]
      /\ pd' = [pd EXCEPT ![o] = Null]
  BY <1>1, AliveHas, BufferAssumption DEF Destruct
<1>3. /\ heap' \in Heaps
      /\ BlocksOnce(cell', heap')
      /\ OthersShow(cell, heap, cell', heap', c)
  BY <1>0, <1>2, FreedTyped, DropKeeps, DropShows
<1>4. BufTypeOK'
  BY <1>0, <1>2, <1>3 DEF BufTypeOK
<1>5. pd'[o] = Null /\ \A q \in Objects \ {o} : pd'[q] = pd[q] /\ pd[q] # c
  BY <1>0, <1>2 DEF PartsOnce
<1>6. PartsOnce(pd', cell')
  <2>1. ASSUME NEW d \in Cells
        PROVE  cell'[d] # Null <=> \E q \in Objects : pd'[q] = d
    <3>1. CASE d = c
      BY <1>0, <1>2, <1>5, <3>1
    <3>2. CASE d # c
      BY <1>0, <1>2, <1>5, <3>2, BufferAssumption DEF PartsOnce
    <3> QED BY <3>1, <3>2
  <2> QED BY <1>0, <1>5, <2>1 DEF PartsOnce
<1>7. Shown'[o] = Null
  BY <1>5, ShownIs
<1>8. ASSUME NEW q \in Objects \ {o}
      PROVE  Shown'[q] = Shown[q]
  <2>1. pd[q] # Null => pd[q] \in Cells \ {c} /\ cell[pd[q]] # Null
    BY <1>0, <1>5 DEF PartsOnce
  <2> QED BY <1>3, <1>5, <2>1, ShownStays
<1>9. Shown' = [Shown EXCEPT ![o] = Null]
  BY <1>7, <1>8, ShownChanges
<1> QED
  BY <1>1, <1>3, <1>4, <1>6, <1>9, AliveExists DEF BufInv, AsValues!Unmake

\* x's part goes to o, and x gets the new part c, be it o itself.
LEMMA ShownTaken ==
    ASSUME BufInv, NEW o \in Objects, NEW x \in Objects,
           Shown'[x] = Bytes(0, Junk),
           o # x => Shown'[o] = Shown[x],
           \A q \in Objects \ {o, x} : Shown'[q] = Shown[q]
    PROVE  Shown' = [Shown EXCEPT ![o] = Shown[x], ![x] = AsValues!Uninitialised(0)]
BY UninitialisedBytes DEF Shown

\* A new private part without a block.
LEMMA EmptyReallocated ==
    ASSUME NEW cl \in [Cells -> Parts \cup {Null}], NEW hp \in Heaps,
           BlocksOnce(cl, hp), NEW c \in Cells, cl[c] = Null
    PROVE  Reallocated(cl, hp, c, 0, Junk, Null, [cl EXCEPT ![c] = EmptyPart], hp)
<1>1. Freed(hp, BlockOf(cl, c)) = hp
  BY FreedNothing DEF BlockOf
<1>2. Stored(hp, Null, 0, Junk) = hp
  BY BufferAssumption DEF Stored, Heaps
<1> QED BY <1>1, <1>2 DEF Reallocated, Mallocs, EmptyPart

\* Buffer(move(x)) takes the value of x (Buffer.cpp:28).
LEMMA MoveConstructSteps ==
    ASSUME BufInv, NEW o \in Objects, NEW x \in Objects, MoveConstruct(o, x)
    PROVE  BufInv' /\ AsValues!Take(o, x)
<1>0. /\ pd \in [Objects -> Cells \cup {Null}]
      /\ cell \in [Cells -> Parts \cup {Null}]
      /\ heap \in Heaps /\ PartsOnce(pd, cell) /\ BlocksOnce(cell, heap)
  BY DEF BufInv, BufTypeOK
<1>1. ~Alive(o) /\ Alive(x) /\ o # x /\ pd[o] = Null
  BY DEF MoveConstruct, Alive
<1>2. PICK c \in News :
        /\ pd' = [pd EXCEPT ![o] = pd[x], ![x] = c]
        /\ cell' = [cell EXCEPT ![c] = EmptyPart]
        /\ heap' = heap
  BY DEF MoveConstruct
<1>3. c \in Cells /\ cell[c] = Null /\ c # Null
  BY BufferAssumption DEF News
<1>4. Reallocated(cell, heap, c, 0, Junk, Null, cell', heap')
  BY <1>0, <1>2, <1>3, EmptyReallocated
<1>5. /\ BlocksOnce(cell', heap')
      /\ cell' \in [Cells -> Parts \cup {Null}]
      /\ heap' \in Heaps
  BY <1>4, ReplaceKeeps
<1>6. /\ PartShown(cell', heap', c) = Bytes(0, Junk)
      /\ OthersShow(cell, heap, cell', heap', c)
  BY <1>4, ReplaceShows
<1>7. /\ pd'[o] = pd[x] /\ pd'[x] = c
      /\ \A q \in Objects \ {o, x} : pd'[q] = pd[q]
  BY <1>0, <1>1, <1>2
<1>8. cell'[c] # Null /\ \A d \in Cells \ {c} : cell'[d] = cell[d]
  <2>1. EmptyPart \in Parts
    BY DEF EmptyPart, Parts
  <2> QED BY <1>0, <1>2, <1>3, <2>1, BufferAssumption
<1>9. \A q \in Objects : pd[q] # c /\ (pd[q] # Null => cell[pd[q]] # Null)
  BY <1>0, <1>3 DEF PartsOnce
<1>10. PartsOnce(pd', cell')
  <2>1. ASSUME NEW d \in Cells
        PROVE  cell'[d] # Null <=> \E q \in Objects : pd'[q] = d
    <3>1. CASE d = c
      BY <1>7, <1>8, <3>1
    <3>2. CASE d # c /\ d = pd[x]
      BY <1>7, <1>8, <1>9, <3>2, BufferAssumption
    <3>3. CASE d # c /\ d # pd[x]
      <4>1. cell'[d] # Null <=> \E q \in Objects : pd[q] = d
        BY <1>0, <1>8, <3>3 DEF PartsOnce
      <4>2. d # Null
        BY BufferAssumption
      <4> QED BY <1>1, <1>7, <3>3, <4>1, <4>2
    <3> QED BY <3>1, <3>2, <3>3
  <2>2. ASSUME NEW q \in Objects, NEW r \in Objects, pd'[q] # Null, pd'[q] = pd'[r]
        PROVE  q = r
    BY <1>0, <1>1, <1>7, <1>9, <2>2 DEF PartsOnce
  <2> QED BY <2>1, <2>2 DEF PartsOnce
<1>11. BufTypeOK'
  BY <1>0, <1>2, <1>3, <1>5 DEF BufTypeOK
<1>12. Shown'[x] = Bytes(0, Junk)
  BY <1>3, <1>6, <1>7, ShownIs
<1>13. Shown'[o] = Shown[x]
  BY <1>0, <1>6, <1>7, <1>9, ShownStays
<1>14. ASSUME NEW q \in Objects \ {o, x}
       PROVE  Shown'[q] = Shown[q]
  BY <1>0, <1>6, <1>7, <1>9, ShownStays
<1>15. Shown' = [Shown EXCEPT ![o] = Shown[x], ![x] = AsValues!Uninitialised(0)]
  BY <1>12, <1>13, <1>14, ShownTaken
<1> QED
  BY <1>1, <1>5, <1>10, <1>11, <1>15, AliveExists DEF BufInv, AsValues!Take

\* o = move(x) takes the value of x, and o = move(o) empties o (Buffer.cpp:51).
LEMMA MoveAssignSteps ==
    ASSUME BufInv, NEW o \in Objects, NEW x \in Objects, MoveAssign(o, x)
    PROVE  BufInv' /\ AsValues!Take(o, x)
<1>0. /\ pd \in [Objects -> Cells \cup {Null}]
      /\ cell \in [Cells -> Parts \cup {Null}]
      /\ heap \in Heaps /\ PartsOnce(pd, cell) /\ BlocksOnce(cell, heap)
  BY DEF BufInv, BufTypeOK
<1>1. Alive(o) /\ Alive(x)
  BY DEF MoveAssign
<1> PICK a \in Cells : a = pd[o]
  BY <1>1, AliveHas
<1> PICK b \in Cells : b = pd[x]
  BY <1>1, AliveHas
<1>2. /\ a # Null /\ cell[a] # Null /\ BlockOf(cell, a) = Part(o).ptr
      /\ b # Null /\ cell[b] # Null
  BY <1>1, AliveHas, BufferAssumption
<1>3. PICK c \in News \cup {a} :
        /\ cell' = [cell EXCEPT ![a] = Null, ![c] = EmptyPart]
        /\ pd' = [pd EXCEPT ![o] = b, ![x] = c]
  BY DEF MoveAssign
<1>4. c \in Cells /\ c # Null /\ (c = a \/ cell[c] = Null)
  BY BufferAssumption DEF News
<1> DEFINE mid == [cell EXCEPT ![a] = Null]
<1>5. /\ heap' = Freed(heap, BlockOf(cell, a))
      /\ mid \in [Cells -> Parts \cup {Null}] /\ mid[c] = Null
      /\ cell' = [mid EXCEPT ![c] = EmptyPart]
  BY <1>0, <1>2, <1>3, <1>4 DEF MoveAssign
<1>6. heap' \in Heaps /\ BlocksOnce(mid, heap') /\ OthersShow(cell, heap, mid, heap', a)
  BY <1>0, <1>5, FreedTyped, DropKeeps, DropShows
<1>7. \A d \in Cells : mid[d] = IF d = a THEN Null ELSE cell[d]
  BY <1>0
<1> HIDE DEF mid
<1>8. Reallocated(mid, heap', c, 0, Junk, Null, cell', heap')
  BY <1>4, <1>5, <1>6, EmptyReallocated
<1>9. /\ BlocksOnce(cell', heap')
      /\ cell' \in [Cells -> Parts \cup {Null}]
      /\ PartShown(cell', heap', c) = Bytes(0, Junk)
      /\ OthersShow(mid, heap', cell', heap', c)
  BY <1>8, ReplaceKeeps, ReplaceShows
<1>10. cell'[c] # Null /\ \A d \in Cells \ {c} : cell'[d] = IF d = a THEN Null ELSE cell[d]
  <2>1. EmptyPart \in Parts
    BY DEF EmptyPart, Parts
  <2> QED BY <1>4, <1>5, <1>7, <2>1, BufferAssumption
<1>11. /\ pd'[x] = c /\ (o # x => pd'[o] = b)
       /\ \A q \in Objects \ {o, x} : pd'[q] = pd[q]
  BY <1>0, <1>3
<1>12. \A q \in Objects \ {o} :
        /\ pd[q] # a /\ pd[q] # c
        /\ pd[q] # Null => cell[pd[q]] # Null
  BY <1>0, <1>2, <1>4 DEF PartsOnce
<1>13. PartsOnce(pd', cell')
  <2>1. ASSUME NEW d \in Cells
        PROVE  cell'[d] # Null <=> \E q \in Objects : pd'[q] = d
    <3>0. d # Null
      BY BufferAssumption
    <3>1. CASE d = c
      BY <1>10, <1>11, <3>1
    <3>2. CASE d # c /\ d = a
      BY <1>10, <1>11, <1>12, <3>2
    <3>3. CASE d # c /\ d # a /\ d = b
      BY <1>2, <1>10, <1>11, <3>3
    <3>4. CASE d # c /\ d # a /\ d # b
      <4>1. cell'[d] # Null <=> \E q \in Objects : pd[q] = d
        BY <1>0, <1>10, <3>4 DEF PartsOnce
      <4> QED BY <1>11, <3>4, <4>1
    <3> QED BY <3>1, <3>2, <3>3, <3>4
  <2>2. ASSUME NEW q \in Objects, NEW r \in Objects, pd'[q] # Null, pd'[q] = pd'[r]
        PROVE  q = r
    BY <1>0, <1>11, <1>12, <2>2 DEF PartsOnce
  <2> QED BY <2>1, <2>2 DEF PartsOnce
<1>14. BufTypeOK'
  BY <1>0, <1>3, <1>4, <1>6, <1>9 DEF BufTypeOK
<1>15. Shown'[x] = Bytes(0, Junk)
  BY <1>4, <1>9, <1>11, ShownIs
<1>16. ASSUME NEW q \in Objects, NEW r \in Objects \ {o}, pd'[q] = pd[r]
       PROVE  Shown'[q] = Shown[r]
  <2>1. CASE pd[r] = Null
    BY <1>16, <2>1, ShownIs
  <2>2. CASE pd[r] # Null
    <3>1. pd[r] \in Cells \ {a, c} /\ cell[pd[r]] # Null /\ mid[pd[r]] # Null
      BY <1>0, <1>7, <1>12, <2>2
    <3>2. PartShown(cell', heap', pd[r]) = PartShown(cell, heap, pd[r])
      BY <1>6, <1>9, <3>1 DEF OthersShow, PartShown
    <3> QED BY <1>16, <2>2, <3>2 DEF Shown, PartShown, Alive, Part
  <2> QED BY <2>1, <2>2
<1>17. Shown' = [Shown EXCEPT ![o] = Shown[x], ![x] = AsValues!Uninitialised(0)]
  BY <1>11, <1>15, <1>16, ShownTaken
<1> QED
  BY <1>1, <1>6, <1>9, <1>13, <1>14, <1>17, AliveExists DEF BufInv, AsValues!Take

\* swap() exchanges the values (Buffer.cpp:101).
LEMMA SwapPartsSteps ==
    ASSUME BufInv, NEW o \in Objects, NEW x \in Objects, SwapParts(o, x)
    PROVE  BufInv' /\ AsValues!Exchange(o, x)
<1>0. /\ pd \in [Objects -> Cells \cup {Null}]
      /\ PartsOnce(pd, cell) /\ BlocksOnce(cell, heap)
  BY DEF BufInv, BufTypeOK
<1>1. /\ Alive(o) /\ Alive(x)
      /\ pd' = [pd EXCEPT ![o] = pd[x], ![x] = pd[o]]
      /\ cell' = cell /\ heap' = heap
  BY DEF SwapParts
<1>2. \A q \in Objects : pd'[q] = IF q = x THEN pd[o] ELSE IF q = o THEN pd[x] ELSE pd[q]
  BY <1>0, <1>1
<1>3. PartsOnce(pd', cell')
  <2>1. ASSUME NEW d \in Cells
        PROVE  cell'[d] # Null <=> \E q \in Objects : pd'[q] = d
    <3>1. (\E q \in Objects : pd'[q] = d) <=> \E q \in Objects : pd[q] = d
      BY <1>2
    <3> QED BY <1>0, <1>1, <3>1 DEF PartsOnce
  <2>2. ASSUME NEW q \in Objects, NEW r \in Objects, pd'[q] # Null, pd'[q] = pd'[r]
        PROVE  q = r
    BY <1>0, <1>2, <2>2 DEF PartsOnce
  <2> QED BY <2>1, <2>2 DEF PartsOnce
<1>4. BufInv'
  BY <1>0, <1>1, <1>3 DEF BufInv, BufTypeOK
<1>5. \A q \in Objects :
        Shown'[q] = IF q = x THEN Shown[o] ELSE IF q = o THEN Shown[x] ELSE Shown[q]
  BY <1>1, <1>2 DEF Shown, Alive, Part
<1>6. Shown' = [Shown EXCEPT ![o] = Shown[x], ![x] = Shown[o]]
  BY <1>5 DEF Shown
<1> QED BY <1>1, <1>4, <1>6, AliveExists DEF AsValues!Exchange

\* What is written through data() is seen by one object only (Buffer.cpp:70).
LEMMA FillSteps ==
    ASSUME BufInv, NEW o \in Objects, NEW v \in Values, Fill(o, v)
    PROVE  BufInv' /\ AsValues!Write(o, v)
<1>0. /\ cell \in [Cells -> Parts \cup {Null}] /\ heap \in Heaps
      /\ PartsOnce(pd, cell) /\ BlocksOnce(cell, heap)
  BY DEF BufInv, BufTypeOK
<1>1. Alive(o) /\ Part(o).ptr # Null /\ pd' = pd /\ cell' = cell
  BY DEF Fill
<1> PICK c \in Cells : c = pd[o]
  BY <1>1, AliveHas
<1> PICK p \in Blocks : p = Part(o).ptr
  BY <1>1, AliveHas DEF Part
<1>2. cell[c] # Null /\ cell[c].ptr = p /\ Part(o).size = cell[c].size
  BY <1>1, AliveHas DEF Part
<1>3. heap[p] # Null /\ heap[p] \in Memory /\ heap[p].size # 0
  BY <1>0, <1>2 DEF BlocksOnce, Heaps
<1>4. cell[c].size = heap[p].size
  BY <1>0, <1>1, <1>2 DEF BlocksOnce
<1> PICK n \in Nat : n = heap[p].size
  BY <1>3 DEF Memory
<1>5. heap' = [heap EXCEPT ![p] = [size |-> n, holds |-> v]]
  <2>1. [heap[p] EXCEPT !.holds = v] = [size |-> n, holds |-> v]
    BY <1>3 DEF Memory
  <2>2. heap' = [heap EXCEPT ![p] = [heap[p] EXCEPT !.holds = v]]
    BY DEF Fill
  <2> QED BY <2>1, <2>2
<1>6. [size |-> n, holds |-> v] \in {m \in Memory : m.size # 0}
  BY <1>3 DEF Memory
<1>7. heap' \in Heaps
  BY <1>0, <1>5, <1>6 DEF Heaps
<1>8. \A q \in Blocks : /\ heap'[q] # Null <=> heap[q] # Null
                        /\ heap[q] # Null => heap'[q].size = heap[q].size
                        /\ q # p => heap'[q] = heap[q]
  BY <1>0, <1>3, <1>5, <1>6, BufferAssumption DEF Heaps
<1>9. BlocksOnce(cell', heap')
  <2>1. \A d \in Cells : cell[d] # Null /\ cell[d].ptr # Null =>
            cell[d].ptr \in Blocks /\ heap[cell[d].ptr] # Null
    BY <1>0 DEF BlocksOnce, Parts
  <2> QED BY <1>0, <1>1, <1>8, <2>1 DEF BlocksOnce
<1>10. BufInv'
  BY <1>0, <1>1, <1>7, <1>9 DEF BufInv, BufTypeOK
<1>11. Shown[o].size = n
  BY <1>1, <1>2, <1>4 DEF Shown
<1>12. Shown'[o] = [size |-> n, holds |-> v]
  BY <1>0, <1>1, <1>2, <1>4, <1>5 DEF Shown, Alive, Part, Holds, Heaps
<1>13. ASSUME NEW q \in Objects \ {o}
       PROVE  Shown'[q] = Shown[q]
  <2>1. CASE pd[q] = Null
    BY <1>1, <2>1 DEF Shown, Alive
  <2>2. CASE pd[q] # Null
    <3>1. /\ pd[q] \in Cells /\ pd[q] # c /\ cell[pd[q]] # Null
          /\ cell[pd[q]].ptr \in Blocks \cup {Null}
      BY <1>0, <1>1, <2>2, AliveHas DEF PartsOnce, Alive
    <3>2. cell[pd[q]].ptr # p
      BY <1>0, <1>2, <3>1, BufferAssumption DEF BlocksOnce
    <3> QED BY <1>1, <1>8, <3>1, <3>2 DEF Shown, Alive, Part, Holds
  <2> QED BY <2>1, <2>2
<1>14. Shown' = [Shown EXCEPT ![o] = [size |-> n, holds |-> v]]
  BY <1>12, <1>13, ShownChanges
<1> QED
  BY <1>1, <1>3, <1>10, <1>11, <1>14, AliveExists DEF AsValues!Write, AsValues!Value

\* Every step keeps the invariant.
LEMMA StepBufInv == BufInv /\ [BufNext]_bufVars => BufInv'
<1> SUFFICES ASSUME BufInv, [BufNext]_bufVars PROVE BufInv'
  OBVIOUS
<1>1. CASE UNCHANGED bufVars
  BY <1>1 DEF bufVars, BufInv, BufTypeOK
<1>2. CASE BufNext
  <2> PICK o \in Objects :
        \/ \E n \in Lengths : Construct(o, n) \/ Alloc(o, n)
        \/ \E x \in Objects :
            \/ CopyConstruct(o, x) \/ MoveConstruct(o, x)
            \/ CopyAssign(o, x) \/ MoveAssign(o, x)
            \/ SwapParts(o, x)
        \/ Free(o) \/ Destruct(o)
        \/ \E v \in Values : Fill(o, v)
    BY <1>2 DEF BufNext
  <2>1. ASSUME NEW n \in Lengths, Construct(o, n) \/ Alloc(o, n) PROVE BufInv'
    BY <2>1, ConstructSteps, AllocSteps
  <2>2. ASSUME NEW x \in Objects,
               CopyConstruct(o, x) \/ MoveConstruct(o, x) \/ CopyAssign(o, x)
                 \/ MoveAssign(o, x) \/ SwapParts(o, x)
        PROVE  BufInv'
    BY <2>2, CopyConstructSteps, MoveConstructSteps, CopyAssignSteps,
       MoveAssignSteps, SwapPartsSteps
  <2>3. ASSUME Free(o) \/ Destruct(o) PROVE BufInv'
    BY <2>3, FreeSteps, DestructSteps
  <2>4. ASSUME NEW v \in Values, Fill(o, v) PROVE BufInv'
    BY <2>4, FillSteps
  <2> QED BY <2>1, <2>2, <2>3, <2>4
<1> QED BY <1>1, <1>2

\* The two levels of ownership, and the types, hold in every state of a program
\* with Buffer objects.
THEOREM BufInvariance == BufSpec => []BufInv
BY InitBufInv, StepBufInv, PTL DEF BufSpec

\* pd, cell and heap keep their types (Buffer.cpp:10).
THEOREM BufTypeCorrect == BufSpec => []BufTypeOK
<1>1. BufInv => BufTypeOK
  BY DEF BufInv
<1> QED BY <1>1, BufInvariance, PTL

\* Every private part has one object and every block one private part, whatever
\* is constructed, copied, moved, swapped and destroyed in whatever order
\* (Buffer.cpp:16-107): for any number of objects and any sizes.
THEOREM PartsAreOwnedOnce == BufSpec => []OwnedOnce
<1>1. BufInv => OwnedOnce
  BY TwoLevels DEF BufInv
<1> QED BY <1>1, BufInvariance, PTL

\* Every call does to the values of the objects what its counterpart does.
LEMMA CallsSimulateStep == BufInv => CallsSimulate
<1> SUFFICES ASSUME BufInv, NEW o \in Objects
             PROVE  /\ \A n \in Lengths :
                        /\ Construct(o, n) => AsValues!Make(o, n)
                        /\ Alloc(o, n) => AsValues!Resize(o, n)
                    /\ Free(o) => AsValues!Resize(o, 0)
                    /\ Destruct(o) => AsValues!Unmake(o)
                    /\ \A v \in Values : Fill(o, v) => AsValues!Write(o, v)
                    /\ CopyAssign(o, o) => AsValues!DuplicateSelf(o)
                    /\ \A x \in Objects \ {o} :
                        CopyConstruct(o, x) \/ CopyAssign(o, x) =>
                            AsValues!Duplicate(o, x)
                    /\ \A x \in Objects :
                        /\ MoveConstruct(o, x) \/ MoveAssign(o, x) =>
                            AsValues!Take(o, x)
                        /\ SwapParts(o, x) => AsValues!Exchange(o, x)
  BY DEF CallsSimulate
<1>1. \A n \in Lengths : /\ Construct(o, n) => AsValues!Make(o, n)
                         /\ Alloc(o, n) => AsValues!Resize(o, n)
  BY ConstructSteps, AllocSteps
<1>2. /\ Free(o) => AsValues!Resize(o, 0)
      /\ Destruct(o) => AsValues!Unmake(o)
  BY FreeSteps, DestructSteps
<1>3. \A v \in Values : Fill(o, v) => AsValues!Write(o, v)
  BY FillSteps
<1>4. CopyAssign(o, o) => AsValues!DuplicateSelf(o)
  BY CopyAssignSteps
<1>5. \A x \in Objects \ {o} :
        CopyConstruct(o, x) \/ CopyAssign(o, x) => AsValues!Duplicate(o, x)
  BY CopyConstructSteps, CopyAssignSteps
<1>6. \A x \in Objects :
        /\ MoveConstruct(o, x) \/ MoveAssign(o, x) => AsValues!Take(o, x)
        /\ SwapParts(o, x) => AsValues!Exchange(o, x)
  BY MoveConstructSteps, MoveAssignSteps, SwapPartsSteps
<1> QED BY <1>1, <1>2, <1>3, <1>4, <1>5, <1>6

\* No object has a value at first.
LEMMA InitShown == BufInit => AsValues!ValueInit
BY DEF BufInit, AsValues!ValueInit, Shown, Alive

\* The objects behave as if each had a value of its own, call by call: a copy is
\* independent of its original, a moved object empty, and an object assigned to
\* itself keeps its size but not its contents (Buffer.cpp:22-60).
THEOREM BuffersAreValues == BufSpec => ImplementsValue
<1>1. BufInv => [CallsSimulate]_bufVars
  BY CallsSimulateStep
<1> QED
  BY <1>1, InitShown, BufInvariance, PTL DEF BufSpec, ImplementsValue

\* The specification of the values is implemented.
THEOREM ValuesImplemented == BufSpec => AsValues!ValueSpec
<1>1. BufInv /\ [BufNext]_bufVars => [AsValues!ValueNext]_Shown
  <2> SUFFICES ASSUME BufInv, [BufNext]_bufVars PROVE [AsValues!ValueNext]_Shown
    OBVIOUS
  <2>1. CASE UNCHANGED bufVars
    BY <2>1 DEF bufVars, Shown, Alive, Part, Holds
  <2>2. CASE BufNext
    <3> PICK o \in Objects :
          \/ \E n \in Lengths : Construct(o, n) \/ Alloc(o, n)
          \/ \E x \in Objects :
              \/ CopyConstruct(o, x) \/ MoveConstruct(o, x)
              \/ CopyAssign(o, x) \/ MoveAssign(o, x)
              \/ SwapParts(o, x)
          \/ Free(o) \/ Destruct(o)
          \/ \E v \in Values : Fill(o, v)
      BY <2>2 DEF BufNext
    <3> USE DEF AsValues!ValueNext
    <3>1. ASSUME NEW n \in Lengths, Construct(o, n) \/ Alloc(o, n)
          PROVE  AsValues!ValueNext
      BY <3>1, ConstructSteps, AllocSteps
    <3>2. ASSUME NEW x \in Objects, MoveConstruct(o, x) \/ MoveAssign(o, x)
                                      \/ SwapParts(o, x)
          PROVE  AsValues!ValueNext
      BY <3>2, MoveConstructSteps, MoveAssignSteps, SwapPartsSteps
    <3>3. ASSUME NEW x \in Objects, CopyConstruct(o, x) \/ CopyAssign(o, x)
          PROVE  AsValues!ValueNext
      BY <3>3, CopyConstructSteps, CopyAssignSteps
    <3>4. ASSUME Free(o) \/ Destruct(o) PROVE AsValues!ValueNext
      BY <3>4, FreeSteps, DestructSteps
    <3>5. ASSUME NEW v \in Values, Fill(o, v) PROVE AsValues!ValueNext
      BY <3>5, FillSteps
    <3> QED BY <3>1, <3>2, <3>3, <3>4, <3>5
  <2> QED BY <2>1, <2>2
<1> QED
  BY <1>1, InitShown, BufInvariance, PTL DEF BufSpec, AsValues!ValueSpec

------------------------------------------------------------------------------
\* Descriptors.

OwnTypeOK ==
    /\ fd \in [Sockets -> Descriptors \cup {-1}]
    /\ closeOnDelete \in [Sockets -> BOOLEAN]
    /\ living \subseteq Sockets
    /\ table \in [Descriptors -> Nat]
    /\ made \in Nat
    /\ gotten \in [Sockets -> Nat]
    /\ closedOnce \subseteq Sockets /\ excused \subseteq Descriptors
    /\ shared \in BOOLEAN

\* An object that has ended has no descriptor, and one that will not close its
\* descriptor was close()d or is what accept() returned.
DutyIsKept ==
    /\ \A o \in Sockets \ living : fd[o] = -1
    /\ \A o \in living : closeOnDelete[o] \/ o \in closedOnce

\* A descriptor was given to its object with a socket, and without copies no two
\* objects have the same.
HeldAlone ==
    /\ \A o \in Sockets : fd[o] # -1 => gotten[o] # 0
    /\ ~shared => \A o, x \in Sockets : fd[o] # -1 /\ fd[o] = fd[x] => o = x

\* The inductive invariant.
OwnInv == OwnTypeOK /\ DutyIsKept /\ HeldAlone /\ HeldIsOwn /\ LossIsExcused

\* -1 is no descriptor.
LEMMA NotADescriptor == -1 \notin Descriptors
BY WsOwnerAssumption DEF Descriptors

\* No object has a descriptor at first.
LEMMA InitOwnInv == OwnInit => OwnInv
<1> SUFFICES ASSUME OwnInit PROVE OwnInv
  OBVIOUS
<1> USE NotADescriptor DEF OwnInit
<1>1. OwnTypeOK
  BY DEF OwnTypeOK
<1>2. DutyIsKept /\ HeldAlone
  BY DEF DutyIsKept, HeldAlone
<1>3. HeldIsOwn /\ LossIsExcused
  BY DEF HeldIsOwn, LossIsExcused
<1> QED BY <1>1, <1>2, <1>3 DEF OwnInv

\* A new socket: bind() and accept().  The object o gets descriptor d, which was
\* free, and what it had is excused.
Given(o, d) ==
    /\ d \in Descriptors /\ table[d] = 0
    /\ made' = made + 1
    /\ table' = [table EXCEPT ![d] = made']
    /\ fd' = [fd EXCEPT ![o] = d]
    /\ gotten' = [gotten EXCEPT ![o] = made']
    /\ excused' = IF fd[o] = -1 THEN excused ELSE excused \cup {fd[o]}
    /\ shared' = shared
    /\ living' = living \cup {o}

\* bind() and accept() keep the invariant.
LEMMA GivenKeeps ==
    ASSUME OwnInv, NEW o \in Sockets, NEW d \in Descriptors, Given(o, d)
    PROVE  HeldAlone' /\ HeldIsOwn' /\ LossIsExcused'
<1> USE NotADescriptor
<1>0. OwnTypeOK /\ DutyIsKept /\ HeldAlone /\ HeldIsOwn /\ LossIsExcused
  BY DEF OwnInv
<1>1. /\ fd'[o] = d /\ \A x \in Sockets \ {o} : fd'[x] = fd[x]
      /\ gotten'[o] = made + 1 /\ \A x \in Sockets \ {o} : gotten'[x] = gotten[x]
      /\ table'[d] = made + 1 /\ \A e \in Descriptors \ {d} : table'[e] = table[e]
      /\ table[d] = 0 /\ made \in Nat /\ made + 1 # 0
      /\ shared' = shared /\ living' = living \cup {o}
  BY <1>0 DEF Given, OwnTypeOK
<1>2. ~shared => \A x \in Sockets : fd[x] # d
  BY <1>0, <1>1 DEF OwnTypeOK, DutyIsKept, HeldAlone, HeldIsOwn
<1>3. HeldAlone'
  BY <1>0, <1>1, <1>2 DEF HeldAlone
<1>4. HeldIsOwn'
  BY <1>0, <1>1, <1>2 DEF OwnTypeOK, HeldIsOwn
<1>5. LossIsExcused'
  <2> SUFFICES ASSUME ~shared, NEW e \in Descriptors, table'[e] # 0
               PROVE  e \in excused' \/ \E x \in living' : fd'[x] = e
    BY <1>1 DEF LossIsExcused
  <2>1. CASE e = d
    BY <1>1, <2>1
  <2>2. CASE e # d /\ e = fd[o]
    BY <2>2 DEF Given
  <2>3. CASE e # d /\ e # fd[o]
    BY <1>0, <1>1, <2>3 DEF Given, LossIsExcused, OwnTypeOK
  <2> QED BY <2>1, <2>2, <2>3
<1> QED BY <1>3, <1>4, <1>5

\* The object o has no descriptor any more: it was closed, or it is excused.
Relieved(o) ==
    /\ fd' = [fd EXCEPT ![o] = -1]
    /\ \/ table' = Released(fd[o]) /\ excused' = excused \ {fd[o]}
       \/ table' = table /\ Lost(o)
    /\ gotten' = gotten /\ shared' = shared
    /\ living' \subseteq Sockets
    /\ living \cup {o} = living' \cup {o}

\* close(), the destructor, a failed bind() and fd = -1 keep it.
LEMMA RelievedKeeps ==
    ASSUME OwnInv, NEW o \in Sockets, Relieved(o)
    PROVE  HeldAlone' /\ HeldIsOwn' /\ LossIsExcused'
<1> USE NotADescriptor
<1>0. OwnTypeOK /\ DutyIsKept /\ HeldAlone /\ HeldIsOwn /\ LossIsExcused
  BY DEF OwnInv
<1>1. /\ fd'[o] = -1 /\ \A x \in Sockets \ {o} : fd'[x] = fd[x]
      /\ gotten' = gotten /\ shared' = shared
      /\ \A x \in Sockets \ {o} : x \in living' <=> x \in living
      /\ living' \subseteq Sockets
  BY <1>0 DEF Relieved, OwnTypeOK
<1>2. /\ \A e \in Descriptors : e # fd[o] => table'[e] = table[e]
      /\ \A e \in Descriptors : table'[e] # 0 => table[e] # 0
      /\ \A e \in Descriptors : e = fd[o] => e \in excused' \/ table'[e] = 0
      /\ \A e \in Descriptors : e # fd[o] /\ e \in excused => e \in excused'
  BY <1>0 DEF Relieved, Released, Lost, OwnTypeOK
<1>3. HeldAlone'
  BY <1>0, <1>1 DEF HeldAlone
<1>4. HeldIsOwn'
  BY <1>0, <1>1, <1>2 DEF OwnTypeOK, HeldAlone, HeldIsOwn
<1>5. LossIsExcused'
  BY <1>0, <1>1, <1>2 DEF OwnTypeOK, LossIsExcused
<1> QED BY <1>3, <1>4, <1>5

\* The object o gets the descriptor of p, and what o had is excused.
Copied(o, p) ==
    /\ fd' = [fd EXCEPT ![o] = fd[p]]
    /\ gotten' = [gotten EXCEPT ![o] = gotten[p]]
    /\ shared' = (shared \/ (fd[p] # -1 /\ o # p))
    /\ table' = table
    /\ excused \subseteq excused'
    /\ fd[o] = -1 \/ fd[o] = fd[p] \/ fd[o] \in excused'
    /\ living' = living \cup {o}

\* Copies and assignments keep it.
LEMMA CopiedKeeps ==
    ASSUME OwnInv, NEW o \in Sockets, NEW p \in living, Copied(o, p)
    PROVE  HeldAlone' /\ HeldIsOwn' /\ LossIsExcused'
<1> USE NotADescriptor
<1>0. OwnTypeOK /\ DutyIsKept /\ HeldAlone /\ HeldIsOwn /\ LossIsExcused
  BY DEF OwnInv
<1>1. /\ p \in Sockets
      /\ fd'[o] = fd[p] /\ \A x \in Sockets \ {o} : fd'[x] = fd[x]
      /\ gotten'[o] = gotten[p] /\ \A x \in Sockets \ {o} : gotten'[x] = gotten[x]
      /\ ~shared' => ~shared /\ (fd[p] = -1 \/ o = p)
      /\ table' = table /\ living' = living \cup {o}
  BY <1>0 DEF Copied, OwnTypeOK
<1>2. HeldAlone'
  <2>1. ASSUME NEW x \in Sockets, fd'[x] # -1 PROVE gotten'[x] # 0
    BY <1>0, <1>1, <2>1 DEF HeldAlone
  <2>2. ASSUME ~shared', NEW x \in Sockets, NEW y \in Sockets,
               fd'[x] # -1, fd'[x] = fd'[y]
        PROVE  x = y
    BY <1>0, <1>1, <2>2 DEF HeldAlone
  <2> QED BY <2>1, <2>2 DEF HeldAlone
<1>3. HeldIsOwn'
  BY <1>0, <1>1 DEF OwnTypeOK, HeldIsOwn
<1>4. LossIsExcused'
  <2> SUFFICES ASSUME ~shared', NEW e \in Descriptors, table[e] # 0
               PROVE  e \in excused' \/ \E x \in living' : fd'[x] = e
    BY <1>1 DEF LossIsExcused
  <2>1. CASE e \in excused
    BY <2>1 DEF Copied
  <2>2. ASSUME NEW x \in living, fd[x] = e
        PROVE  e \in excused' \/ \E y \in living' : fd'[y] = e
    <3>1. CASE x = o
      BY <1>1, <2>2, <3>1 DEF Copied
    <3>2. CASE x # o
      BY <1>0, <1>1, <2>2, <3>2 DEF OwnTypeOK
    <3> QED BY <3>1, <3>2
  <2> QED BY <1>0, <1>1, <2>1, <2>2 DEF LossIsExcused
<1> QED BY <1>2, <1>3, <1>4

\* Every step keeps it.
LEMMA StepOwnInv == OwnInv /\ [OwnNext]_ownVars => OwnInv'
<1> SUFFICES ASSUME OwnInv, [OwnNext]_ownVars PROVE OwnInv'
  OBVIOUS
<1> USE NotADescriptor
<1>0. OwnTypeOK /\ DutyIsKept /\ HeldAlone /\ HeldIsOwn /\ LossIsExcused
  BY DEF OwnInv
<1>u. ASSUME UNCHANGED ownVars PROVE OwnInv'
  BY <1>0, <1>u DEF OwnInv, ownVars, ownHistory, OwnTypeOK, DutyIsKept, HeldAlone,
     HeldIsOwn, LossIsExcused
<1>1. ASSUME NEW o \in Sockets, OwnConstruct(o) PROVE OwnInv'
  <2>1. fd' = fd
    BY <1>0, <1>1 DEF OwnConstruct, OwnTypeOK, DutyIsKept
  <2>2. OwnTypeOK' /\ DutyIsKept'
    BY <1>0, <1>1, <2>1 DEF OwnConstruct, OwnTypeOK, DutyIsKept
  <2>3. HeldAlone'
    BY <1>0, <1>1, <2>1 DEF OwnConstruct, HeldAlone
  <2>4. HeldIsOwn' /\ LossIsExcused'
    BY <1>0, <1>1, <2>1 DEF OwnConstruct, DutyIsKept, HeldIsOwn, LossIsExcused
  <2> QED BY <2>2, <2>3, <2>4 DEF OwnInv
<1>2. ASSUME NEW o \in Sockets, Bind(o) PROVE OwnInv'
  <2> PICK d \in Descriptors : Makes(d) /\ fd' = [fd EXCEPT ![o] = d]
    BY <1>2 DEF Bind
  <2>1. Given(o, d)
    BY <1>0, <1>2 DEF Bind, Given, Makes, FreeDescriptors, Lost
  <2>2. OwnTypeOK' /\ DutyIsKept'
    BY <1>0, <1>2 DEF Bind, Makes, Lost, OwnTypeOK, DutyIsKept
  <2> QED BY <2>1, <2>2, GivenKeeps DEF OwnInv
<1>3. ASSUME NEW o \in Sockets, BindFails(o) PROVE OwnInv'
  <2>1. Relieved(o)
    BY <1>0, <1>3 DEF BindFails, Relieved, OwnTypeOK
  <2>2. OwnTypeOK' /\ DutyIsKept'
    BY <1>0, <1>3 DEF BindFails, Lost, OwnTypeOK, DutyIsKept
  <2> QED BY <2>1, <2>2, RelievedKeeps DEF OwnInv
<1>4. ASSUME NEW l \in Sockets, AcceptFails(l) PROVE OwnInv'
  BY <1>u, <1>4 DEF AcceptFails
<1>5. ASSUME NEW o \in Sockets, OwnClose(o) PROVE OwnInv'
  <2>1. Relieved(o)
    BY <1>0, <1>5 DEF OwnClose, Relieved, OwnTypeOK
  <2>2. OwnTypeOK' /\ DutyIsKept'
    BY <1>0, <1>5 DEF OwnClose, Released, OwnTypeOK, DutyIsKept
  <2> QED BY <2>1, <2>2, RelievedKeeps DEF OwnInv
<1>6. ASSUME NEW o \in Sockets, Destroy(o) PROVE OwnInv'
  <2>1. Relieved(o)
    BY <1>0, <1>6 DEF Destroy, Relieved, OwnTypeOK, DutyIsKept
  <2>2. OwnTypeOK' /\ DutyIsKept'
    BY <1>0, <1>6 DEF Destroy, Released, Lost, OwnTypeOK, DutyIsKept
  <2> QED BY <2>1, <2>2, RelievedKeeps DEF OwnInv
<1>7. ASSUME NEW o \in Sockets, Forget(o) PROVE OwnInv'
  <2>1. Relieved(o)
    BY <1>0, <1>7 DEF Forget, Relieved, OwnTypeOK
  <2>2. OwnTypeOK' /\ DutyIsKept'
    BY <1>0, <1>7 DEF Forget, Lost, OwnTypeOK, DutyIsKept
  <2> QED BY <2>1, <2>2, RelievedKeeps DEF OwnInv
<1>8. ASSUME NEW l \in Sockets, NEW o \in Sockets, AcceptAssign(l, o) PROVE OwnInv'
  <2> PICK d \in Descriptors : Makes(d) /\ fd' = [fd EXCEPT ![o] = d]
    BY <1>8 DEF AcceptAssign
  <2>1. Given(o, d)
    BY <1>0, <1>8 DEF AcceptAssign, Given, Makes, FreeDescriptors, Lost
  <2>2. OwnTypeOK' /\ DutyIsKept'
    BY <1>0, <1>8 DEF AcceptAssign, Makes, Lost, OwnTypeOK, DutyIsKept
  <2> QED BY <2>1, <2>2, GivenKeeps DEF OwnInv
<1>9. ASSUME NEW l \in Sockets, NEW o \in Sockets, AcceptConstruct(l, o) PROVE OwnInv'
  <2> PICK d \in Descriptors : Makes(d) /\ fd' = [fd EXCEPT ![o] = d]
    BY <1>9 DEF AcceptConstruct
  <2>1. Given(o, d)
    BY <1>0, <1>9 DEF AcceptConstruct, Given, Makes, FreeDescriptors, DutyIsKept
  <2>2. OwnTypeOK' /\ DutyIsKept'
    BY <1>0, <1>9 DEF AcceptConstruct, Makes, OwnTypeOK, DutyIsKept
  <2> QED BY <2>1, <2>2, GivenKeeps DEF OwnInv
<1>10. ASSUME NEW o \in Sockets, NEW p \in Sockets, OwnCopyConstruct(o, p)
       PROVE  OwnInv'
  <2>1. p \in living /\ Copied(o, p)
    BY <1>0, <1>10 DEF OwnCopyConstruct, TakeFd, Copied, DutyIsKept
  <2>2. OwnTypeOK' /\ DutyIsKept'
    BY <1>0, <1>10 DEF OwnCopyConstruct, TakeFd, OwnTypeOK, DutyIsKept
  <2> QED BY <2>1, <2>2, CopiedKeeps DEF OwnInv
<1>11. ASSUME NEW o \in Sockets, NEW p \in Sockets, OwnCopyAssign(o, p)
       PROVE  OwnInv'
  <2>1. p \in living /\ Copied(o, p)
    BY <1>0, <1>11 DEF OwnCopyAssign, TakeFd, Copied, Lost, OwnTypeOK
  <2>2. OwnTypeOK' /\ DutyIsKept'
    BY <1>0, <1>11 DEF OwnCopyAssign, TakeFd, Lost, OwnTypeOK, DutyIsKept
  <2> QED BY <2>1, <2>2, CopiedKeeps DEF OwnInv
<1> QED
  BY <1>u, <1>1, <1>2, <1>3, <1>4, <1>5, <1>6, <1>7, <1>8, <1>9, <1>10, <1>11
  DEF OwnNext

\* The invariant of the descriptors holds in every state.
THEOREM OwnInvariance == OwnSpec => []OwnInv
BY InitOwnInv, StepOwnInv, PTL DEF OwnSpec

\* The descriptors, the objects and the table of the process keep their types.
THEOREM OwnTypeCorrect == OwnSpec => []OwnTypeOK
<1>1. OwnInv => OwnTypeOK
  BY DEF OwnInv
<1> QED BY <1>1, OwnInvariance, PTL

\* In a program that copies no object with a descriptor, nobody closes the socket
\* of another one, and no number is kept beyond its socket, for any number of
\* objects and descriptors (WebSocket.cpp:30-134).
THEOREM HeldIsOwned == OwnSpec => []HeldIsOwn
<1>1. OwnInv => HeldIsOwn
  BY DEF OwnInv
<1> QED BY <1>1, OwnInvariance, PTL

\* Such a program loses a descriptor in a destructor only where the object was
\* close()d or is what accept() returned (WebSocket.cpp:37-40, 106, 132).
THEOREM LossesAreExcused == OwnSpec => []LossIsExcused
<1>1. OwnInv => LossIsExcused
  BY DEF OwnInv
<1> QED BY <1>1, OwnInvariance, PTL
================================================================================

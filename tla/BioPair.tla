-------------------------------- MODULE BioPair --------------------------------
(***************************************************************************)
(* Who owns the BIOs of ashe::Base64Encoder and ashe::Base64Decoder.       *)
(*                                                                         *)
(* Both have the same open() and close() (src/Base64Encoder.cpp:26-75,     *)
(* src/Base64Decoder.cpp:27-76): open() makes a filter and a memory as     *)
(* BIOs of its own, and gives them to the object only when nothing can     *)
(* fail any more.  Here the BIOs have identities and open() has steps;     *)
(* what goes through the filters is for modules Base64Encoder and          *)
(* Base64Decoder.                                                          *)
(***************************************************************************)
CONSTANTS Bios,    \* the BIOs that BIO_new() can return
          NoBio    \* the null pointer

ASSUME BioAssumption == NoBio \notin Bios

VARIABLES opening,     \* the call that open() makes next; "no" outside of it
          member,      \* __pd->b64 and __pd->bio
          local,       \* b64 and bio of open()
          pushed,      \* the BIO behind each, or null
          allocated,   \* BIOs that are not freed
          loaded,      \* __lashe::openssl is not null
          abandoned,   \* history: members when close() found no library
          misfreed     \* history: a BIO was freed that was not allocated

pairVars == <<opening, member, local, pushed, allocated, loaded, abandoned, misfreed>>

MaybeBios == Bios \cup {NoBio}

NoPair == [b64 |-> NoBio, bio |-> NoBio]

\* The BIOs that a pair points to, and those that BIO_free_all() follows from one.
Ends(pair) == {pair.b64, pair.bio} \ {NoBio}

Chain(b) == IF b = NoBio THEN {} ELSE {b, pushed[b]} \ {NoBio}

PairInit ==
    /\ opening = "no" /\ member = NoPair /\ local = NoPair
    /\ pushed = [b \in Bios |-> NoBio]
    /\ allocated = {} /\ loaded = TRUE
    /\ abandoned = {} /\ misfreed = FALSE

\* BIO_new() returns b.
New(b) ==
    /\ b \in Bios \ allocated
    /\ allocated' = allocated \cup {b}
    /\ pushed' = [pushed EXCEPT ![b] = NoBio]

\* BIO_free() and BIO_free_all() of these BIOs.
FreeBios(bs) ==
    /\ allocated' = allocated \ bs
    /\ misfreed' = (misfreed \/ ~(bs \subseteq allocated))

\* open() makes the filter.  Without the library it throws before it makes
\* anything, and so it does when it gets null: there is nothing to free then.
MakeFilter ==
    /\ opening = "no" /\ loaded
    /\ \E b \in Bios : New(b) /\ local' = [NoPair EXCEPT !.b64 = b]
    /\ opening' = "memory"
    /\ UNCHANGED <<member, loaded, abandoned, misfreed>>

NoFilter == opening = "no" /\ UNCHANGED pairVars

\* Then the memory.
MakeMemory ==
    /\ opening = "memory"
    /\ \E b \in Bios : New(b) /\ local' = [local EXCEPT !.bio = b]
    /\ opening' = "push"
    /\ UNCHANGED <<member, loaded, abandoned, misfreed>>

\* Mutant of NoMemory: the handler does not free the filter.
NoMemoryKept ==
    /\ opening = "memory"
    /\ local' = NoPair /\ opening' = "no"
    /\ UNCHANGED <<member, pushed, allocated, loaded, abandoned, misfreed>>

\* There is none: the handler takes the filter from its chain, frees what there
\* is, and throws again.
NoMemory ==
    /\ opening = "memory"
    /\ pushed' = [pushed EXCEPT ![local.b64] = NoBio]
    /\ FreeBios(Ends(local))
    /\ local' = NoPair /\ opening' = "no"
    /\ UNCHANGED <<member, loaded, abandoned>>

\* BIO_push(), close() of what was open, and the object has the new pair.
Adopt ==
    /\ opening = "push"
    /\ pushed' = [pushed EXCEPT ![local.b64] = local.bio]
    /\ FreeBios(Chain(member.b64))
    /\ member' = local
    /\ local' = NoPair /\ opening' = "no"
    /\ UNCHANGED <<loaded, abandoned>>

\* close(), and the destructor.  Without the library there is nobody to free them.
PairClose ==
    /\ opening = "no"
    /\ member' = NoPair
    /\ IF loaded
       THEN FreeBios(Chain(member.b64)) /\ UNCHANGED abandoned
       ELSE /\ abandoned' = abandoned \cup Ends(member)
            /\ UNCHANGED <<allocated, misfreed>>
    /\ UNCHANGED <<opening, local, pushed, loaded>>

\* deinit_LAshe(), and init_LAshe() again.
Unload ==
    /\ opening = "no" /\ loaded' = FALSE
    /\ UNCHANGED <<opening, member, local, pushed, allocated, abandoned, misfreed>>

Load ==
    /\ opening = "no" /\ loaded' = TRUE
    /\ UNCHANGED <<opening, member, local, pushed, allocated, abandoned, misfreed>>

PairNext ==
    \/ MakeFilter \/ NoFilter
    \/ MakeMemory \/ NoMemory
    \/ Adopt
    \/ PairClose
    \/ Unload \/ Load

PairSpec == PairInit /\ [][PairNext]_pairVars
------------------------------------------------------------------------------
\* However open(), which may fail at either BIO, close() and the destructor follow
\* each other, and whatever was open before: each BIO that is allocated belongs to
\* the object, to open() while it works, or to nobody because close() came after
\* deinit_LAshe(); none is freed twice, and none is used after it was freed.
\* (Base64Encoder.cpp:26-75, Base64Decoder.cpp:27-76)
BiosAreOwned ==
    /\ allocated = Ends(member) \cup Ends(local) \cup abandoned
    /\ Ends(member) \cap Ends(local) = {}
    /\ (Ends(member) \cup Ends(local)) \cap abandoned = {}
    /\ Ends(member) = Chain(member.b64)
    /\ ~misfreed
==============================================================================

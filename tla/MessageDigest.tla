---------------------------- MODULE MessageDigest ----------------------------
(***************************************************************************)
(* ashe::MessageDigest (src/MessageDigest.cpp) on top of LibAshe: objects  *)
(* that open a hashing session, feed it and finish digests, in a program   *)
(* that may take the library down and up again between any two calls.      *)
(*                                                                         *)
(* What is hashed is a sequence of blocks; a digest is known by the blocks *)
(* it covers.  The contexts are OpenSSL's (external): what                 *)
(* EVP_MD_CTX_new, EVP_DigestInit_ex, EVP_DigestUpdate, EVP_DigestFinal_ex *)
(* and EVP_MD_CTX_free do to them is taken from how the code uses them.    *)
(***************************************************************************)
EXTENDS LibAshe, Sequences

CONSTANTS Object,     \* the MessageDigest objects
          Context,    \* the addresses that EVP_MD_CTX_new may return
          Block,      \* what feed() is given
          MaxFed,     \* bound: how many blocks a digest covers
          Nothing     \* a null ctxMD, or an empty result

ASSUME MessageDigestAssumption ==
    /\ Nothing \notin Context
    /\ MaxFed \in Nat

VARIABLES ctx,      \* ctxMD of each object
          result,   \* result of each object: the blocks the digest covers
          live,     \* the contexts that are allocated
          hashed,   \* the blocks each context was given since DigestInit
          stale,    \* history: live contexts of a library that was unloaded
          lost,     \* history: live contexts that no object knows any more
          fed,      \* history: the blocks fed to each object since the last
                    \* open() or finish()
          due       \* history: fed, when the object's result was made

sessions == <<ctx, result, live, hashed, stale, lost, fed, due>>

mdVars == <<vars, sessions>>

MdInit ==
    /\ Init
    /\ ctx = [o \in Object |-> Nothing]
    /\ result = [o \in Object |-> <<>>]
    /\ live = {} /\ stale = {} /\ lost = {}
    /\ hashed = [c \in Context |-> <<>>]
    /\ fed = [o \in Object |-> <<>>]
    /\ due = [o \in Object |-> <<>>]

Ready(o) == ctx[o] # Nothing

\* The program calls init_LAshe() or deinit_LAshe(), which know nothing of the
\* sessions.
Library ==
    /\ Next
    /\ stale' = IF openssl /\ ~openssl' THEN live ELSE stale
    /\ UNCHANGED <<ctx, result, live, hashed, lost, fed, due>>

\* The functions are there; or some are, if a std::exception left init_LAshe() when
\* it looked for them.
Callable == openssl /\ handles = Module

\* A call through a null __lashe::openssl, to a function that is not there, or on a
\* context of a library that is gone.
Dies == step' = "died" /\ UNCHANGED <<globals, modules, others, answer, escaped>>

\* ensure_ability() in open().
AbilityEnsured == global /\ "OPENSSL" \in ability

\* open() throws before it has a context: no ability, an unknown algorithm, or
\* EVP_MD_CTX_new() returns null.  The session that was open stays open.
OpenRefused(o) ==
    /\ step = "idle"
    /\ UNCHANGED mdVars

\* open() when the ability is recorded and the functions are not there.
OpenDies(o) ==
    /\ step = "idle" /\ AbilityEnsured
    /\ ~openssl \/ escaped
    /\ Dies
    /\ UNCHANGED sessions

\* EVP_MD_size() fails: open() throws, and does not free the context.
OpenLoses(c) ==
    /\ step = "idle" /\ AbilityEnsured /\ Callable
    /\ c \notin live
    /\ live' = live \cup {c}
    /\ lost' = lost \cup {c}
    /\ UNCHANGED <<vars, ctx, result, hashed, stale, fed, due>>

\* close(): a context that EVP_MD_CTX_free cannot be called for is dropped.
Drop(o) ==
    /\ result' = [result EXCEPT ![o] = <<>>]
    /\ fed' = [fed EXCEPT ![o] = <<>>]
    /\ due' = [due EXCEPT ![o] = <<>>]
    /\ lost' = IF openssl THEN lost ELSE lost \cup ({ctx[o]} \ {Nothing})
    /\ stale' = IF openssl THEN stale \ {ctx[o]} ELSE stale

\* Mutant of Open: the old session is not closed.
OpenOver(o, c) ==
    /\ step = "idle" /\ AbilityEnsured /\ Callable
    /\ c \notin live
    /\ live' = live \cup {c}
    /\ hashed' = [hashed EXCEPT ![c] = <<>>]
    /\ ctx' = [ctx EXCEPT ![o] = c]
    /\ Drop(o)
    /\ UNCHANGED vars

\* open(): the old session is closed when the new context is ready.
Open(o, c) ==
    /\ step = "idle" /\ AbilityEnsured /\ Callable
    /\ c \notin live
    /\ live' = (live \ {ctx[o]}) \cup {c}
    /\ hashed' = [hashed EXCEPT ![c] = <<>>]
    /\ ctx' = [ctx EXCEPT ![o] = c]
    /\ Drop(o)
    /\ UNCHANGED vars

\* close(), and the destructor.
Close(o) ==
    /\ step = "idle"
    /\ openssl => Callable
    /\ ctx' = [ctx EXCEPT ![o] = Nothing]
    /\ live' = IF openssl THEN live \ {ctx[o]} ELSE live
    /\ Drop(o)
    /\ UNCHANGED <<vars, hashed>>

\* feed().
Feed(o, b) ==
    /\ step = "idle" /\ Ready(o) /\ Callable
    /\ Len(fed[o]) < MaxFed
    /\ hashed' = [hashed EXCEPT ![ctx[o]] = Append(@, b)]
    /\ fed' = [fed EXCEPT ![o] = Append(@, b)]
    /\ UNCHANGED <<vars, ctx, result, live, stale, lost, due>>

\* Mutant of Finish: the context is not initialised again.
FinishOnce(o) ==
    /\ step = "idle" /\ Ready(o) /\ Callable
    /\ result' = [result EXCEPT ![o] = hashed[ctx[o]]]
    /\ due' = [due EXCEPT ![o] = fed[o]]
    /\ fed' = [fed EXCEPT ![o] = <<>>]
    /\ UNCHANGED <<vars, ctx, live, hashed, stale, lost>>

\* finish(): the digest, and EVP_DigestInit_ex for the next one.
Finish(o) ==
    /\ step = "idle" /\ Ready(o) /\ Callable
    /\ result' = [result EXCEPT ![o] = hashed[ctx[o]]]
    /\ hashed' = [hashed EXCEPT ![ctx[o]] = <<>>]
    /\ due' = [due EXCEPT ![o] = fed[o]]
    /\ fed' = [fed EXCEPT ![o] = <<>>]
    /\ UNCHANGED <<vars, ctx, live, stale, lost>>

\* feed() or finish() without the library, and feed(), finish(), close() or
\* open() on a context of a library that was unloaded: then anything may
\* happen, and the calls above are what happens if it is still mapped.  And a call
\* of a function that was not found, as close() does even without a context.
UseDies(o) ==
    /\ step = "idle"
    /\ \/ Ready(o) /\ (~openssl \/ ctx[o] \in stale)
       \/ openssl /\ escaped
    /\ Dies
    /\ UNCHANGED sessions

\* clear(), and payload() when its result is moved away.  What was fed stays.
Clear(o) ==
    /\ step = "idle"
    /\ result' = [result EXCEPT ![o] = <<>>]
    /\ due' = [due EXCEPT ![o] = <<>>]
    /\ UNCHANGED <<vars, ctx, live, hashed, stale, lost, fed>>

MdNext ==
    \/ Library
    \/ \E c \in Context : OpenLoses(c)
    \/ \E o \in Object :
        \/ OpenRefused(o)
        \/ OpenDies(o)
        \/ \E c \in Context : Open(o, c)
        \/ Close(o)
        \/ \E b \in Block : Feed(o, b)
        \/ Finish(o)
        \/ UseDies(o)
        \/ Clear(o)

MdSpec == MdInit /\ [][MdNext]_mdVars
------------------------------------------------------------------------------
MdTypeOK ==
    /\ TypeOK
    /\ ctx \in [Object -> Context \cup {Nothing}]
    /\ result \in [Object -> Seq(Block)] /\ due \in [Object -> Seq(Block)]
    /\ fed \in [Object -> Seq(Block)] /\ hashed \in [Context -> Seq(Block)]
    /\ live \subseteq Context /\ stale \subseteq Context /\ lost \subseteq Context

\* A digest covers exactly what its object was fed since it was opened or last
\* finished, whatever other objects do, and nothing that was fed is dropped by
\* a call that fails.
DigestIsExact ==
    /\ result = due
    /\ \A o \in Object :
        /\ Ready(o) => hashed[ctx[o]] = fed[o]
        /\ fed[o] # <<>> => Ready(o)

\* An object's context is allocated, it is the object's own, and every context
\* that is allocated has an owner or was lost in one of the two known ways.
ContextsAreOwned ==
    /\ \A o \in Object : Ready(o) => ctx[o] \in live \ lost
    /\ \A o, p \in Object : Ready(o) /\ ctx[o] = ctx[p] => o = p
    /\ \A c \in live \ lost : \E o \in Object : ctx[o] = c
==============================================================================

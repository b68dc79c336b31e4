------------------------- MODULE MessageDigestProofs -------------------------
(***************************************************************************)
(* What the checks of the library and of its digests show, for all sets of *)
(* objects, contexts and blocks.  The library comes first: the argument is *)
(* the table of what init_LAshe() has built at each of its steps (Built).  *)
(* The sessions are proved about on top of it; the one fact to add is that *)
(* a context that was lost stays allocated, so that no new session is      *)
(* given it.                                                               *)
(***************************************************************************)
EXTENDS MessageDigest, TLAPS

\* How often LibAshe and the program have loaded m.
Owed(m) == (IF m \in handles THEN 1 ELSE 0) + (IF m \in others THEN 1 ELSE 0)

\* What exists at each step, and between two calls when a std::exception has
\* left the first.
Built ==
    /\ step = "regex" =>
        global /\ ~regex /\ ~openssl /\ handles = {} /\ ~escaped
    /\ step = "ssl" =>
        /\ global /\ regex /\ ~openssl /\ handles = {} /\ ~escaped
        /\ "OPENSSL" \in ability
    /\ step = "crypto" =>
        /\ global /\ regex /\ openssl /\ handles = {"ssl"} /\ ~escaped
        /\ "OPENSSL" \in ability
    /\ step = "symbols" =>
        /\ global /\ regex /\ openssl /\ handles = Module /\ ~escaped
        /\ "OPENSSL" \in ability
    /\ step = "idle" /\ escaped => global /\ (handles # {} => openssl)
    /\ ~global => ability = {}

\* The inductive invariant.
IInv == TypeOK /\ ModulesBalanced /\ AbilityIsBacked /\ Built

\* Before the first call the library is down and no module is open.
LEMMA InitIInv == Init => IInv
<1> SUFFICES ASSUME Init PROVE IInv
  OBVIOUS
<1>1. TypeOK
  BY DEF Init, TypeOK, Step, Module, Answers
<1>2. ModulesBalanced
  BY DEF Init, ModulesBalanced, Module
<1>3. AbilityIsBacked
  BY DEF Init, AbilityIsBacked
<1>4. Built
  BY DEF Init, Built
<1> QED
  BY <1>1, <1>2, <1>3, <1>4 DEF IInv

\* Undoing everything keeps the invariant, from wherever nothing died.
LEMMA TeardownIInv ==
    ASSUME IInv, Teardown, step # "died", step' = "idle", others' = others,
           answer' \in Answers
    PROVE  IInv'
<1>1. \A m \in Module : count'[m] = IF m \in others THEN 1 ELSE 0
  BY DEF IInv, TypeOK, ModulesBalanced, Teardown, Unload
<1>2. count' \in [Module -> Nat]
  <2>1. count' = [m \in Module |-> count'[m]]
    BY DEF Teardown, Unload
  <2> QED
    BY <1>1, <2>1
<1>3. TypeOK'
  BY <1>2 DEF IInv, TypeOK, Teardown, Unload, Step
<1>4. ModulesBalanced'
  BY <1>1 DEF ModulesBalanced, Teardown, Unload
<1>5. AbilityIsBacked' /\ Built'
  BY DEF AbilityIsBacked, Built, Teardown, Unload
<1> QED
  BY <1>3, <1>4, <1>5 DEF IInv

\* Every step of init_LAshe() and deinit_LAshe() keeps the invariant.
LEMMA StepIInv == IInv /\ [Next]_vars => IInv'
<1> SUFFICES ASSUME IInv, [Next]_vars PROVE IInv'
  OBVIOUS
<1> USE DEF Step, Answers, Ability, Module
<1>1. CASE UNCHANGED vars
  BY <1>1 DEF vars, globals, modules, IInv, TypeOK, ModulesBalanced,
              AbilityIsBacked, Built
<1>2. ASSUME NEW abilities \in SUBSET Ability, InitAgain(abilities) PROVE IInv'
  BY <1>2 DEF InitAgain, globals, modules, IInv, TypeOK, ModulesBalanced,
              AbilityIsBacked, Built
<1>3. CASE InitRefused
  BY <1>3 DEF InitRefused, globals, modules, IInv, TypeOK, ModulesBalanced,
              AbilityIsBacked, Built
<1>4. ASSUME NEW abilities \in SUBSET Ability, InitBegins(abilities) PROVE IInv'
  BY <1>4 DEF InitBegins, modules, IInv, TypeOK, ModulesBalanced,
              AbilityIsBacked, Built
<1>5. CASE StdExceptionLeaves
  <2>1. TypeOK'
    BY <1>5 DEF StdExceptionLeaves, IInv, TypeOK
  <2>2. ModulesBalanced'
    BY <1>5 DEF StdExceptionLeaves, IInv, ModulesBalanced
  <2>3. AbilityIsBacked' /\ Built'
    BY <1>5 DEF StdExceptionLeaves, IInv, AbilityIsBacked, Built
  <2> QED
    BY <2>1, <2>2, <2>3 DEF IInv
<1>6. CASE RegexBuilt
  BY <1>6 DEF RegexBuilt, modules, IInv, TypeOK, ModulesBalanced,
              AbilityIsBacked, Built
<1>7. CASE SslLoaded
  <2>1. TypeOK'
    BY <1>7 DEF SslLoaded, globals, IInv, TypeOK
  <2>2. ModulesBalanced'
    BY <1>7 DEF SslLoaded, IInv, TypeOK, ModulesBalanced, Built
  <2>3. AbilityIsBacked' /\ Built'
    BY <1>7 DEF SslLoaded, globals, IInv, AbilityIsBacked, Built
  <2> QED
    BY <2>1, <2>2, <2>3 DEF IInv
<1>8. CASE LoadFails \/ DeinitDies
  <2>1. ClosesNull /\ step # "died"
    BY <1>8 DEF LoadFails, DeinitDies
  <2>2. count' \in [Module -> Nat]
    BY <2>1 DEF ClosesNull, IInv, TypeOK, ModulesBalanced
  <2> QED
    BY <2>1, <2>2 DEF ClosesNull, globals, IInv, TypeOK, ModulesBalanced,
                      AbilityIsBacked, Built
<1>9. CASE CryptoLoaded
  <2>1. TypeOK'
    BY <1>9 DEF CryptoLoaded, globals, IInv, TypeOK
  <2>2. ModulesBalanced'
    BY <1>9 DEF CryptoLoaded, IInv, TypeOK, ModulesBalanced, Built
  <2>3. AbilityIsBacked' /\ Built'
    BY <1>9 DEF CryptoLoaded, globals, IInv, AbilityIsBacked, Built
  <2> QED
    BY <2>1, <2>2, <2>3 DEF IInv
<1>10. CASE SymbolMissing
  BY <1>10, TeardownIInv DEF SymbolMissing
<1>11. CASE SymbolsFound
  BY <1>11 DEF SymbolsFound, globals, modules, IInv, TypeOK, ModulesBalanced,
               AbilityIsBacked, Built
<1>12. CASE Deinit
  BY <1>12, TeardownIInv DEF Deinit, IInv, TypeOK
<1>13. ASSUME NEW m \in ProgramModules, ProgramLoads(m) PROVE IInv'
  <2>1. TypeOK'
    BY <1>13, LibAsheAssumption DEF ProgramLoads, globals, IInv, TypeOK
  <2>2. ModulesBalanced'
    BY <1>13, LibAsheAssumption DEF ProgramLoads, IInv, TypeOK, ModulesBalanced
  <2>3. AbilityIsBacked' /\ Built'
    BY <1>13 DEF ProgramLoads, globals, IInv, AbilityIsBacked, Built
  <2> QED
    BY <2>1, <2>2, <2>3 DEF IInv
<1>14. ASSUME NEW m \in ProgramModules, ProgramUnloads(m) PROVE IInv'
  <2>1. TypeOK'
    BY <1>14, LibAsheAssumption DEF ProgramUnloads, globals, IInv, TypeOK, ModulesBalanced
  <2>2. ModulesBalanced'
    BY <1>14, LibAsheAssumption DEF ProgramUnloads, IInv, TypeOK, ModulesBalanced
  <2>3. AbilityIsBacked' /\ Built'
    BY <1>14 DEF ProgramUnloads, globals, IInv, AbilityIsBacked, Built
  <2> QED
    BY <2>1, <2>2, <2>3 DEF IInv
<1> QED
  BY <1>1, <1>2, <1>3, <1>4, <1>5, <1>6, <1>7, <1>8, <1>9, <1>10, <1>11,
     <1>12, <1>13, <1>14 DEF Next

\* IInv is invariant.
THEOREM Invariance == Spec => []IInv
BY InitIInv, StepIInv, PTL DEF Spec

\* The variables of init_LAshe() and deinit_LAshe() have their types; dlopen()'s
\* counts never go below zero, so no module is closed that was not opened.
THEOREM TypeCorrect == Spec => []TypeOK
<1>1. IInv => TypeOK
  BY DEF IInv
<1> QED
  BY <1>1, Invariance, PTL

\* Every dlopen() of init_openssl() is undone once, whatever fails.
THEOREM LoadsAreBalanced == Spec => []ModulesBalanced
<1>1. IInv => ModulesBalanced
  BY DEF IInv
<1> QED
  BY <1>1, Invariance, PTL

\* Between calls, an ability that __lashe::global records is loaded, unless a
\* std::exception has left init_LAshe().
THEOREM AbilitiesAreBacked == Spec => []AbilityIsBacked
<1>1. IInv => AbilityIsBacked
  BY DEF IInv
<1> QED
  BY <1>1, Invariance, PTL

\* init_LAshe() undoes everything when it throws a HelperException half-way.
THEOREM FailuresAreUndone == Spec => FailureLeavesNothing
<1> DEFINE Undone ==
      answer' = "HelperException" /\ step' = "idle" /\ step # "idle"
      => /\ ~global' /\ ability' = {} /\ ~regex' /\ ~openssl'
         /\ \A m \in Module \ others' : count'[m] = 0
<1>1. IInv /\ [Next]_vars => [Undone]_vars
  <2> SUFFICES ASSUME IInv, Next, answer' = "HelperException",
                      step' = "idle", step # "idle"
               PROVE  Undone
    OBVIOUS
  <2>1. SymbolMissing
    BY DEF Next, InitAgain, InitRefused, InitBegins, StdExceptionLeaves,
           RegexBuilt, SslLoaded, LoadFails, CryptoLoaded, SymbolsFound,
           Deinit, DeinitDies, ClosesNull, ProgramLoads, ProgramUnloads
  <2>2. \A m \in Module : count'[m] = IF m \in others THEN 1 ELSE 0
    BY <2>1 DEF SymbolMissing, Teardown, Unload, IInv, TypeOK, ModulesBalanced
  <2> QED
    BY <2>1, <2>2 DEF SymbolMissing, Teardown, Unload
<1> QED
  BY <1>1, Invariance, PTL DEF Spec, FailureLeavesNothing

------------------------------------------------------------------------------
LostStaysLive == lost \subseteq live

\* The inductive invariant.
MdInv == IInv /\ MdTypeOK /\ DigestIsExact /\ ContextsAreOwned /\ LostStaysLive

\* What a step must keep of the sessions when the library stands still.
SessionsInv == MdTypeOK /\ DigestIsExact /\ ContextsAreOwned /\ LostStaysLive

\* A new MessageDigest owns no context, and the library is down.
LEMMA InitMdInv == MdInit => MdInv
<1> SUFFICES ASSUME MdInit PROVE MdInv
  OBVIOUS
<1>1. IInv
  BY InitIInv DEF MdInit
<1>2. MdTypeOK
  BY <1>1 DEF MdInit, MdTypeOK, IInv
<1>3. DigestIsExact
  BY DEF MdInit, DigestIsExact, Ready
<1>4. ContextsAreOwned /\ LostStaysLive
  BY DEF MdInit, ContextsAreOwned, LostStaysLive, Ready
<1> QED
  BY <1>1, <1>2, <1>3, <1>4 DEF MdInv

\* A step that leaves the library alone keeps what is known of it.
LEMMA LibraryStands == IInv /\ UNCHANGED vars => IInv' /\ TypeOK'
<1> SUFFICES ASSUME IInv, UNCHANGED vars PROVE IInv' /\ TypeOK'
  OBVIOUS
<1>1. IInv'
  BY StepIInv
<1> QED
  BY <1>1 DEF IInv

\* A program that dies changes no global.
LEMMA DyingKeepsIInv == IInv /\ Dies => IInv' /\ TypeOK'
BY DEF Dies, IInv, TypeOK, ModulesBalanced, AbilityIsBacked, Built, globals,
       modules, Step

\* The sessions when nothing but the library, or nothing at all, moves.
LEMMA SessionsStand ==
    ASSUME SessionsInv, TypeOK', stale' \in SUBSET Context,
           UNCHANGED <<ctx, result, live, hashed, lost, fed, due>>
    PROVE  SessionsInv'
BY DEF SessionsInv, MdTypeOK, DigestIsExact, ContextsAreOwned, LostStaysLive,
       Ready

\* Every step of a session, and of the library under it, keeps the invariant.
LEMMA StepMdInv == MdInv /\ [MdNext]_mdVars => MdInv'
<1> SUFFICES ASSUME MdInv, [MdNext]_mdVars PROVE MdInv'
  OBVIOUS
<1>0. IInv /\ SessionsInv
  BY DEF MdInv, SessionsInv
<1>1. CASE UNCHANGED mdVars
  <2>1. UNCHANGED vars /\ UNCHANGED sessions
    BY <1>1 DEF mdVars
  <2>2. IInv' /\ TypeOK'
    BY <1>0, <2>1, LibraryStands
  <2>3. SessionsInv'
    BY <1>0, <2>1, <2>2, SessionsStand DEF sessions, SessionsInv, MdTypeOK
  <2> QED
    BY <2>2, <2>3 DEF MdInv, SessionsInv
<1>2. CASE Library
  <2>1. IInv' /\ TypeOK'
    <3>1. IInv'
      BY <1>0, <1>2, StepIInv DEF Library
    <3> QED
      BY <3>1 DEF IInv
  <2>2. stale' \in SUBSET Context
    BY <1>0, <1>2 DEF Library, SessionsInv, MdTypeOK
  <2>3. SessionsInv'
    BY <1>0, <1>2, <2>1, <2>2, SessionsStand DEF Library
  <2> QED
    BY <2>1, <2>3 DEF MdInv, SessionsInv
<1>3. ASSUME NEW c \in Context, OpenLoses(c) PROVE MdInv'
  <2>1. IInv' /\ TypeOK'
    BY <1>0, <1>3, LibraryStands DEF OpenLoses
  <2>2. MdTypeOK'
    BY <1>0, <1>3, <2>1 DEF OpenLoses, SessionsInv, MdTypeOK
  <2>3. DigestIsExact'
    BY <1>0, <1>3 DEF OpenLoses, SessionsInv, DigestIsExact, Ready
  <2>4. ContextsAreOwned' /\ LostStaysLive'
    BY <1>0, <1>3 DEF OpenLoses, SessionsInv, ContextsAreOwned, LostStaysLive,
                      Ready
  <2> QED
    BY <2>1, <2>2, <2>3, <2>4 DEF MdInv
<1>4. ASSUME NEW o \in Object, OpenRefused(o) PROVE MdInv'
  BY <1>1, <1>4 DEF OpenRefused
<1>5. ASSUME NEW o \in Object, OpenDies(o) \/ UseDies(o) PROVE MdInv'
  <2>1. Dies /\ UNCHANGED sessions
    BY <1>5 DEF OpenDies, UseDies
  <2>2. IInv' /\ TypeOK'
    BY <1>0, <2>1, DyingKeepsIInv
  <2>3. SessionsInv'
    BY <1>0, <2>1, <2>2, SessionsStand DEF sessions, SessionsInv, MdTypeOK
  <2> QED
    BY <2>2, <2>3 DEF MdInv, SessionsInv
<1>6. ASSUME NEW o \in Object, NEW c \in Context, Open(o, c) PROVE MdInv'
  <2>1. IInv' /\ TypeOK'
    BY <1>0, <1>6, LibraryStands DEF Open
  <2>2. MdTypeOK'
    BY <1>0, <1>6, <2>1 DEF Open, Drop, SessionsInv, MdTypeOK
  <2>3. \A p \in Object \ {o} : ctx'[p] = ctx[p] /\ ctx[p] # c
    BY <1>0, <1>6, MessageDigestAssumption
       DEF Open, SessionsInv, MdTypeOK, ContextsAreOwned, LostStaysLive, Ready
  <2>4. ctx'[o] = c
    BY <1>0, <1>6 DEF Open, SessionsInv, MdTypeOK
  <2>5. DigestIsExact'
    BY <1>0, <1>6, <2>3, <2>4
       DEF Open, Drop, SessionsInv, MdTypeOK, DigestIsExact, Ready
  <2>6. lost' = lost /\ live' = (live \ {ctx[o]}) \cup {c}
    BY <1>6 DEF Open, Drop, Callable
  <2>7. c \notin lost /\ (ctx[o] # Nothing => ctx[o] \notin lost)
    BY <1>0, <1>6 DEF Open, SessionsInv, ContextsAreOwned, LostStaysLive, Ready
  <2>8. ContextsAreOwned'
    <3>1. \A p \in Object : Ready(p)' => ctx'[p] \in live' \ lost'
      BY <1>0, <2>3, <2>4, <2>6, <2>7
         DEF SessionsInv, ContextsAreOwned, Ready
    <3>2. \A p, q \in Object : Ready(p)' /\ ctx'[p] = ctx'[q] => p = q
      BY <1>0, <2>3, <2>4 DEF SessionsInv, ContextsAreOwned, Ready
    <3>3. \A d \in live' \ lost' : \E p \in Object : ctx'[p] = d
      BY <1>0, <2>3, <2>4, <2>6 DEF SessionsInv, ContextsAreOwned
    <3> QED
      BY <3>1, <3>2, <3>3 DEF ContextsAreOwned
  <2>9. LostStaysLive'
    BY <1>0, <2>6, <2>7, MessageDigestAssumption
       DEF SessionsInv, MdTypeOK, LostStaysLive
  <2> QED
    BY <2>1, <2>2, <2>5, <2>8, <2>9 DEF MdInv
<1>7. ASSUME NEW o \in Object, Close(o) PROVE MdInv'
  <2>1. IInv' /\ TypeOK'
    BY <1>0, <1>7, LibraryStands DEF Close
  <2>2. MdTypeOK'
    BY <1>0, <1>7, <2>1 DEF Close, Drop, SessionsInv, MdTypeOK
  <2>3. /\ ctx'[o] = Nothing
        /\ \A p \in Object \ {o} : ctx'[p] = ctx[p]
    BY <1>0, <1>7 DEF Close, SessionsInv, MdTypeOK
  <2>4. DigestIsExact'
    BY <1>0, <1>7, <2>3
       DEF Close, Drop, SessionsInv, MdTypeOK, DigestIsExact, Ready
  <2>5. ContextsAreOwned'
    BY <1>0, <1>7, <2>3
       DEF Close, Drop, SessionsInv, MdTypeOK, ContextsAreOwned, Ready
  <2>6. LostStaysLive'
    BY <1>0, <1>7, MessageDigestAssumption
       DEF Close, Drop, SessionsInv, MdTypeOK, ContextsAreOwned, LostStaysLive,
           Ready
  <2> QED
    BY <2>1, <2>2, <2>4, <2>5, <2>6 DEF MdInv
<1>8. ASSUME NEW o \in Object, NEW b \in Block, Feed(o, b) PROVE MdInv'
  <2>1. IInv' /\ TypeOK'
    BY <1>0, <1>8, LibraryStands DEF Feed
  <2>2. ctx[o] \in Context
    BY <1>0, <1>8 DEF Feed, SessionsInv, MdTypeOK, Ready
  <2>3. MdTypeOK'
    BY <1>0, <1>8, <2>1, <2>2 DEF Feed, SessionsInv, MdTypeOK
  <2>4. DigestIsExact'
    <3>1. \A p \in Object : Ready(p)' => hashed'[ctx'[p]] = fed'[p]
      BY <1>0, <1>8, <2>2
         DEF Feed, SessionsInv, MdTypeOK, DigestIsExact, ContextsAreOwned, Ready
    <3>2. \A p \in Object : fed'[p] # <<>> => Ready(p)'
      BY <1>0, <1>8 DEF Feed, SessionsInv, MdTypeOK, DigestIsExact, Ready
    <3> QED
      BY <1>0, <1>8, <3>1, <3>2 DEF Feed, SessionsInv, DigestIsExact
  <2>5. ContextsAreOwned' /\ LostStaysLive'
    BY <1>0, <1>8 DEF Feed, SessionsInv, ContextsAreOwned, LostStaysLive, Ready
  <2> QED
    BY <2>1, <2>3, <2>4, <2>5 DEF MdInv
<1>9. ASSUME NEW o \in Object, Finish(o) PROVE MdInv'
  <2>1. IInv' /\ TypeOK'
    BY <1>0, <1>9, LibraryStands DEF Finish
  <2>2. ctx[o] \in Context /\ hashed[ctx[o]] = fed[o]
    BY <1>0, <1>9 DEF Finish, SessionsInv, MdTypeOK, DigestIsExact, Ready
  <2>3. MdTypeOK'
    BY <1>0, <1>9, <2>1, <2>2 DEF Finish, SessionsInv, MdTypeOK
  <2>4. DigestIsExact'
    <3>1. \A p \in Object : Ready(p)' => hashed'[ctx'[p]] = fed'[p]
      BY <1>0, <1>9, <2>2
         DEF Finish, SessionsInv, MdTypeOK, DigestIsExact, ContextsAreOwned,
             Ready
    <3>2. result' = due'
      BY <1>0, <1>9, <2>2 DEF Finish, SessionsInv, MdTypeOK, DigestIsExact
    <3>3. \A p \in Object : fed'[p] # <<>> => Ready(p)'
      BY <1>0, <1>9 DEF Finish, SessionsInv, MdTypeOK, DigestIsExact, Ready
    <3> QED
      BY <3>1, <3>2, <3>3 DEF DigestIsExact
  <2>5. ContextsAreOwned' /\ LostStaysLive'
    BY <1>0, <1>9 DEF Finish, SessionsInv, ContextsAreOwned, LostStaysLive,
                      Ready
  <2> QED
    BY <2>1, <2>3, <2>4, <2>5 DEF MdInv
<1>10. ASSUME NEW o \in Object, Clear(o) PROVE MdInv'
  <2>1. IInv' /\ TypeOK'
    BY <1>0, <1>10, LibraryStands DEF Clear
  <2>2. MdTypeOK'
    BY <1>0, <1>10, <2>1 DEF Clear, SessionsInv, MdTypeOK
  <2>3. DigestIsExact' /\ ContextsAreOwned' /\ LostStaysLive'
    BY <1>0, <1>10 DEF Clear, SessionsInv, MdTypeOK, DigestIsExact,
                       ContextsAreOwned, LostStaysLive, Ready
  <2> QED
    BY <2>1, <2>2, <2>3 DEF MdInv
<1> QED
  BY <1>1, <1>2, <1>3, <1>4, <1>5, <1>6, <1>7, <1>8, <1>9, <1>10 DEF MdNext

\* MdInv is invariant.
THEOREM MdInvariance == MdSpec => []MdInv
BY InitMdInv, StepMdInv, PTL DEF MdSpec

\* The variables of the sessions and of the library have their types, for any
\* number of MessageDigest objects in a program that takes LibAshe up and down.
THEOREM MdTypeCorrect == MdSpec => []MdTypeOK
<1>1. MdInv => MdTypeOK
  BY DEF MdInv
<1> QED
  BY <1>1, MdInvariance, PTL

\* finish() gives the digest of exactly what feed() was given since open() or
\* the last finish(), for any number of objects, messages and blocks.
THEOREM DigestsAreExact == MdSpec => []DigestIsExact
<1>1. MdInv => DigestIsExact
  BY DEF MdInv
<1> QED
  BY <1>1, MdInvariance, PTL

\* open(), close() and the destructor never share a context between objects,
\* free one that is in use, or leave one allocated without an owner, but in the
\* two places that "lost" records.
THEOREM ContextsHaveOwners == MdSpec => []ContextsAreOwned
<1>1. MdInv => ContextsAreOwned
  BY DEF MdInv
<1> QED
  BY <1>1, MdInvariance, PTL
==============================================================================

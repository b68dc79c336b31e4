------------------------------- MODULE LibAshe -------------------------------
(***************************************************************************)
(* The life of LibAshe's globals: init_LAshe() and deinit_LAshe()          *)
(* (src/helper.cpp), which build and tear down __lashe::global,            *)
(* __lashe::regex and __lashe::openssl, and the modules that the last one  *)
(* loads with dlopen() (src/__openssl.cpp, src/__internal.cpp).            *)
(*                                                                         *)
(* One action per step of init_LAshe() that may fail.  The program may     *)
(* call both functions in any order and as often as it likes.              *)
(***************************************************************************)
EXTENDS Integers

CONSTANT ProgramModules   \* the modules that the program may load itself

\* The abilities that exist, and the modules that "OPENSSL" needs.
Ability == {"OPENSSL"}

Module == {"ssl", "crypto"}

ASSUME LibAsheAssumption == ProgramModules \subseteq Module

VARIABLES step,      \* where init_LAshe() is
          global,    \* __lashe::global is not null
          ability,   \* its initAbilitySet
          regex,     \* __lashe::regex is not null
          openssl,   \* __lashe::openssl is not null
          handles,   \* the modules whose handles are in __lashe::openssl
          count,     \* dlopen()'s reference count of each module
          others,    \* the modules that the program has loaded itself
          answer,    \* how the last init_LAshe() ended
          escaped    \* history: a std::exception left it, without a rollback

globals == <<global, ability, regex>>

modules == <<openssl, handles, count>>

vars == <<step, globals, modules, others, answer, escaped>>

Step == {"idle", "regex", "ssl", "crypto", "symbols", "died"}

Answers == {"none", "done", "HelperException", "std::exception"}

Init ==
    /\ step = "idle"
    /\ global = FALSE /\ ability = {}
    /\ regex = FALSE
    /\ openssl = FALSE
    /\ handles = {}
    /\ count = [m \in Module |-> 0]
    /\ others = {}
    /\ answer = "none"
    /\ escaped = FALSE

\* deinit_openssl(), when both modules are loaded or there is nothing to do.
\* dlclose() is called for every handle.
Unload ==
    /\ count' = [m \in Module |-> count[m] - (IF m \in handles THEN 1 ELSE 0)]
    /\ handles' = {}
    /\ openssl' = FALSE

\* Mutant of Teardown: a module is forgotten.
TeardownOneModule ==
    /\ count' = [count EXCEPT !["ssl"] = @ - (IF openssl THEN 1 ELSE 0)]
    /\ handles' = {} /\ openssl' = FALSE
    /\ regex' = FALSE /\ global' = FALSE /\ ability' = {} /\ escaped' = FALSE

\* deinit_LAshe() when __lashe::global is not null.
Teardown ==
    /\ Unload
    /\ regex' = FALSE
    /\ global' = FALSE /\ ability' = {}
    /\ escaped' = FALSE

\* Mutant of InitAgain: the new abilities are recorded, and nothing is loaded.
InitAgainRecords(abilities) ==
    /\ step = "idle" /\ global
    /\ ability' = ability \cup abilities
    /\ answer' = "done"
    /\ UNCHANGED <<step, global, regex, modules, others, escaped>>

\* init_LAshe() when the library is initialised: it returns, whatever it was
\* asked for.
InitAgain(abilities) ==
    /\ step = "idle" /\ global
    /\ answer' = "done"
    /\ UNCHANGED <<step, globals, modules, others, escaped>>

\* Before anything is set: a flag lacks its value, the OS code is missing or
\* incompatible, or an ability is unknown; or there is no memory for a set.
InitRefused ==
    /\ step = "idle" /\ ~global
    /\ answer' \in {"HelperException", "std::exception"}
    /\ UNCHANGED <<step, globals, modules, others, escaped>>

\* The flags are good: __lashe::global is set.
InitBegins(abilities) ==
    /\ step = "idle" /\ ~global
    /\ global' = TRUE /\ ability' = abilities
    /\ step' = "regex"
    /\ UNCHANGED <<regex, modules, others, answer, escaped>>

\* std::regex throws, or there is no memory: for the abilities, for OpenSSLGlobal,
\* or for what an ashe::ModuleException would say of a module or a function that is
\* missing.  The handlers of init_openssl() and init_LAshe() are for
\* ashe::Exception only, so what was built stays as it is.
StdExceptionLeaves ==
    /\ step \in {"regex", "ssl", "crypto", "symbols"}
    /\ step' = "idle"
    /\ answer' = "std::exception"
    /\ escaped' = TRUE
    /\ IF step = "regex" THEN ability' \in SUBSET ability ELSE UNCHANGED ability
    /\ IF step = "ssl" THEN openssl' \in BOOLEAN ELSE UNCHANGED openssl
    /\ UNCHANGED <<global, regex, handles, count, others>>

RegexBuilt ==
    /\ step = "regex"
    /\ regex' = TRUE
    /\ IF "OPENSSL" \in ability
       THEN step' = "ssl" /\ UNCHANGED answer
       ELSE step' = "idle" /\ answer' = "done"
    /\ UNCHANGED <<global, ability, modules, others, escaped>>

\* init_openssl(): the OpenSSLGlobal is made and libssl.so is loaded.
SslLoaded ==
    /\ step = "ssl" /\ ~openssl
    /\ openssl' = TRUE
    /\ count' = [count EXCEPT !["ssl"] = @ + 1]
    /\ handles' = {"ssl"}
    /\ step' = "crypto"
    /\ UNCHANGED <<globals, others, answer, escaped>>

\* deinit_openssl() calls dlclose() for both handles, and one or both are null.
\* For a null one dlclose() crashes, or fails, and then unload_module() throws out
\* of deinit_openssl(), which is noexcept.
ClosesNull ==
    /\ step' = "died"
    /\ openssl' = TRUE
    /\ count' = [m \in Module |-> count[m] - (IF m \in handles THEN 1 ELSE 0)]
    /\ UNCHANGED <<globals, handles, others, answer, escaped>>

\* dlopen() returns NULL for libssl.so or libcrypto.so: the rollback.
LoadFails ==
    /\ step \in Module \ others
    /\ ClosesNull

CryptoLoaded ==
    /\ step = "crypto"
    /\ count' = [count EXCEPT !["crypto"] = @ + 1]
    /\ handles' = handles \cup {"crypto"}
    /\ step' = "symbols"
    /\ UNCHANGED <<globals, openssl, others, answer, escaped>>

\* Mutant of SymbolMissing: init_LAshe() does not call deinit_LAshe().
SymbolMissingUnloadsOnly ==
    /\ step = "symbols"
    /\ Unload
    /\ step' = "idle"
    /\ answer' = "HelperException"
    /\ UNCHANGED <<globals, others, escaped>>

\* load_func() does not find a function: deinit_openssl(), deinit_LAshe(), and
\* an ashe::HelperException.
SymbolMissing ==
    /\ step = "symbols"
    /\ Teardown
    /\ step' = "idle"
    /\ answer' = "HelperException"
    /\ UNCHANGED others

SymbolsFound ==
    /\ step = "symbols"
    /\ step' = "idle"
    /\ answer' = "done"
    /\ UNCHANGED <<globals, modules, others, escaped>>

\* deinit_LAshe().
Deinit ==
    /\ step = "idle" /\ global
    /\ openssl => handles = Module
    /\ Teardown
    /\ UNCHANGED <<step, others, answer>>

\* The same, when a std::exception has left a handle null.
DeinitDies ==
    /\ step = "idle" /\ openssl /\ handles # Module
    /\ ClosesNull

\* The program loads or unloads one of the modules for itself.
ProgramLoads(m) ==
    /\ m \notin others /\ step = "idle"
    /\ others' = others \cup {m}
    /\ count' = [count EXCEPT ![m] = @ + 1]
    /\ UNCHANGED <<step, globals, openssl, handles, answer, escaped>>

ProgramUnloads(m) ==
    /\ m \in others /\ step = "idle"
    /\ others' = others \ {m}
    /\ count' = [count EXCEPT ![m] = @ - 1]
    /\ UNCHANGED <<step, globals, openssl, handles, answer, escaped>>

Next ==
    \/ \E abilities \in SUBSET Ability :
        InitAgain(abilities) \/ InitBegins(abilities)
    \/ InitRefused
    \/ StdExceptionLeaves
    \/ RegexBuilt
    \/ SslLoaded
    \/ CryptoLoaded
    \/ LoadFails
    \/ SymbolMissing
    \/ SymbolsFound
    \/ Deinit \/ DeinitDies
    \/ \E m \in ProgramModules : ProgramLoads(m) \/ ProgramUnloads(m)

Spec == Init /\ [][Next]_vars
------------------------------------------------------------------------------
TypeOK ==
    /\ step \in Step
    /\ global \in BOOLEAN /\ ability \subseteq Ability
    /\ regex \in BOOLEAN /\ openssl \in BOOLEAN /\ escaped \in BOOLEAN
    /\ handles \subseteq Module /\ others \subseteq Module
    /\ count \in [Module -> Nat]
    /\ answer \in Answers

\* Every module is loaded once for each handle that LibAshe keeps, and no
\* handle is kept that it will not close, however initialisations fail, are
\* repeated and are undone.
ModulesBalanced ==
    step # "died" =>
        \A m \in Module :
            count[m] = (IF m \in handles THEN 1 ELSE 0)
                     + (IF m \in others THEN 1 ELSE 0)

\* What is up stays whole: between calls, the ability is recorded exactly when
\* its functions are loaded and the expressions are built.  The exception is known:
\* a std::exception that has left init_LAshe(), until deinit_LAshe().
AbilityIsBacked ==
    step = "idle" /\ ~escaped =>
        /\ regex <=> global
        /\ openssl <=> "OPENSSL" \in ability
        /\ handles = IF openssl THEN Module ELSE {}

\* An initialisation that fails with a HelperException has undone all it did:
\* the library is down, and the next init_LAshe() starts afresh.
FailureLeavesNothing ==
    [][ answer' = "HelperException" /\ step' = "idle" /\ step # "idle"
        => /\ ~global' /\ ability' = {} /\ ~regex' /\ ~openssl'
           /\ \A m \in Module \ others' : count'[m] = 0 ]_vars

\* What tests/uuid/uuid-collision_test.cpp:169-174 relies on, and what the
\* handler in init_LAshe() is for: an initialisation that fails is reported by
\* an exception, and the program goes on.
FailureIsReported == step # "died"
==============================================================================

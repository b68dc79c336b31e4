------------------------------ MODULE UuidEngine ------------------------------
(***************************************************************************)
(* ashe::MersenneTwisterUUIDEngine (src/UUID.cpp), which makes random      *)
(* UUIDs: the digest of a pool of random numbers, the first of which is a  *)
(* counter.                                                                *)
(***************************************************************************)
EXTENDS Integers, Sequences, Bitwise

CONSTANTS Raws,        \* digests: sixteen bytes each
          PoolSizes,   \* what poolSize() is called with; there is memory for it
          MaxCount     \* the largest value of cnt

VARIABLES openssl,    \* OPENSSL is among the library's abilities
          engine,     \* "none", "ready", or "dead": the process has crashed
          poolSize,   \* poolSize
          pool,       \* pool.size()
          cnt,        \* cnt
          generated   \* history: what generate() returned last

engineVars == <<openssl, engine, poolSize, pool, cnt, generated>>

EngineInit ==
    /\ openssl \in BOOLEAN /\ engine = "none"
    /\ poolSize = 32 /\ pool = 0 /\ cnt = 0 /\ generated = <<>>

EngineConstruct ==
    /\ engine = "none" /\ openssl
    /\ engine' = "ready" /\ poolSize' = 32 /\ pool' = 0 /\ cnt' = 0
    /\ UNCHANGED <<openssl, generated>>

\* md.open() throws: the private data is deleted, and there is no engine.
EngineConstructFails ==
    /\ engine = "none" /\ ~openssl
    /\ UNCHANGED engineVars

EngineDestroy ==
    /\ engine = "ready"
    /\ engine' = "none"
    /\ UNCHANGED <<openssl, poolSize, pool, cnt, generated>>

SetPoolSize(n) ==
    /\ engine = "ready"
    /\ poolSize' = n
    /\ UNCHANGED <<openssl, engine, pool, cnt, generated>>

\* randomise() fills a pool of its own, which goes away when it returns: the
\* engine's pool has the size it had.
Randomise ==
    /\ engine = "ready"
    /\ cnt' = 0
    /\ UNCHANGED <<openssl, engine, poolSize, pool, generated>>

\* put_glamour() writes the version and the two bits of the variant.
PutGlamour(b, version) ==
    [ b EXCEPT ![7] = (b[7] & 15) | (version * 16),
               ![9] = (((((b[9] & 240) \div 16) % 4) + 8) * 16) | (b[9] & 15) ]

\* generate() randomises an empty pool, or a counter at its end, and then writes
\* the counter to pool[0].  An empty vector has no memory there: the process dies.
Generate ==
    /\ engine = "ready"
    /\ \/ /\ pool = 0
          /\ engine' = "dead"
          /\ cnt' = 0
          /\ UNCHANGED generated
       \/ /\ pool > 0
          /\ \E digest \in Raws : generated' = PutGlamour(digest, 4)
          /\ cnt' = (IF cnt = MaxCount THEN 0 ELSE cnt) + 1
          /\ UNCHANGED engine
    /\ UNCHANGED <<openssl, poolSize, pool>>

EngineNext ==
    \/ EngineConstruct \/ EngineConstructFails \/ EngineDestroy
    \/ \E n \in PoolSizes : SetPoolSize(n)
    \/ Randomise
    \/ Generate

EngineSpec == EngineInit /\ [][EngineNext]_engineVars
------------------------------------------------------------------------------
\* What src/libashe/UUID.hpp:109 says of generate(): "Generates a version 4,
\* randomly generated UUID."  For that it has to return.
GenerateReturns == engine # "dead"
==============================================================================

----------------------------- MODULE CacheStore -----------------------------
(***************************************************************************)
(* What the payload cache (detail/cache.hpp) promises the heap, without    *)
(* the LRU list, the byte budget and the counters: at most one entry per   *)
(* name, a get returns an entry only if its version is the one asked for   *)
(* and drops it otherwise, and a put either leaves the cache as it is or   *)
(* inserts the entry at the price of any other entries.  PayloadCache is   *)
(* shown to implement this specification; HeapState builds on it.          *)
(***************************************************************************)
EXTENDS Layout

Entry == [version : Nat, payload : Bytes]
NoEntry == [version |-> 0, payload |-> << >>]
EmptyCache == [n \in Names |-> NoEntry]

(* payload_cache::get                                                      *)
Hit(cache, n, version) == cache[n].version = version

AfterGet(cache, n, version) ==
    IF Hit(cache, n, version) THEN cache ELSE [cache EXCEPT ![n] = NoEntry]

(* payload_cache::put: a payload larger than the limit is not admitted,    *)
(* and then an older entry of the same name stays.                         *)
AfterPut(cache, n, version, payload) ==
    {cache} \cup
    {[m \in Names |-> IF m = n
                      THEN [version |-> version, payload |-> payload]
                      ELSE IF m \in kept THEN cache[m] ELSE NoEntry]
        : kept \in SUBSET Names}
=============================================================================

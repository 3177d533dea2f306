---------------------------- MODULE PayloadCache ----------------------------
(***************************************************************************)
(* The byte-bounded LRU cache of encoded payloads (detail/cache.hpp).  The *)
(* list holds the most recently used entry first; entries_ is its index by *)
(* name and is left out.  Each operation runs under the cache's own mutex  *)
(* and is one action.                                                      *)
(***************************************************************************)
EXTENDS CacheStore, SequencesExt

CONSTANTS Limit,      \* heap_config::cache_bytes
          Versions,   \* bound: versions that are asked for or stored
          MaxOps      \* bound: hits, misses and puts

VARIABLES lru, bytes, hits, misses, evictions,
          used   \* history: per name, the time of its last hit or put

pvars == <<lru, bytes, hits, misses, evictions, used>>

CacheInit ==
    /\ lru = << >>
    /\ bytes = 0 /\ hits = 0 /\ misses = 0 /\ evictions = 0
    /\ used = [n \in Names |-> 0]

Clock == LET times == {used[n] : n \in Names}
         IN  CHOOSE c \in times : \A d \in times : d <= c

Touch(n) == used' = [used EXCEPT ![n] = Clock + 1]

Position(n) == {i \in DOMAIN lru : lru[i].name = n}
Size(entry) == Len(entry.payload)

(* Seeded faults for Without and BytesWithout: the old entry stays in the  *)
(* list; its bytes are not given back.                                     *)
WithoutNothing(n) == lru
BytesKept(n) == bytes

(* erase, if there is an entry of the name.                                *)
Without(n) == IF Position(n) = {} THEN lru
              ELSE RemoveAt(lru, CHOOSE i \in Position(n) : TRUE)
BytesWithout(n) == IF Position(n) = {} THEN bytes
                   ELSE bytes - Size(lru[CHOOSE i \in Position(n) : TRUE])

Total(list) ==
    LET sum[i \in 0 .. Len(list)] ==
            IF i = 0 THEN 0 ELSE sum[i - 1] + Size(list[i])
    IN  sum[Len(list)]

(* Seeded fault for Get: a hit does not move its entry to the front.       *)
GetInPlace(n, version) ==
    LET entry == lru[CHOOSE i \in Position(n) : TRUE]
        found == Position(n) # {} /\ entry.version = version
    IN  /\ Clock + misses < MaxOps
        /\ IF found
           THEN /\ hits' = hits + 1
                /\ Touch(n)
                /\ UNCHANGED <<lru, bytes, misses>>
           ELSE /\ lru' = Without(n)
                /\ bytes' = BytesWithout(n)
                /\ misses' = misses + 1
                /\ UNCHANGED <<hits, used>>
        /\ UNCHANGED evictions

(* get: an entry of another version is a miss and is erased.               *)
Get(n, version) ==
    LET entry == lru[CHOOSE i \in Position(n) : TRUE]
        found == Position(n) # {} /\ entry.version = version
    IN  /\ Clock + misses < MaxOps
        /\ IF found
           THEN /\ lru' = <<entry>> \o Without(n)
                /\ hits' = hits + 1
                /\ Touch(n)
                /\ UNCHANGED <<bytes, misses>>
           ELSE /\ lru' = Without(n)
                /\ bytes' = BytesWithout(n)
                /\ misses' = misses + 1
                /\ UNCHANGED <<hits, used>>
        /\ UNCHANGED evictions

(* put: a payload over the limit is handed back uncached.  Otherwise the   *)
(* old entry of the name goes, then entries from the cold end until the    *)
(* new one fits.                                                           *)
Put(n, version, payload) ==
    LET rest == Without(n)
        Fits(k) == BytesWithout(n) - Total(SubSeq(rest, k + 1, Len(rest)))
                       + Len(payload) <= Limit
        kept == CHOOSE k \in 0 .. Len(rest) :
                    /\ k = 0 \/ Fits(k)
                    /\ \A j \in k + 1 .. Len(rest) : ~ Fits(j)
    IN  /\ Clock + misses < MaxOps
        /\ Limit > 0 /\ Len(payload) <= Limit
        /\ lru' = <<[name |-> n, version |-> version, payload |-> payload]>>
                      \o SubSeq(rest, 1, kept)
        /\ bytes' = BytesWithout(n)
                        - Total(SubSeq(rest, kept + 1, Len(rest)))
                        + Len(payload)
        /\ evictions' = evictions + (Len(rest) - kept)
        /\ Touch(n)
        /\ UNCHANGED <<hits, misses>>

(* clear leaves the counters alone.                                        *)
Clear ==
    /\ lru' = << >>
    /\ bytes' = 0
    /\ UNCHANGED <<hits, misses, evictions, used>>

CacheNext ==
    \/ \E n \in Names, v \in Versions : Get(n, v)
    \/ \E n \in Names, v \in Versions, p \in Payloads : Put(n, v, p)
    \/ Clear

CacheSpec == CacheInit /\ [][CacheNext]_pvars

-----------------------------------------------------------------------------
(* The byte count the eviction loop works with is exactly the size of the  *)
(* retained payloads, and never over the configured limit (put, erase and  *)
(* clear each keep it in their own way).                                   *)
BytesExact == bytes = Total(lru) /\ bytes <= Limit

(* A put evicts from the cold end: an entry that survives an eviction was  *)
(* hit or stored later than every entry evicted.                           *)
EvictColdest ==
    evictions' > evictions =>
        \A i \in DOMAIN lru, j \in DOMAIN lru' :
            (\A k \in DOMAIN lru' : lru'[k].name # lru[i].name)
                => used[lru[i].name] < used'[lru'[j].name]

Abstract(list) ==
    [n \in Names |->
        IF \E i \in DOMAIN list : list[i].name = n
        THEN LET i == CHOOSE i \in DOMAIN list : list[i].name = n
             IN  [version |-> list[i].version, payload |-> list[i].payload]
        ELSE NoEntry]

(* Each operation does to the entries what the abstract cache of HeapState *)
(* may do, and keeps one entry per name.                                   *)
AbstractStep ==
    /\ Cardinality({lru'[i].name : i \in DOMAIN lru'}) = Len(lru')
    /\ \/ Abstract(lru') = EmptyCache
       \/ \E n \in Names, v \in Versions :
             Abstract(lru') = AfterGet(Abstract(lru), n, v)
       \/ \E n \in Names, v \in Versions, p \in Payloads :
             Abstract(lru') \in AfterPut(Abstract(lru), n, v, p)
=============================================================================

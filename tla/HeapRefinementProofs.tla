------------------------ MODULE HeapRefinementProofs ------------------------
(***************************************************************************)
(* HeapState implements VersionedStore: with checksums on, every step of   *)
(* the heap is a step of the abstract store or leaves it alone.  Besides   *)
(* the invariants of HeapSafetyProofs (locks, versions, transaction ids)   *)
(* and the one about reads (bytes and versions belong together), which the *)
(* first part of this module establishes, the simulation needs to know     *)
(* which call a thread is in (OpOK), and that a commit that waits for its  *)
(* barrier has all its dirty roots on its list (ListOK).                   *)
(***************************************************************************)
EXTENDS HeapSafetyProofs, HeapRefinement

-----------------------------------------------------------------------------
(***************************************************************************)
(* What a transaction reads.  With checksums on, the bytes a load returns  *)
(* are those of the version it returns with them, through the cache or     *)
(* from the files, whatever commits and checkpoints run meanwhile and      *)
(* whichever storage calls fail.  The argument needs no fact about offsets *)
(* and file contents: a locator that has gone stale is caught by the       *)
(* checksum it carries, and the checksum is the one of the version it was  *)
(* published with (layer 2 of HeapSafetyProofs).                           *)
(***************************************************************************)


Good(n, version, bytes) ==
    /\ version \in 1 .. Len(hist[n])
    /\ bytes = hist[n][version].data

WorkGood(n, work) ==
    work.token > 0 =>
        /\ work.expected <= Len(hist[n])
        /\ ~ work.dirty => Good(n, work.expected, work.data)

ReadOK(t) ==
    pc[t] \in Loading => Good(call[t].name, call[t].record.version,
                              call[t].record.payload.sum)

(* The record a load works with belongs to a published version; so do the  *)
(* cache entries and the clean working copies.                             *)
ReadInv ==
    /\ \A t \in Threads : ReadOK(t)
    /\ \A n \in Names : cache[n].version > 0 =>
           Good(n, cache[n].version, cache[n].payload)
    /\ \A t \in Threads, n \in Names : WorkGood(n, tx[t].work[n])

LEMMA ReadInit == Init => ReadInv
  BY DEF Init, ReadInv, ReadOK, WorkGood, Loading, EmptyCache, NoEntry, NoTx,
         NoWork, WorkingRoot

LEMMA ReadGives == ASSUME TypeInv, ReadInv PROVE CacheCoherent /\ WorkingCopies
<1>1. CacheCoherent
  BY DEF ReadInv, Good, CacheCoherent
<1>2. WorkingCopies
  BY DEF ReadInv, Good, WorkGood, WorkingCopies
<1> QED
  BY <1>1, <1>2

(* Histories only grow.                                                    *)
LEMMA HistGrows ==
    ASSUME SafeInv, NEW t \in Threads, Application(t) \/ CallStep(t),
           NEW n \in Names
    PROVE  /\ Len(hist[n]) \in Nat /\ Len(hist'[n]) \in Nat
           /\ Len(hist[n]) <= Len(hist'[n])
           /\ \A v \in 1 .. Len(hist[n]) : hist'[n][v] = hist[n][v]
<1>1. hist \in [Names -> Seq(Version)] /\ Len(hist[n]) \in Nat
  BY DEF SafeInv, TypeInv, TypeOK
<1>2. CASE ~ Publish(t)
  BY <1>1, <1>2, IndexKept DEF SafeInv
<1>3. CASE Publish(t)
  <2>1. PICK m \in Names :
          hist' = [hist EXCEPT ![m] =
             Append(@, [tx |-> tx[t].id, data |-> tx[t].work[m].data])]
    BY <1>3, StorePublish DEF SafeInv
  <2> DEFINE new == [tx |-> tx[t].id, data |-> tx[t].work[m].data]
  <2>2. hist' = [hist EXCEPT ![m] = Append(@, new)]
    BY <2>1
  <2>3. new \in Version
    BY WorkType DEF SafeInv, Version, Work
  <2> HIDE DEF new
  <2>4. CASE m = n
    BY <1>1, <2>2, <2>3, <2>4, AppendProperties
  <2>5. CASE m # n
    BY <1>1, <2>2, <2>5
  <2> QED
    BY <2>4, <2>5
<1> QED
  BY <1>2, <1>3

(* What was good stays good.                                               *)
LEMMA GoodStays ==
    ASSUME SafeInv, NEW t \in Threads, Application(t) \/ CallStep(t),
           NEW n \in Names
    PROVE  /\ \A v, b : Good(n, v, b) =>
                  /\ v \in 1 .. Len(hist'[n])
                  /\ b = hist'[n][v].data
           /\ \A e \in Nat : e <= Len(hist[n]) => e <= Len(hist'[n])
<1>1. /\ Len(hist[n]) \in Nat /\ Len(hist'[n]) \in Nat
      /\ Len(hist[n]) <= Len(hist'[n])
      /\ \A v \in 1 .. Len(hist[n]) : hist'[n][v] = hist[n][v]
  BY HistGrows
<1> QED
  BY <1>1 DEF Good

-----------------------------------------------------------------------------
(* The cache.                                                              *)

LEMMA CacheKept ==
    ASSUME NEW t \in Threads, Application(t) \/ CallStep(t),
           ~ Probe(t), ~ Fetch(t), ~ Publish(t)
    PROVE  cache' = cache
<1>1. CASE Application(t)
  BY <1>1 DEF Application, Begin, Lookup, Mutate, Abort, CommitClean,
              CommitCall, CheckpointCall, index
<1>2. CASE LoadStep(t)
  BY <1>2 DEF LoadStep, Miss, FetchFails, Throw, index
<1>3. CASE CommitStep(t)
  BY <1>3 DEF CommitStep, CommitRefused, Validate, AppendBatch, AppendFails,
              Barrier, BarrierFails, Threshold, Throw, index
<1>4. CASE CheckpointStep(t)
  BY <1>4 DEF CheckpointStep, CheckpointRefused, CheckpointLocked, Save,
              SaveFails, FlushTmp, FlushTmpFails, AtomicReplace,
              AtomicReplaceFails, SyncDirectory, SyncDirectoryFails, Install,
              Truncate, TruncateFails, SyncWal, SyncWalFails, Throw, index
<1> QED
  BY <1>1, <1>2, <1>3, <1>4 DEF CallStep

(* An entry after a put is the new one, an old one or none.                *)
LEMMA PutEntries ==
    ASSUME NEW c, NEW n \in Names, NEW v, NEW b, NEW d \in AfterPut(c, n, v, b),
           NEW m \in Names
    PROVE  \/ d[m] = c[m]
           \/ d[m] = NoEntry
           \/ m = n /\ d[m] = [version |-> v, payload |-> b]
  BY DEF AfterPut

(* With checksums, a fetch returns the bytes of the record's version.      *)
LEMMA FetchGood ==
    ASSUME Checksums, TypeInv, ReadInv, NEW t \in Threads, Fetch(t)
    PROVE  Good(call[t].name, call[t].record.version,
                PayloadBytes(call[t].record.payload))
<1>1. PayloadBytes(call[t].record.payload) = call[t].record.payload.sum
  BY DEF Fetch, PayloadLoads, Crc32c
<1>2. ReadOK(t) /\ pc[t] \in Loading
  BY DEF ReadInv, Fetch, Loading
<1> QED
  BY <1>1, <1>2 DEF ReadOK

CacheGood(c, n) ==
    c[n].version > 0 => /\ c[n].version \in 1 .. Len(hist'[n])
                        /\ c[n].payload = hist'[n][c[n].version].data

LEMMA ReadCache ==
    ASSUME Checksums, SafeInv, ReadInv, NEW t \in Threads,
           Application(t) \/ CallStep(t)
    PROVE  \A n \in Names : CacheGood(cache', n)
<1> SUFFICES ASSUME NEW n \in Names PROVE CacheGood(cache', n)
  OBVIOUS
<1>1. CacheGood(cache, n)
  BY GoodStays DEF CacheGood, ReadInv
<1>2. \A d : d[n] = cache[n] \/ d[n] = NoEntry => CacheGood(d, n)
  BY <1>1 DEF CacheGood, NoEntry
<1>3. CASE ~ Probe(t) /\ ~ Fetch(t) /\ ~ Publish(t)
  BY <1>2, <1>3, CacheKept
<1>4. CASE Probe(t)
  <2>1. cache' = AfterGet(cache, call[t].name, call[t].record.version)
    BY <1>4 DEF Probe
  <2>2. cache'[n] = cache[n] \/ cache'[n] = NoEntry
    BY <2>1 DEF AfterGet, SafeInv, TypeInv, TypeOK
  <2> QED
    BY <1>2, <2>2
<1>5. CASE Fetch(t)
  <2> DEFINE m == call[t].name
             version == call[t].record.version
             bytes == PayloadBytes(call[t].record.payload)
  <2>1. m \in Names
    BY <1>5 DEF Fetch, SafeInv, TypeInv, CallOK
  <2>2. cache' \in AfterPut(cache, m, version, bytes)
    BY <1>5 DEF Fetch
  <2>3. Good(m, version, bytes)
    BY <1>5, FetchGood DEF SafeInv
  <2> HIDE DEF m, version, bytes
  <2>4. \/ cache'[n] = cache[n] \/ cache'[n] = NoEntry
        \/ n = m /\ cache'[n] = [version |-> version, payload |-> bytes]
    BY <2>1, <2>2, PutEntries
  <2>5. ASSUME n = m, cache'[n] = [version |-> version, payload |-> bytes]
        PROVE  CacheGood(cache', n)
    BY <2>3, <2>5, GoodStays DEF CacheGood
  <2> QED
    BY <1>2, <2>4, <2>5
<1>6. CASE Publish(t)
  <2>1. PICK m \in Names :
          /\ hist' = [hist EXCEPT ![m] =
                Append(@, [tx |-> tx[t].id, data |-> tx[t].work[m].data])]
          /\ cache' \in AfterPut(cache, m, Len(hist[m]) + 1,
                                 tx[t].work[m].data)
    BY <1>6, StorePublish DEF SafeInv
  <2> DEFINE new == [tx |-> tx[t].id, data |-> tx[t].work[m].data]
  <2>2. new.data = tx[t].work[m].data
    OBVIOUS
  <2>3. hist' = [hist EXCEPT ![m] = Append(@, new)]
    BY <2>1
  <2>4. new \in Version
    BY WorkType DEF SafeInv, Version, Work
  <2> HIDE DEF new
  <2>5. /\ hist[m] \in Seq(Version) /\ Len(hist[m]) \in Nat
        /\ hist \in [Names -> Seq(Version)]
    BY DEF SafeInv, TypeInv, TypeOK
  <2>6. /\ Len(hist'[m]) = Len(hist[m]) + 1
        /\ hist'[m][Len(hist[m]) + 1] = new
    BY <2>3, <2>4, <2>5, AppendProperties
  <2>7. \/ cache'[n] = cache[n] \/ cache'[n] = NoEntry
        \/ n = m /\ cache'[n] = [version |-> Len(hist[m]) + 1,
                                 payload |-> tx[t].work[m].data]
    BY <2>1, PutEntries
  <2>8. ASSUME n = m, cache'[n] = [version |-> Len(hist[m]) + 1,
                                   payload |-> tx[t].work[m].data]
        PROVE  CacheGood(cache', n)
    BY <2>2, <2>5, <2>6, <2>8 DEF CacheGood
  <2> QED
    BY <1>2, <2>7, <2>8
<1> QED
  BY <1>3, <1>4, <1>5, <1>6

-----------------------------------------------------------------------------
(* Loads in progress.                                                      *)

ReadKept(t) ==
    pc'[t] \in Loading =>
        /\ call'[t].record.version \in 1 .. Len(hist'[call'[t].name])
        /\ call'[t].record.payload.sum
             = hist'[call'[t].name][call'[t].record.version].data

(* Only a load enters or continues a load.                                 *)
LEMMA LoadingKept ==
    ASSUME TypeInv, NEW t \in Threads, Application(t) \/ CallStep(t),
           pc'[t] \in Loading
    PROVE  (\E n \in Names : Lookup(t, n)) \/ Probe(t) \/ Miss(t)
<1> USE DEF TypeInv, TypeOK, Loading
<1>1. CASE Application(t)
  BY <1>1 DEF Application, Begin, Mutate, Abort, CommitClean, CommitCall,
              CheckpointCall, Goto, control
<1>2. CASE LoadStep(t)
  BY <1>2 DEF LoadStep, Fetch, FetchFails, Deliver, Throw, Leave, Goto
<1>3. CASE CommitStep(t)
  BY <1>3 DEF CommitStep, CommitRefused, Validate, AppendBatch, AppendFails,
              Barrier, BarrierFails, Publish, Threshold, Return, Throw, Leave,
              Goto
<1>4. CASE CheckpointStep(t)
  BY <1>4 DEF CheckpointStep, CheckpointRefused, CheckpointLocked, Save,
              SaveFails, FlushTmp, FlushTmpFails, AtomicReplace,
              AtomicReplaceFails, SyncDirectory, SyncDirectoryFails, Install,
              Truncate, TruncateFails, SyncWal, SyncWalFails, Return, Throw,
              Leave, Goto
<1> QED
  BY <1>1, <1>2, <1>3, <1>4 DEF CallStep

(* The index has, for each name, the checksum of its last version.         *)
LEMMA IndexGood ==
    ASSUME SafeInv, NEW n \in Names, roots[n].version # 0
    PROVE  Good(n, roots[n].version, roots[n].payload.sum)
<1>1. roots[n].version \in Nat /\ roots[n].version = Len(hist[n])
  BY DEF SafeInv, TypeInv, TypeOK, RootRecord, StoreInv, IndexOK
<1> QED
  BY <1>1 DEF SafeInv, StoreInv, IndexOK, Good

LEMMA ReadLoads ==
    ASSUME SafeInv, ReadInv, NEW t \in Threads, Application(t) \/ CallStep(t)
    PROVE  \A u \in Threads : ReadKept(u)
<1> USE DEF SafeInv
<1>1. ASSUME NEW u \in Threads \ {t}
      PROVE  ReadKept(u)
  <2>1. pc'[u] = pc[u] /\ call'[u] = call[u]
    BY <1>1, OthersKept
  <2>2. pc[u] \in Loading => call[u].name \in Names
    BY DEF TypeInv, CallOK, Loading
  <2>3. ReadOK(u)
    BY DEF ReadInv
  <2> QED
    BY <2>1, <2>2, <2>3, GoodStays DEF ReadOK, ReadKept
<1>2. ASSUME pc'[t] \in Loading
      PROVE  ReadKept(t)
  <2>1. ASSUME NEW n \in Names, Lookup(t, n)
        PROVE  ReadKept(t)
    <3>1. CASE roots[n].version = 0
      BY <1>2, <2>1, <3>1
      DEF Lookup, Deliver, Leave, Goto, Loading, TypeInv, TypeOK
    <3>2. CASE roots[n].version # 0
      <4>1. call'[t].name = n /\ call'[t].record = roots[n]
        BY <2>1, <3>2 DEF Lookup, TypeInv, TypeOK
      <4>2. Good(n, roots[n].version, roots[n].payload.sum)
        BY <3>2, IndexGood
      <4> QED
        BY <4>1, <4>2, GoodStays DEF ReadKept
    <3> QED
      BY <3>1, <3>2
  <2>2. CASE Probe(t)
    <3>1. pc[t] \in Loading /\ call[t].name \in Names
      BY <2>2 DEF Probe, Loading, TypeInv, CallOK
    <3>2. call'[t] = call[t]
      BY <1>2, <2>2 DEF Probe, Deliver, Leave, Goto, Loading, TypeInv, TypeOK
    <3>3. Good(call[t].name, call[t].record.version,
               call[t].record.payload.sum)
      BY <3>1 DEF ReadInv, ReadOK
    <3> QED
      BY <3>1, <3>2, <3>3, GoodStays DEF ReadKept
  <2>3. CASE Miss(t)
    <3>1. /\ call[t].name \in Names
          /\ pc[t] \in Loading
          /\ call'[t].name = call[t].name
          /\ call'[t].record = roots[call[t].name]
      BY <2>3 DEF Miss, Loading, TypeInv, CallOK, TypeOK, Call
    <3>2. roots[call[t].name].version # 0
      <4>1. Good(call[t].name, call[t].record.version,
                 call[t].record.payload.sum)
        BY <3>1 DEF ReadInv, ReadOK
      <4>2. /\ roots[call[t].name].version = Len(hist[call[t].name])
            /\ Len(hist[call[t].name]) \in Nat
        BY <3>1 DEF StoreInv, IndexOK, TypeInv, TypeOK
      <4> QED
        BY <4>1, <4>2 DEF Good
    <3>3. Good(call[t].name, roots[call[t].name].version,
               roots[call[t].name].payload.sum)
      BY <3>1, <3>2, IndexGood
    <3> QED
      BY <3>1, <3>3, GoodStays DEF ReadKept
  <2> QED
    BY <1>2, <2>1, <2>2, <2>3, LoadingKept
<1> QED
  BY <1>1, <1>2 DEF ReadKept

-----------------------------------------------------------------------------
(* Working copies.                                                         *)

WorkKept(n, work) ==
    work.token > 0 =>
        /\ work.expected <= Len(hist'[n])
        /\ ~ work.dirty => /\ work.expected \in 1 .. Len(hist'[n])
                           /\ work.data = hist'[n][work.expected].data

LEMMA DeliverGood ==
    ASSUME SafeInv, NEW t \in Threads, NEW n \in Names,
           NEW version \in Nat, NEW bytes,
           Deliver(t, n, version, bytes, FALSE),
           version <= Len(hist'[n]),
           version \in 1 .. Len(hist'[n]),
           bytes = hist'[n][version].data,
           NEW m \in Names, WorkKept(m, tx[t].work[m])
    PROVE  WorkKept(m, tx'[t].work[m])
<1> DEFINE w == WorkingRoot(Cardinality(Loaded(tx[t].work)) + 1,
                            version, FALSE, bytes)
<1>1. tx' = tx \/ tx' = [tx EXCEPT ![t].work[n] = w]
  BY DEF Deliver
<1>2. w.expected = version /\ ~ w.dirty /\ w.data = bytes
  BY DEF WorkingRoot
<1> HIDE DEF w
<1>3. CASE tx' = tx
  BY <1>3
<1>4. CASE tx' = [tx EXCEPT ![t].work[n] = w]
  <2>1. tx \in [Threads -> Transaction] /\ tx[t] \in Transaction
    BY DEF SafeInv, TypeInv, TypeOK
  <2>2. tx'[t].work = [tx[t].work EXCEPT ![n] = w]
    BY <1>4, <2>1 DEF Transaction
  <2>3. tx[t].work \in [Names -> Work]
    BY <2>1 DEF Transaction
  <2>4. CASE m = n
    BY <1>2, <2>2, <2>3, <2>4 DEF WorkKept
  <2>5. CASE m # n
    BY <2>2, <2>3, <2>5
  <2> QED
    BY <2>4, <2>5
<1> QED
  BY <1>1, <1>3, <1>4

LEMMA ReadWork ==
    ASSUME Checksums, SafeInv, ReadInv, NEW t \in Threads,
           Application(t) \/ CallStep(t)
    PROVE  \A u \in Threads, n \in Names : WorkKept(n, tx'[u].work[n])
<1> USE DEF SafeInv
<1>1. ASSUME NEW u \in Threads, NEW m \in Names
      PROVE  WorkKept(m, tx[u].work[m])
  <2>1. WorkGood(m, tx[u].work[m])
    BY DEF ReadInv
  <2>2. tx[u].work[m].expected \in Nat
    BY WorkType DEF Work
  <2> QED
    BY <2>1, <2>2, GoodStays DEF WorkGood, WorkKept
<1>2. \A u \in Threads \ {t} : tx'[u] = tx[u]
  BY OthersKept
<1>3. ASSUME NEW m \in Names
      PROVE  WorkKept(m, tx'[t].work[m])
  <2>1. CASE tx'[t] = tx[t]
    BY <1>1, <2>1
  <2>2. CASE tx'[t].work = NoTx.work
    BY <2>2 DEF NoTx, NoWork, WorkingRoot, WorkKept
  <2>3. ASSUME NEW n \in Names, Lookup(t, n)
        PROVE  WorkKept(m, tx'[t].work[m])
    <3>1. CASE roots[n].version = 0
      <4>1. Deliver(t, n, 0, NullPayload, TRUE) /\ hist' = hist
        BY <2>3, <3>1 DEF Lookup
      <4>2. 0 <= Len(hist'[n])
        BY <4>1 DEF TypeInv, TypeOK
      <4>3. WorkKept(m, tx[t].work[m])
        BY <1>1
      <4> DEFINE w == WorkingRoot(Cardinality(Loaded(tx[t].work)) + 1,
                                  0, TRUE, NullPayload)
      <4>4. tx' = tx \/ tx' = [tx EXCEPT ![t].work[n] = w]
        BY <4>1 DEF Deliver
      <4>5. w.expected = 0 /\ w.dirty
        BY DEF WorkingRoot
      <4> HIDE DEF w
      <4>6. CASE tx' = [tx EXCEPT ![t].work[n] = w]
        <5>1. tx \in [Threads -> Transaction] /\ tx[t] \in Transaction
          BY DEF TypeInv, TypeOK
        <5>2. tx'[t].work = [tx[t].work EXCEPT ![n] = w]
          BY <4>6, <5>1 DEF Transaction
        <5>3. tx[t].work \in [Names -> Work]
          BY <5>1 DEF Transaction
        <5> QED
          BY <4>2, <4>3, <4>5, <5>2, <5>3 DEF WorkKept
      <4> QED
        BY <2>1, <4>4, <4>6
    <3>2. CASE roots[n].version # 0
      BY <2>1, <2>3, <3>2 DEF Lookup
    <3> QED
      BY <3>1, <3>2
  <2>4. ASSUME NEW n \in Names, NEW p \in Payloads, Mutate(t, n, p)
        PROVE  WorkKept(m, tx'[t].work[m])
    <3> DEFINE w == WorkingRoot(tx[t].work[n].token, tx[t].work[n].expected,
                                TRUE, p)
    <3>1. tx' = [tx EXCEPT ![t].work[n] = w]
      BY <2>4 DEF Mutate
    <3>2. /\ w.token = tx[t].work[n].token /\ w.dirty
          /\ w.expected = tx[t].work[n].expected
      BY DEF WorkingRoot
    <3> HIDE DEF w
    <3>3. tx \in [Threads -> Transaction] /\ tx[t] \in Transaction
      BY DEF TypeInv, TypeOK
    <3>4. tx'[t].work = [tx[t].work EXCEPT ![n] = w]
      BY <3>1, <3>3 DEF Transaction
    <3>5. tx[t].work \in [Names -> Work]
      BY <3>3 DEF Transaction
    <3>6. WorkKept(m, tx[t].work[m])
      BY <1>1
    <3> QED
      BY <3>2, <3>4, <3>5, <3>6 DEF WorkKept
  <2>5. CASE Probe(t)
    <3> DEFINE n == call[t].name
               version == call[t].record.version
    <3>1. /\ n \in Names /\ version \in Nat /\ ReadOK(t)
          /\ pc[t] \in Loading /\ hist' = hist
      BY <2>5 DEF Probe, Loading, TypeInv, TypeOK, CallOK, Call, RootRecord,
                  ReadInv
    <3>2. CASE Hit(cache, n, version)
      <4>1. Deliver(t, n, version, cache[n].payload, FALSE)
        BY <2>5, <3>2 DEF Probe
      <4>2. version \in 1 .. Len(hist[n])
        BY <3>1 DEF ReadOK, Good
      <4>3. cache[n].payload = hist[n][version].data
        BY <3>1, <3>2, <4>2 DEF Hit, ReadInv, Good
      <4>4. Len(hist[n]) \in Nat
        BY <3>1 DEF TypeInv, TypeOK
      <4> HIDE DEF n, version
      <4>5. version <= Len(hist'[n]) /\ version \in 1 .. Len(hist'[n])
            /\ cache[n].payload = hist'[n][version].data
        BY <3>1, <4>2, <4>3, <4>4
      <4>6. WorkKept(m, tx[t].work[m])
        BY <1>1
      <4> QED
        BY <3>1, <4>1, <4>5, <4>6, DeliverGood, Zenon
    <3>3. CASE ~ Hit(cache, n, version)
      BY <2>1, <2>5, <3>3 DEF Probe
    <3> QED
      BY <3>2, <3>3
  <2>6. CASE Fetch(t)
    <3> DEFINE n == call[t].name
               version == call[t].record.version
               bytes == PayloadBytes(call[t].record.payload)
    <3>1. /\ n \in Names /\ version \in Nat /\ hist' = hist
      BY <2>6 DEF Fetch, TypeInv, TypeOK, CallOK, Call, RootRecord
    <3>2. Deliver(t, n, version, bytes, FALSE)
      BY <2>6 DEF Fetch
    <3>3. Good(n, version, bytes) /\ Len(hist[n]) \in Nat
      BY <2>6, <3>1, FetchGood DEF TypeInv, TypeOK
    <3> HIDE DEF n, version, bytes
    <3>4. version <= Len(hist'[n]) /\ version \in 1 .. Len(hist'[n])
          /\ bytes = hist'[n][version].data
      BY <3>1, <3>3 DEF Good
    <3>5. WorkKept(m, tx[t].work[m])
      BY <1>1
    <3> QED
      BY <3>1, <3>2, <3>4, <3>5, DeliverGood, Zenon
  <2>7. CASE Begin(t)
    BY <2>2, <2>7 DEF Begin, TypeInv, TypeOK
  <2>8. CASE CommitStep(t) \/ CheckpointStep(t)
    <3>1. tx' = tx \/ tx' = [tx EXCEPT ![t] = NoTx]
      BY <2>8 DEF CommitStep, CommitRefused, Validate, AppendBatch,
              AppendFails, Barrier, BarrierFails, Publish, Threshold, Return,
              CheckpointStep, CheckpointRefused, CheckpointLocked, Save,
              SaveFails, FlushTmp, FlushTmpFails, AtomicReplace,
              AtomicReplaceFails, SyncDirectory, SyncDirectoryFails, Install,
              Truncate, TruncateFails, SyncWal, SyncWalFails, Throw
    <3> QED
      BY <2>1, <2>2, <3>1 DEF TypeInv, TypeOK
  <2>9. CASE \/ Abort(t) \/ CommitClean(t) \/ CommitCall(t)
             \/ CheckpointCall(t) \/ Miss(t) \/ FetchFails(t)
    BY <2>1, <2>2, <2>9 DEF Abort, CommitClean, CommitCall, CheckpointCall,
              Miss, FetchFails, Throw, TypeInv, TypeOK
  <2> QED
    BY <2>3, <2>4, <2>5, <2>6, <2>7, <2>8, <2>9
    DEF Application, LoadStep, CallStep
<1> QED
  BY <1>1, <1>2, <1>3

LEMMA ReadNext ==
    ASSUME Checksums, SafeInv, ReadInv, [Next]_vars
    PROVE  ReadInv'
<1>1. CASE Close \/ UNCHANGED vars
  <2>1. UNCHANGED <<cache, hist, pc, call, tx>>
    BY <1>1 DEF Close, vars, index, control
  <2> QED
    BY <2>1 DEF ReadInv, ReadOK, Good, WorkGood
<1>2. ASSUME NEW t \in Threads, Application(t) \/ CallStep(t)
      PROVE  ReadInv'
  <2>1. \A u \in Threads : ReadOK(u)'
    BY <1>2, ReadLoads DEF ReadKept, ReadOK, Good
  <2>2. (\A n \in Names : cache[n].version > 0 =>
             Good(n, cache[n].version, cache[n].payload))'
    BY <1>2, ReadCache DEF CacheGood, Good
  <2>3. (\A u \in Threads, n \in Names : WorkGood(n, tx[u].work[n]))'
    BY <1>2, ReadWork DEF WorkKept, WorkGood, Good
  <2> QED
    BY <2>1, <2>2, <2>3 DEF ReadInv
<1> QED
  BY <1>1, <1>2 DEF Next

LEMMA ReadInvariant == ASSUME Checksums PROVE Spec => [](SafeInv /\ ReadInv)
<1>1. Init => ReadInv
  BY ReadInit
<1>2. SafeInv /\ ReadInv /\ [Next]_vars => ReadInv'
  BY ReadNext
<1> QED
  BY <1>1, <1>2, SafeInvariant, PTL DEF Spec

(* With checksums enabled, every cache entry holds the bytes published     *)
(* under its name and version, whatever runs concurrently with the fill in *)
(* heap_state::load and whichever storage calls fail.                      *)
THEOREM CachedIsPublished == ASSUME Checksums PROVE Spec => []CacheCoherent
<1>1. SafeInv /\ ReadInv => CacheCoherent
  BY ReadGives DEF SafeInv
<1> QED
  BY <1>1, ReadInvariant, PTL

(* With checksums enabled, the version and the bytes that heap_state::load *)
(* returned for every unmodified working copy belong together, whether     *)
(* they came from the cache or from a file, which may have been replaced   *)
(* under the locator.                                                      *)
THEOREM LoadsAreConsistent == ASSUME Checksums PROVE Spec => []WorkingCopies
<1>1. SafeInv /\ ReadInv => WorkingCopies
  BY ReadGives DEF SafeInv
<1> QED
  BY <1>1, ReadInvariant, PTL

-----------------------------------------------------------------------------
(***************************************************************************)
(* The simulation.                                                         *)
(***************************************************************************)

Saving == {"save", "flush_tmp", "replace", "sync_dir", "install", "truncate",
           "sync_wal"}

(* The call of a thread, by its program counter.                           *)
OpOK(t) ==
    /\ pc[t] = "idle" => call[t].op = "none"
    /\ pc[t] \in Loading => call[t].op = "root"
    /\ pc[t] \in {"commit", "threshold"} \cup Committing
           => call[t].op = "commit"
    /\ pc[t] = "checkpoint" => call[t].op = "checkpoint"
    /\ pc[t] \in Saving => call[t].op \in {"commit", "checkpoint"}

(* The batch in front of the barrier updates all the dirty roots.          *)
ListOK(t) ==
    pc[t] = "barrier" =>
        \A n \in Names :
            n \in Dirty(tx[t].work) <=>
                \E i \in 1 .. Len(call[t].todo) : call[t].todo[i].name = n

(* Only an active transaction has an id.                                   *)
OverOK(t) == ~ tx[t].active => tx[t].id = 0

SimInv ==
    /\ nextTx > 0
    /\ \A t \in Threads : OpOK(t) /\ ListOK(t) /\ OverOK(t)

LEMMA SimInit == Init => SimInv
  BY DEF Init, SimInv, OpOK, ListOK, OverOK, NoCall, NoTx, Loading,
         Committing, Saving

LEMMA ListAppend ==
    ASSUME TypeInv, NEW t \in Threads, AppendBatch(t), NEW n \in Names
    PROVE  n \in Dirty(tx[t].work) <=>
               \E i \in 1 .. Len(call'[t].todo) : call'[t].todo[i].name = n
<1>1. PICK order \in CommitOrder(tx[t].work) :
        call' = [call EXCEPT ![t].todo = Locations(wal, order, tx[t].work)]
  BY DEF AppendBatch
<1>2. tx[t].work \in [Names -> Work]
  BY WorkType
<1>3. /\ Len(order) \in Nat
      /\ \A i \in 1 .. Len(order) : order[i] \in Dirty(tx[t].work)
      /\ order \in Seq(Names) /\ wal \in Seq(Record)
  BY <1>2, OrderType DEF TypeInv, TypeOK
<1>4. call'[t].todo = Locations(wal, order, tx[t].work)
  BY <1>1 DEF TypeInv, TypeOK, Call
<1>5. /\ Len(call'[t].todo) = Len(order)
      /\ \A i \in 1 .. Len(order) : call'[t].todo[i].name = order[i]
  BY <1>2, <1>3, <1>4, LocationsType DEF Locations
<1>6. ASSUME n \in Dirty(tx[t].work)
      PROVE  \E i \in 1 .. Len(order) : order[i] = n
  BY <1>2, <1>6, OrderOnto
<1> QED
  BY <1>3, <1>5, <1>6

LEMMA OpNext ==
    ASSUME TypeInv, NEW t \in Threads, Application(t) \/ CallStep(t), OpOK(t)
    PROVE  OpOK(t)'
<1> USE DEF TypeInv, TypeOK, OpOK, Loading, Committing, Saving, NoCall
<1>1. CASE Application(t)
  <2>1. ASSUME NEW n \in Names, Lookup(t, n)
        PROVE  OpOK(t)'
    <3>1. CASE roots[n].version = 0
      BY <2>1, <3>1 DEF Lookup, Deliver, Leave, Goto
    <3>2. CASE roots[n].version # 0
      <4>1. pc'[t] = "probe" /\ call'[t].op = "root"
        BY <2>1, <3>2 DEF Lookup, Goto
      <4> QED
        BY <4>1
    <3> QED
      BY <3>1, <3>2
  <2>2. CASE CommitCall(t) \/ CheckpointCall(t)
    BY <2>2 DEF CommitCall, CheckpointCall, Goto, Call
  <2>3. CASE \/ Begin(t) \/ Abort(t) \/ CommitClean(t)
             \/ \E n \in Names, p \in Payloads : Mutate(t, n, p)
    BY <2>3 DEF Begin, Mutate, Abort, CommitClean, control
  <2> QED
    BY <1>1, <2>1, <2>2, <2>3 DEF Application
<1>2. CASE LoadStep(t)
  <2>1. CASE Leave(t)
    BY <2>1 DEF Leave, Goto
  <2>2. CASE Probe(t) /\ ~ Leave(t)
    BY <2>2 DEF Probe, Deliver, Goto
  <2>3. CASE Miss(t)
    BY <2>3 DEF Miss, Goto, Call
  <2> QED
    BY <1>2, <2>1, <2>2, <2>3
    DEF LoadStep, Fetch, FetchFails, Deliver, Throw
<1>3. CASE CommitStep(t)
  <2>1. CASE Leave(t)
    BY <2>1 DEF Leave, Goto
  <2>2. CASE AppendBatch(t)
    <3>1. /\ pc[t] = "append" /\ pc'[t] \in {"barrier", "publish"}
          /\ \E todo : call' = [call EXCEPT ![t].todo = todo]
      BY <2>2 DEF AppendBatch, Goto
    <3> QED
      BY <3>1 DEF Call
  <2>3. CASE Publish(t)
    <3>1. /\ pc[t] = "publish" /\ pc'[t] \in {"publish", "threshold"}
          /\ \E todo : call' = [call EXCEPT ![t].todo = todo]
      BY <2>3 DEF Publish, Goto
    <3> QED
      BY <3>1 DEF Call
  <2>4. CASE (Validate(t) \/ Barrier(t) \/ Threshold(t)) /\ ~ Leave(t)
    BY <2>4 DEF Validate, Barrier, Threshold, Return, Goto
  <2> QED
    BY <1>3, <2>1, <2>2, <2>3, <2>4
    DEF CommitStep, CommitRefused, AppendFails, BarrierFails, Throw
<1>4. CASE CheckpointStep(t)
  BY <1>4 DEF CheckpointStep, CheckpointRefused, CheckpointLocked, Save,
              SaveFails, FlushTmp, FlushTmpFails, AtomicReplace,
              AtomicReplaceFails, SyncDirectory, SyncDirectoryFails, Install,
              Truncate, TruncateFails, SyncWal, SyncWalFails, Return, Throw,
              Leave, Goto
<1> QED
  BY <1>1, <1>2, <1>3, <1>4 DEF CallStep

LEMMA SimNext ==
    ASSUME TypeInv, \A t \in Threads : CallTx(t), SimInv, [Next]_vars
    PROVE  SimInv'
<1>1. CASE Close \/ UNCHANGED vars
  BY <1>1 DEF Close, vars, control, flags, SimInv, OpOK, ListOK, OverOK
<1>2. ASSUME NEW t \in Threads, Application(t) \/ CallStep(t)
      PROVE  SimInv'
  <2>1. \A u \in Threads \ {t} : (OpOK(u) /\ ListOK(u) /\ OverOK(u))'
    BY <1>2, OthersKept DEF SimInv, OpOK, ListOK, OverOK
  <2>2. OpOK(t)'
    BY <1>2, OpNext DEF SimInv
  <2>3. ListOK(t)'
    <3>1. CASE pc'[t] = "barrier" /\ ~ Publish(t)
      <4>1. CASE Validate(t) \/ Barrier(t)
        BY <3>1, <4>1 DEF Validate, Barrier, Goto, TypeInv, TypeOK
      <4>2. CASE AppendBatch(t)
        <5>1. tx' = tx
          BY <4>2 DEF AppendBatch
        <5> QED
          BY <4>2, <5>1, ListAppend DEF ListOK
      <4> QED
        BY <1>2, <3>1, <4>1, <4>2, IndexKept DEF Committing
    <3>2. CASE Publish(t)
      BY <3>2 DEF Publish, Goto, ListOK, TypeInv, TypeOK
    <3> QED
      BY <3>1, <3>2 DEF ListOK
  <2>4. OverOK(t)' /\ nextTx' > 0
    <3>1. CASE Begin(t)
      BY <3>1 DEF Begin, OverOK, SimInv, TypeInv, TypeOK
    <3>2. CASE ~ Begin(t)
      BY <1>2, <3>2, TxKept DEF OverOK, SimInv, TxSame, NoTx
    <3> QED
      BY <3>1, <3>2
  <2> QED
    BY <2>1, <2>2, <2>3, <2>4 DEF SimInv
<1> QED
  BY <1>1, <1>2 DEF Next

-----------------------------------------------------------------------------
(* The mapped state.  At most one thread publishes, so the history of the  *)
(* store is the heap's, or the heap's and the version about to come.       *)

HistMapped ==
    \A n \in Names :
        /\ Unpublished(n) = {} => StoreHist[n] = hist[n]
        /\ \A t \in Unpublished(n) :
               StoreHist[n] = Append(hist[n], [tx |-> tx[t].id,
                                               data |-> tx[t].work[n].data])

LEMMA Mapped == MutexInv => HistMapped
<1> SUFFICES ASSUME MutexInv, NEW n \in Names
             PROVE  /\ Unpublished(n) = {} => StoreHist[n] = hist[n]
                    /\ \A t \in Unpublished(n) :
                          StoreHist[n] =
                              Append(hist[n], [tx |-> tx[t].id,
                                               data |-> tx[t].work[n].data])
  BY DEF HistMapped
<1>1. Unpublished(n) = {} => StoreHist[n] = hist[n]
  BY DEF StoreHist
<1>2. ASSUME NEW t \in Unpublished(n)
      PROVE  StoreHist[n] = Append(hist[n], [tx |-> tx[t].id,
                                             data |-> tx[t].work[n].data])
  <2> DEFINE u == CHOOSE u \in Unpublished(n) : TRUE
  <2>1. u \in Unpublished(n)
    OBVIOUS
  <2>2. StoreHist[n] = Append(hist[n], [tx |-> tx[u].id,
                                        data |-> tx[u].work[n].data])
    BY DEF StoreHist
  <2> HIDE DEF u
  <2>3. u = t
    BY <2>1 DEF Unpublished, MutexInv, HoldsCommitMutex
  <2> QED
    BY <2>2, <2>3
<1> QED
  BY <1>1, <1>2

LEMMA MappedNext == MutexInv' => HistMapped'
  BY Mapped, PTL

(* A function of the store is determined by its values.                    *)
LEMMA MapsEqual ==
    ASSUME \A n \in Names : StoreHist'[n] = StoreHist[n]
    PROVE  StoreHist' = StoreHist
<1>1. /\ StoreHist = [n \in Names |-> StoreHist[n]]
      /\ StoreHist' = [n \in Names |-> StoreHist'[n]]
  BY DEF StoreHist
<1> QED
  BY <1>1

(* A step that neither publishes nor begins to leaves the history alone.   *)
LEMMA HistSame ==
    ASSUME SafeInv, MutexInv', NEW t \in Threads,
           Application(t) \/ CallStep(t), ~ Publish(t),
           pc[t] # "publish", pc'[t] # "publish"
    PROVE  StoreHist' = StoreHist
<1>1. hist' = hist
  BY IndexKept DEF SafeInv
<1>2. \A u \in Threads \ {t} : /\ pc'[u] = pc[u] /\ call'[u] = call[u]
                               /\ tx'[u] = tx[u]
  BY OthersKept DEF SafeInv
<1>3. HistMapped /\ HistMapped'
  BY Mapped, MappedNext DEF SafeInv
<1>4. ASSUME NEW n \in Names
      PROVE  StoreHist'[n] = StoreHist[n]
  <2>1. Unpublished(n)' = Unpublished(n)
    BY <1>2 DEF Unpublished
  <2>2. \A u \in Unpublished(n) : u \in Threads \ {t}
    BY DEF Unpublished
  <2>3. CASE Unpublished(n) = {}
    BY <1>1, <1>3, <2>1, <2>3 DEF HistMapped
  <2>4. ASSUME NEW u \in Unpublished(n)
        PROVE  StoreHist'[n] = StoreHist[n]
    <3> DEFINE new == [tx |-> tx[u].id, data |-> tx[u].work[n].data]
    <3>1. StoreHist[n] = Append(hist[n], new)
      BY <1>3 DEF HistMapped
    <3>2. u \in Unpublished(n)' /\ tx'[u] = tx[u]
      BY <1>2, <2>1, <2>2
    <3>3. StoreHist'[n] = Append(hist'[n], new)
      BY <1>3, <3>2 DEF HistMapped
    <3> QED
      BY <1>1, <3>1, <3>3
  <2> QED
    BY <2>3, <2>4
<1> QED
  BY <1>4, MapsEqual

(* Neither does publication itself: what was about to come has come.       *)
LEMMA HistPublish ==
    ASSUME SafeInv, MutexInv', NEW t \in Threads, Publish(t)
    PROVE  StoreHist' = StoreHist
<1> DEFINE todo == call[t].todo
<1>0. PICK n \in Names : n = Head(todo).name
  <2>1. /\ todo \in Seq(Update) /\ todo # << >> /\ Len(todo) \in Nat
        /\ Head(todo) = todo[1] /\ 1 \in 1 .. Len(todo)
    <3>1. pc[t] = "publish"
      BY DEF Publish
    <3> QED
      BY <3>1 DEF SafeInv, TypeInv, TypeOK, CallOK, Call
  <2>2. todo[1] \in Update
    <3> HIDE DEF todo
    <3> QED
      BY <2>1
  <2> QED
    BY <2>1, <2>2 DEF Update
<1>1. /\ pc[t] = "publish" /\ pc[t] \in HoldsCommitMutex
      /\ pc'[t] = IF Len(todo) = 1 THEN "threshold" ELSE "publish"
      /\ call'[t].todo = Tail(todo)
      /\ tx' = tx
      /\ hist' = [hist EXCEPT ![n] =
                     Append(@, [tx |-> tx[t].id, data |-> tx[t].work[n].data])]
  BY <1>0 DEF Publish, Goto, HoldsCommitMutex, SafeInv, TypeInv, TypeOK, Call
<1>2. /\ todo \in Seq(Update) /\ todo # << >> /\ Len(todo) \in Nat
      /\ 1 \in 1 .. Len(todo) /\ Head(todo) = todo[1]
      /\ DOMAIN todo = 1 .. Len(todo)
  BY <1>1 DEF SafeInv, TypeInv, TypeOK, CallOK, Call
<1>3. \A i, j \in 1 .. Len(todo) : todo[i].name = todo[j].name => i = j
  BY <1>1 DEF SafeInv, StoreInv, TodoOK
<1>4. \A u \in Threads \ {t} : /\ pc'[u] = pc[u] /\ call'[u] = call[u]
                               /\ pc[u] # "publish"
  <2>1. \A u \in Threads \ {t} : pc'[u] = pc[u] /\ call'[u] = call[u]
    BY OthersKept DEF SafeInv, CallStep, CommitStep
  <2> QED
    BY <1>1, <2>1, Alone DEF SafeInv, HoldsCommitMutex
<1>5. /\ DOMAIN Tail(todo) = 1 .. Len(todo) - 1
      /\ \A i \in 1 .. Len(todo) - 1 : Tail(todo)[i] = todo[i + 1]
  <2> HIDE DEF todo
  <2> QED
    BY <1>2
<1>6. HistMapped /\ HistMapped'
  BY Mapped, MappedNext DEF SafeInv
<1> HIDE DEF todo
<1>7. StoreHist'[n] = StoreHist[n]
  <2>1. t \in Unpublished(n)
    BY <1>0, <1>1, <1>2 DEF Unpublished, todo
  <2>2. Unpublished(n)' = {}
    <3>1. \A i \in 1 .. Len(todo) - 1 : todo[i + 1].name # n
      BY <1>0, <1>2, <1>3
    <3>2. t \notin Unpublished(n)'
      BY <1>1, <1>5, <3>1 DEF Unpublished
    <3>3. \A u \in Threads \ {t} : u \notin Unpublished(n)'
      BY <1>4 DEF Unpublished
    <3>4. Unpublished(n)' \subseteq Threads
      BY DEF Unpublished
    <3> QED
      BY <3>2, <3>3, <3>4
  <2>3. hist \in [Names -> Seq(Version)]
    BY DEF SafeInv, TypeInv, TypeOK
  <2>4. hist'[n] = Append(hist[n], [tx |-> tx[t].id,
                                    data |-> tx[t].work[n].data])
    BY <1>1, <2>3
  <2>5. StoreHist'[n] = hist'[n]
    BY <1>6, <2>2, <2>3 DEF HistMapped
  <2>6. StoreHist[n] = Append(hist[n], [tx |-> tx[t].id,
                                        data |-> tx[t].work[n].data])
    BY <1>6, <2>1, <2>3 DEF HistMapped
  <2> QED
    BY <2>4, <2>5, <2>6
<1>8. ASSUME NEW m \in Names, m # n
      PROVE  StoreHist'[m] = StoreHist[m]
  <2>1. hist'[m] = hist[m]
    BY <1>1, <1>8 DEF SafeInv, TypeInv, TypeOK
  <2>2. t \in Unpublished(m)' <=> t \in Unpublished(m)
    <3>1. ASSUME NEW i \in 1 .. Len(todo), todo[i].name = m
          PROVE  i # 1 /\ i - 1 \in 1 .. Len(todo) - 1 /\ Len(todo) # 1
      <4>1. todo[1].name = n
        BY <1>0, <1>2
      <4> QED
        BY <1>2, <1>8, <3>1, <4>1
    <3>2. \A i \in 1 .. Len(todo) : todo[i].name = m =>
              pc'[t] = "publish" /\ Tail(todo)[i - 1].name = m
      BY <1>1, <1>2, <1>5, <3>1
    <3>3. t \in Unpublished(m) <=>
              \E i \in 1 .. Len(todo) : todo[i].name = m
      BY <1>1, <1>2 DEF Unpublished, todo
    <3>4. t \in Unpublished(m)' <=>
              /\ pc'[t] = "publish"
              /\ \E i \in 1 .. Len(todo) - 1 : todo[i + 1].name = m
      BY <1>1, <1>5 DEF Unpublished
    <3> QED
      BY <1>2, <1>5, <3>1, <3>2, <3>3, <3>4
  <2>3. \/ Unpublished(m) = {} /\ Unpublished(m)' = {}
        \/ t \in Unpublished(m) /\ t \in Unpublished(m)'
    <3>1. \A u \in Threads \ {t} :
              u \notin Unpublished(m) /\ u \notin Unpublished(m)'
      BY <1>4 DEF Unpublished
    <3>2. Unpublished(m) \subseteq Threads /\ Unpublished(m)' \subseteq Threads
      BY DEF Unpublished
    <3> QED
      BY <2>2, <3>1, <3>2
  <2>4. CASE Unpublished(m) = {} /\ Unpublished(m)' = {}
    BY <1>6, <2>1, <2>4 DEF HistMapped
  <2>5. CASE t \in Unpublished(m) /\ t \in Unpublished(m)'
    <3>1. /\ StoreHist[m] = Append(hist[m], [tx |-> tx[t].id,
                                             data |-> tx[t].work[m].data])
          /\ StoreHist'[m] = Append(hist'[m], [tx |-> tx'[t].id,
                                               data |-> tx'[t].work[m].data])
      BY <1>6, <2>5 DEF HistMapped
    <3> QED
      BY <1>1, <2>1, <3>1
  <2> QED
    BY <2>3, <2>4, <2>5
<1> QED
  BY <1>7, <1>8, MapsEqual

-----------------------------------------------------------------------------
(* The phase and the read of a thread.                                     *)

PhaseIs(t) ==
    /\ pc[t] \in {"idle", "checkpoint"} => StorePhase[t] = "idle"
    /\ pc[t] \in Loading => StorePhase[t] = "reading"
    /\ pc[t] \in {"commit", "append", "barrier"}
           => StorePhase[t] = "committing"
    /\ pc[t] \in {"publish", "threshold"} => StorePhase[t] = "installed"
    /\ pc[t] \in Saving =>
           StorePhase[t] = IF call[t].op = "commit" THEN "installed" ELSE "idle"
    /\ StoreReading[t] = IF pc[t] \in Loading
                         THEN [name |-> call[t].name,
                               from |-> call[t].record.version]
                         ELSE [name |-> 0, from |-> 0]

LEMMA Phased == TypeInv /\ SimInv => \A t \in Threads : PhaseIs(t)
<1> SUFFICES ASSUME TypeInv, SimInv, NEW t \in Threads
             PROVE  PhaseIs(t)
  OBVIOUS
<1>1. OpOK(t) /\ pc[t] \in Labels
  BY DEF SimInv, TypeInv, TypeOK
<1>2. /\ call[t].op = "root" => StorePhase[t] = "reading"
      /\ call[t].op = "commit" =>
             StorePhase[t] = IF pc[t] \in {"commit", "append", "barrier"}
                             THEN "committing" ELSE "installed"
      /\ call[t].op \notin {"root", "commit"} => StorePhase[t] = "idle"
      /\ StoreReading[t] = IF call[t].op = "root"
                           THEN [name |-> call[t].name,
                                 from |-> call[t].record.version]
                           ELSE [name |-> 0, from |-> 0]
  BY DEF StorePhase, StoreReading
<1>3. pc[t] \in Loading <=> call[t].op = "root"
  BY <1>1 DEF OpOK, Labels, Loading, Committing, Saving, HoldsCommitMutex
<1>4. /\ pc[t] \in {"idle", "checkpoint"}
             => call[t].op \notin {"root", "commit"}
      /\ pc[t] \in {"commit", "append", "barrier", "publish", "threshold"}
             => call[t].op = "commit"
      /\ pc[t] \in Saving => /\ call[t].op \in {"commit", "checkpoint"}
                             /\ pc[t] \notin {"commit", "append", "barrier"}
  BY <1>1 DEF OpOK, Committing, Saving
<1>5. /\ pc[t] \in {"idle", "checkpoint"} => StorePhase[t] = "idle"
      /\ pc[t] \in Loading => StorePhase[t] = "reading"
      /\ pc[t] \in {"commit", "append", "barrier"}
             => StorePhase[t] = "committing"
      /\ pc[t] \in {"publish", "threshold"} => StorePhase[t] = "installed"
  BY <1>2, <1>3, <1>4
<1>6. ASSUME pc[t] \in Saving
      PROVE  StorePhase[t] =
                 IF call[t].op = "commit" THEN "installed" ELSE "idle"
  BY <1>2, <1>4, <1>6
<1>7. StoreReading[t] = IF pc[t] \in Loading
                        THEN [name |-> call[t].name,
                              from |-> call[t].record.version]
                        ELSE [name |-> 0, from |-> 0]
  BY <1>2, <1>3
<1> QED
  BY <1>5, <1>6, <1>7 DEF PhaseIs

LEMMA PhasedNext == TypeInv' /\ SimInv' => (\A t \in Threads : PhaseIs(t))'
  BY Phased, PTL

LEMMA PhaseFrame ==
    ASSUME TypeInv, NEW t \in Threads, Application(t) \/ CallStep(t)
    PROVE  /\ StorePhase' = [StorePhase EXCEPT ![t] = StorePhase'[t]]
           /\ StoreReading' = [StoreReading EXCEPT ![t] = StoreReading'[t]]
<1>1. \A u \in Threads \ {t} : pc'[u] = pc[u] /\ call'[u] = call[u]
  BY OthersKept
<1>2. \A u \in Threads \ {t} : /\ StorePhase'[u] = StorePhase[u]
                               /\ StoreReading'[u] = StoreReading[u]
  BY <1>1 DEF StorePhase, StoreReading
<1>3. /\ StorePhase = [u \in Threads |-> StorePhase[u]]
      /\ StorePhase' = [u \in Threads |-> StorePhase'[u]]
      /\ StoreReading = [u \in Threads |-> StoreReading[u]]
      /\ StoreReading' = [u \in Threads |-> StoreReading'[u]]
  BY DEF StorePhase, StoreReading
<1> QED
  BY <1>2, <1>3

-----------------------------------------------------------------------------
(* The simulation, one lemma per kind of step.                             *)

HeapInv ==
    /\ SafeInv
    /\ \A t \in Threads : CallTx(t)
    /\ IdInv
    /\ ReadInv
    /\ SimInv

(* What holds of every step of a thread.                                   *)
LEMMA Frame ==
    ASSUME HeapInv, HeapInv', NEW t \in Threads, Application(t) \/ CallStep(t)
    PROVE  /\ StorePhase' = [StorePhase EXCEPT ![t] = StorePhase'[t]]
           /\ StoreReading' = [StoreReading EXCEPT ![t] = StoreReading'[t]]
           /\ PhaseIs(t) /\ PhaseIs(t)'
           /\ pc[t] # "publish" /\ pc'[t] # "publish"
                  => StoreHist' = StoreHist
<1>1. TypeInv /\ TypeInv' /\ MutexInv' /\ SimInv /\ SimInv' /\ SafeInv
  BY DEF HeapInv, SafeInv
<1>2. PhaseIs(t) /\ PhaseIs(t)'
  BY <1>1, Phased, PhasedNext
<1>3. pc[t] # "publish" => ~ Publish(t)
  BY DEF Publish
<1> QED
  BY <1>1, <1>2, <1>3, PhaseFrame, HistSame

LEMMA Stutters ==
    ASSUME HeapInv, HeapInv', NEW t \in Threads, Application(t) \/ CallStep(t),
           StoreHist' = StoreHist, tx' = tx,
           StorePhase'[t] = StorePhase[t], StoreReading'[t] = StoreReading[t]
    PROVE  UNCHANGED Store!svars
<1>1. /\ StorePhase' = [StorePhase EXCEPT ![t] = StorePhase[t]]
      /\ StoreReading' = [StoreReading EXCEPT ![t] = StoreReading[t]]
  BY Frame
<1>2. StorePhase' = StorePhase /\ StoreReading' = StoreReading
  BY <1>1 DEF StorePhase, StoreReading
<1> QED
  BY <1>2 DEF Store!svars

(* Every version of the store was written under an id already given out.   *)
LEMMA UsedIds ==
    ASSUME HeapInv, NEW n \in Names, NEW v \in DOMAIN StoreHist[n]
    PROVE  StoreHist[n][v].tx < nextTx
<1>1. HistMapped /\ hist[n] \in Seq(Version) /\ Len(hist[n]) \in Nat
  BY Mapped DEF HeapInv, SafeInv, TypeInv, TypeOK
<1>2. \A i \in 1 .. Len(hist[n]) : hist[n][i].tx < nextTx
  BY DEF HeapInv, IdInv
<1>3. CASE Unpublished(n) = {}
  <2>1. StoreHist[n] = hist[n] /\ v \in 1 .. Len(hist[n])
    BY <1>1, <1>3 DEF HistMapped
  <2> QED
    BY <1>2, <2>1
<1>4. ASSUME NEW t \in Unpublished(n)
      PROVE  StoreHist[n][v].tx < nextTx
  <2> DEFINE new == [tx |-> tx[t].id, data |-> tx[t].work[n].data]
  <2>1. StoreHist[n] = Append(hist[n], new)
    BY <1>1 DEF HistMapped
  <2>2. new.tx < nextTx
    BY DEF Unpublished, HeapInv, CallTx, Committing, IdInv
  <2> HIDE DEF new
  <2>3. CASE v \in 1 .. Len(hist[n])
    BY <1>1, <1>2, <2>1, <2>3
  <2>4. CASE v = Len(hist[n]) + 1
    BY <1>1, <2>1, <2>2, <2>4
  <2> QED
    BY <1>1, <2>1, <2>3, <2>4
<1> QED
  BY <1>3, <1>4

(* heap::begin starts a transaction under an unused id.                    *)
LEMMA SimBegin ==
    ASSUME HeapInv, HeapInv', NEW t \in Threads, Begin(t)
    PROVE  Store!Start(t)
<1>1. /\ pc[t] = "idle" /\ pc' = pc /\ call' = call /\ ~ tx[t].active
      /\ nextTx <= MaxTx
      /\ tx' = [tx EXCEPT ![t] = [id |-> nextTx, active |-> TRUE,
                                  work |-> NoTx.work]]
  BY DEF Begin, control
<1>2. /\ StoreHist' = StoreHist /\ StorePhase[t] = "idle"
  BY <1>1, Frame DEF Application, PhaseIs
<1>3. StorePhase' = StorePhase /\ StoreReading' = StoreReading
  BY <1>1 DEF StorePhase, StoreReading
<1>4. nextTx \in 1 .. MaxTx
  BY <1>1, HeapAssumption DEF HeapInv, SimInv, SafeInv, TypeInv, TypeOK
<1>5. nextTx \notin Store!Used
  <2>1. \A n \in Names : \A v \in DOMAIN StoreHist[n] :
            StoreHist[n][v].tx # nextTx
    BY <1>4, UsedIds
  <2> QED
    BY <2>1 DEF Store!Used
<1>6. \A u \in Threads : tx[u].id # nextTx
  <2>1. ASSUME NEW u \in Threads
        PROVE  tx[u].id # nextTx
    <3>1. CASE tx[u].active
      BY <1>4, <3>1 DEF HeapInv, IdInv
    <3>2. CASE ~ tx[u].active
      BY <1>4, <3>2 DEF HeapInv, SimInv, OverOK
    <3> QED
      BY <3>1, <3>2
  <2> QED
    BY <2>1
<1>7. Store!NoTxn.work = NoTx.work
  BY DEF Store!NoTxn, Store!NoCopy, NoTx, NoWork, WorkingRoot
<1> QED
  BY <1>1, <1>2, <1>3, <1>4, <1>5, <1>6, <1>7 DEF Store!Start

(* The end of a load with bytes that decode keeps a working copy.          *)
LEMMA SimKeep ==
    ASSUME NEW t \in Threads, NEW n, NEW version, NEW bytes, NEW isNew,
           Deliver(t, n, version, bytes, isNew), bytes \in Payloads
    PROVE  Store!Keep(t, n, version, bytes, isNew)
<1>1. Store!Copies(t) = Loaded(tx[t].work)
  BY DEF Store!Copies, Loaded
<1>0. \A S : Store!Cardinality(S) = Cardinality(S)
  BY Zenon DEF Store!Cardinality, Cardinality
<1> DEFINE w == WorkingRoot(Cardinality(Loaded(tx[t].work)) + 1, version,
                            isNew, bytes)
           copy == [token |-> Store!Cardinality(Store!Copies(t)) + 1,
                    expected |-> version, dirty |-> isNew, data |-> bytes]
<1>2. tx' = [tx EXCEPT ![t].work[n] = w]
  BY DEF Deliver
<1>3. w = copy
  BY <1>0, <1>1 DEF WorkingRoot
<1> HIDE DEF w, copy
<1>4. tx' = [tx EXCEPT ![t].work[n] = copy]
  BY <1>2, <1>3
<1> USE DEF copy
<1> QED
  BY <1>4, Zenon DEF Store!Keep

(* While nobody publishes, the store has the heap's history.               *)
LEMMA Settled ==
    ASSUME HeapInv, RootsMutexFree, NEW n \in Names
    PROVE  StoreHist[n] = hist[n]
<1>1. HistMapped
  BY Mapped DEF HeapInv, SafeInv
<1> QED
  BY <1>1 DEF HistMapped, Unpublished, RootsMutexFree

(* A lookup creates a root or begins to read one.                          *)
LEMMA SimLookup ==
    ASSUME HeapInv, HeapInv', NEW t \in Threads, NEW n \in Names, Lookup(t, n)
    PROVE  Store!Create(t, n) \/ Store!StartRead(t, n)
<1>1. /\ pc[t] = "idle" /\ tx[t].active /\ tx[t].work[n].token = 0
      /\ RootsMutexFree
  BY DEF Lookup
<1>2. /\ hist[n] \in Seq(Version) /\ roots[n].version = Len(hist[n])
      /\ StoreHist[n] = hist[n]
  BY <1>1, Settled DEF HeapInv, SafeInv, StoreInv, IndexOK, TypeInv, TypeOK
<1>3. Store!Idle(t) /\ n \notin Store!Copies(t)
  <2>1. StorePhase[t] = "idle"
    BY <1>1, Frame DEF Application, PhaseIs
  <2> QED
    BY <1>1, <2>1 DEF Store!Idle, Store!Copies
<1>4. CASE roots[n].version = 0
  <2>1. Deliver(t, n, 0, NullPayload, TRUE)
    BY <1>4 DEF Lookup
  <2>2. Store!Keep(t, n, 0, NullPayload, TRUE)
    BY <2>1, SimKeep, PayloadsAssumption
  <2>3. pc'[t] = "idle"
    BY <2>1 DEF Deliver, Leave, Goto, HeapInv, SafeInv, TypeInv, TypeOK
  <2>4. /\ StorePhase' = StorePhase /\ StoreReading' = StoreReading
        /\ StoreHist' = StoreHist
    <3>1. /\ StorePhase' = [StorePhase EXCEPT ![t] = StorePhase[t]]
          /\ StoreReading' = [StoreReading EXCEPT ![t] = StoreReading[t]]
          /\ StoreHist' = StoreHist
      BY <1>1, <2>3, Frame DEF Application, PhaseIs, Loading
    <3> QED
      BY <3>1 DEF StorePhase, StoreReading
  <2>5. StoreHist[n] = << >>
    BY <1>2, <1>4, EmptySeq
  <2> QED
    BY <1>3, <2>2, <2>4, <2>5 DEF Store!Create
<1>5. CASE roots[n].version # 0
  <2>1. /\ pc'[t] = "probe" /\ tx' = tx
        /\ call'[t].name = n /\ call'[t].record = roots[n]
    BY <1>5 DEF Lookup, Goto, HeapInv, SafeInv, TypeInv, TypeOK
  <2>2. /\ StorePhase'[t] = "reading"
        /\ StoreReading'[t] = [name |-> n, from |-> Len(StoreHist[n])]
    <3>1. PhaseIs(t)'
      BY Frame DEF Application
    <3>2. /\ StorePhase'[t] = "reading"
          /\ StoreReading'[t] = [name |-> call'[t].name,
                                 from |-> call'[t].record.version]
      BY <2>1, <3>1 DEF PhaseIs, Loading
    <3> QED
      BY <1>2, <2>1, <3>2
  <2>3. /\ StorePhase' = [StorePhase EXCEPT ![t] = "reading"]
        /\ StoreReading' = [StoreReading EXCEPT ![t] =
                               [name |-> n, from |-> Len(StoreHist[n])]]
        /\ StoreHist' = StoreHist
    BY <1>1, <2>1, <2>2, Frame DEF Application
  <2>4. StoreHist[n] # << >>
    BY <1>2, <1>5
  <2> QED
    BY <1>3, <2>1, <2>3, <2>4 DEF Store!StartRead
<1> QED
  BY <1>4, <1>5

(* The other calls of an application.                                      *)
LEMMA SimApplication ==
    ASSUME HeapInv, HeapInv', NEW t \in Threads, Application(t)
    PROVE  Store!SNext \/ UNCHANGED Store!svars
<1>1. CASE Begin(t)
  BY <1>1, SimBegin DEF Store!SNext
<1>2. ASSUME NEW n \in Names, Lookup(t, n)
      PROVE  Store!SNext
  BY <1>2, SimLookup DEF Store!SNext
<1>3. CASE \/ Abort(t) \/ CommitClean(t)
           \/ \E n \in Names, p \in Payloads : Mutate(t, n, p)
  <2>1. /\ pc[t] = "idle" /\ pc' = pc /\ call' = call /\ tx[t].active
    BY <1>3 DEF Abort, CommitClean, Mutate, control
  <2>2. StoreHist' = StoreHist /\ Store!Idle(t)
    BY <2>1, Frame DEF PhaseIs, Store!Idle
  <2>3. StorePhase' = StorePhase /\ StoreReading' = StoreReading
    BY <2>1 DEF StorePhase, StoreReading
  <2>4. CASE Abort(t) \/ CommitClean(t)
    <3>1. tx' = [tx EXCEPT ![t] = NoTx] /\ NoTx = Store!NoTxn
      BY <2>4 DEF Abort, CommitClean, NoTx, NoWork, WorkingRoot, Store!NoTxn,
                  Store!NoCopy
    <3>2. Store!End(t)
      BY <2>2, <2>3, <3>1 DEF Store!End
    <3> QED
      BY <3>2 DEF Store!SNext
  <2>5. ASSUME NEW n \in Names, NEW p \in Payloads, Mutate(t, n, p)
        PROVE  Store!SNext
    <3>1. n \in Store!Copies(t)
      BY <2>5 DEF Mutate, Loaded, Store!Copies
    <3>2. tx' = [tx EXCEPT ![t].work[n].data = p,
                           ![t].work[n].dirty = TRUE]
      <4>1. /\ tx \in [Threads -> Transaction] /\ tx[t] \in Transaction
            /\ tx[t].work \in [Names -> Work] /\ tx[t].work[n] \in Work
        BY WorkType DEF HeapInv, SafeInv, TypeInv, TypeOK
      <4>2. tx' = [tx EXCEPT ![t].work[n] =
                     [token |-> @.token, expected |-> @.expected,
                      dirty |-> TRUE, data |-> p]]
        BY <2>5 DEF Mutate, WorkingRoot
      <4> QED
        BY <4>1, <4>2 DEF Transaction, Work
    <3>3. Store!Write(t, n, p)
      BY <2>2, <2>3, <3>1, <3>2 DEF Store!Write
    <3> QED
      BY <3>3 DEF Store!SNext
  <2> QED
    BY <1>3, <2>4, <2>5
<1>4. CASE CommitCall(t)
  <2>1. /\ pc[t] = "idle" /\ pc'[t] = "commit" /\ tx[t].active /\ tx' = tx
        /\ Dirty(tx[t].work) # {}
    BY <1>4 DEF CommitCall, Goto, HeapInv, SafeInv, TypeInv, TypeOK
  <2>2. /\ StorePhase[t] = "idle" /\ StorePhase'[t] = "committing"
        /\ StoreReading'[t] = StoreReading[t]
        /\ StoreHist' = StoreHist
        /\ StorePhase' = [StorePhase EXCEPT ![t] = StorePhase'[t]]
        /\ StoreReading' = [StoreReading EXCEPT ![t] = StoreReading'[t]]
    BY <2>1, Frame DEF PhaseIs, Loading
  <2>3. StoreReading' = StoreReading
    BY <2>2 DEF StoreReading
  <2>4. Store!WriteSet(t) # {}
    BY <2>1 DEF Store!WriteSet, Store!Copies, Dirty
  <2>5. Store!StartCommit(t)
    BY <2>1, <2>2, <2>3, <2>4 DEF Store!StartCommit, Store!Idle
  <2> QED
    BY <2>5 DEF Store!SNext
<1>5. CASE CheckpointCall(t)
  <2>1. pc[t] = "idle" /\ pc'[t] = "checkpoint" /\ tx' = tx
    BY <1>5 DEF CheckpointCall, Goto, HeapInv, SafeInv, TypeInv, TypeOK
  <2>2. /\ StorePhase'[t] = StorePhase[t] /\ StoreReading'[t] = StoreReading[t]
        /\ StoreHist' = StoreHist
    BY <2>1, Frame DEF PhaseIs, Loading
  <2> QED
    BY <2>1, <2>2, Stutters
<1> QED
  BY <1>1, <1>2, <1>3, <1>4, <1>5 DEF Application

(* A call that ends with an exception.                                     *)
LEMMA SimThrow ==
    ASSUME HeapInv, HeapInv', NEW t \in Threads, CallStep(t), Leave(t),
           tx' = tx, pc[t] \notin {"idle", "publish", "threshold"}
    PROVE  Store!SNext \/ UNCHANGED Store!svars
<1>1. pc'[t] = "idle" /\ pc[t] \in Labels
  BY DEF Leave, Goto, HeapInv, SafeInv, TypeInv, TypeOK
<1>2. PhaseIs(t) /\ PhaseIs(t)' /\ StoreHist' = StoreHist
  BY <1>1, Frame
<1>3. /\ StorePhase' = [StorePhase EXCEPT ![t] = "idle"]
      /\ StoreReading' = [StoreReading EXCEPT ![t] =
                             [name |-> 0, from |-> 0]]
  <2>1. /\ StorePhase' = [StorePhase EXCEPT ![t] = StorePhase'[t]]
        /\ StoreReading' = [StoreReading EXCEPT ![t] = StoreReading'[t]]
    BY Frame
  <2>2. /\ StorePhase'[t] = "idle"
        /\ StoreReading'[t] = [name |-> 0, from |-> 0]
    BY <1>1, <1>2 DEF PhaseIs, Loading
  <2> QED
    BY <2>1, <2>2
<1>4. pc[t] \notin Loading => StoreReading' = StoreReading
  <2>1. pc[t] \notin Loading => StoreReading[t] = [name |-> 0, from |-> 0]
    BY <1>2 DEF PhaseIs
  <2> QED
    BY <1>3, <2>1 DEF StoreReading
<1>5. CASE pc[t] \in Loading
  <2>1. StorePhase[t] = "reading"
    BY <1>2, <1>5 DEF PhaseIs
  <2>2. Store!FailRead(t)
    BY <1>2, <1>3, <2>1 DEF Store!FailRead, Store!NoRead
  <2> QED
    BY <2>2 DEF Store!SNext
<1>6. CASE pc[t] \in {"commit", "append", "barrier"}
  <2>1. StorePhase[t] = "committing" /\ pc[t] \notin Loading
    BY <1>2, <1>6 DEF PhaseIs, Loading
  <2>2. Store!RefuseCommit(t)
    BY <1>2, <1>3, <1>4, <2>1 DEF Store!RefuseCommit
  <2> QED
    BY <2>2 DEF Store!SNext
<1>7. CASE pc[t] \in {"checkpoint"} \cup Saving
  <2>1. /\ StorePhase[t] \in {"installed", "idle"}
        /\ pc[t] \notin Loading
    BY <1>2, <1>7 DEF PhaseIs, Loading, Saving
  <2>2. CASE StorePhase[t] = "installed"
    <3>1. Store!ReportFailure(t)
      BY <1>2, <1>3, <1>4, <2>1, <2>2 DEF Store!ReportFailure
    <3> QED
      BY <3>1 DEF Store!SNext
  <2>3. CASE StorePhase[t] = "idle"
    <3>1. StorePhase'[t] = StorePhase[t] /\ StoreReading'[t] = StoreReading[t]
      BY <1>1, <1>2, <1>4, <2>1, <2>3 DEF PhaseIs
    <3> QED
      BY <1>2, <3>1, Stutters
  <2> QED
    BY <2>1, <2>2, <2>3
<1> QED
  BY <1>1, <1>5, <1>6, <1>7 DEF Labels, Loading, Saving, HoldsCommitMutex

(* A commit or a checkpoint that ends without one.                         *)
LEMMA SimReturn ==
    ASSUME HeapInv, HeapInv', NEW t \in Threads, CallStep(t), Return(t),
           pc[t] \in {"threshold"} \cup Saving
    PROVE  Store!SNext \/ UNCHANGED Store!svars
<1>1. /\ pc'[t] = "idle" /\ Leave(t)
      /\ tx' = IF call[t].op = "commit" THEN [tx EXCEPT ![t] = NoTx] ELSE tx
      /\ pc[t] \notin Loading /\ pc[t] # "publish"
  BY DEF Return, Leave, Goto, HeapInv, SafeInv, TypeInv, TypeOK, Loading,
         Saving
<1>2. PhaseIs(t) /\ PhaseIs(t)' /\ StoreHist' = StoreHist
  BY <1>1, Frame
<1>3. CASE call[t].op = "commit"
  <2>1. StorePhase[t] = "installed"
    BY <1>2, <1>3 DEF PhaseIs
  <2>2. /\ StorePhase'[t] = "idle" /\ StoreReading'[t] = StoreReading[t]
    BY <1>1, <1>2 DEF PhaseIs, Loading
  <2>3. /\ StorePhase' = [StorePhase EXCEPT ![t] = "idle"]
        /\ StoreReading' = [StoreReading EXCEPT ![t] = StoreReading[t]]
    BY <2>2, Frame
  <2>4. StoreReading' = StoreReading
    BY <2>3 DEF StoreReading
  <2>5. tx' = [tx EXCEPT ![t] = NoTx] /\ NoTx = Store!NoTxn
    BY <1>1, <1>3 DEF NoTx, NoWork, WorkingRoot, Store!NoTxn, Store!NoCopy
  <2>6. Store!ReportSuccess(t)
    BY <1>2, <2>1, <2>3, <2>4, <2>5 DEF Store!ReportSuccess
  <2> QED
    BY <2>6 DEF Store!SNext
<1>4. CASE call[t].op # "commit"
  <2>1. pc[t] \in Saving
    BY <1>4 DEF HeapInv, SimInv, OpOK
  <2>2. tx' = tx /\ pc[t] \notin {"idle", "publish", "threshold"}
    BY <1>1, <1>4, <2>1 DEF Saving
  <2> QED
    BY <1>1, <2>2, SimThrow
<1> QED
  BY <1>3, <1>4

(* Published versions are versions of the store.                           *)
LEMMA InStore ==
    ASSUME HeapInv, NEW n \in Names, NEW v \in 1 .. Len(hist[n])
    PROVE  /\ Len(StoreHist[n]) \in Nat
           /\ v \in 1 .. Len(StoreHist[n])
           /\ StoreHist[n][v] = hist[n][v]
<1>1. HistMapped /\ hist[n] \in Seq(Version) /\ Len(hist[n]) \in Nat
  BY Mapped DEF HeapInv, SafeInv, TypeInv, TypeOK
<1>2. CASE Unpublished(n) = {}
  BY <1>1, <1>2 DEF HistMapped
<1>3. ASSUME NEW t \in Unpublished(n)
      PROVE  /\ Len(StoreHist[n]) \in Nat
             /\ v \in 1 .. Len(StoreHist[n])
             /\ StoreHist[n][v] = hist[n][v]
  <2> DEFINE new == [tx |-> tx[t].id, data |-> tx[t].work[n].data]
  <2>1. StoreHist[n] = Append(hist[n], new)
    BY <1>1 DEF HistMapped
  <2> HIDE DEF new
  <2> QED
    BY <1>1, <2>1
<1> QED
  BY <1>2, <1>3

(* The end of a load.                                                      *)
LEMMA SimDeliver ==
    ASSUME HeapInv, HeapInv', NEW t \in Threads, CallStep(t),
           pc[t] \in Loading, NEW bytes,
           Deliver(t, call[t].name, call[t].record.version, bytes, FALSE),
           Good(call[t].name, call[t].record.version, bytes)
    PROVE  Store!SNext \/ UNCHANGED Store!svars
<1>1. CASE bytes \notin Payloads
  BY <1>1, SimThrow DEF Deliver, Loading
<1>2. CASE bytes \in Payloads
  <2> DEFINE n == call[t].name
             v == call[t].record.version
  <2>1. Store!Keep(t, n, v, bytes, FALSE)
    BY <1>2, SimKeep
  <2>2. n \in Names
    BY DEF HeapInv, SafeInv, TypeInv, CallOK, Loading
  <2>3. /\ v \in 1 .. Len(StoreHist[n]) /\ Len(StoreHist[n]) \in Nat
        /\ StoreHist[n][v].data = bytes
    BY <2>2, InStore DEF Good
  <2>4. /\ StorePhase[t] = "reading"
        /\ StoreReading[t] = [name |-> n, from |-> v]
    BY Frame DEF PhaseIs
  <2>5. pc'[t] = "idle" /\ pc[t] # "publish"
    BY DEF Deliver, Leave, Goto, HeapInv, SafeInv, TypeInv, TypeOK, Loading
  <2>6. /\ StorePhase'[t] = "idle" /\ StoreHist' = StoreHist
        /\ StoreReading'[t] = [name |-> 0, from |-> 0]
    BY <2>5, Frame DEF PhaseIs, Loading
  <2>7. /\ StorePhase' = [StorePhase EXCEPT ![t] = "idle"]
        /\ StoreReading' = [StoreReading EXCEPT ![t] =
                               [name |-> 0, from |-> 0]]
    BY <2>6, Frame
  <2> HIDE DEF n, v
  <2>8. /\ v \in StoreReading[t].from .. Len(StoreHist[StoreReading[t].name])
        /\ Store!Keep(t, StoreReading[t].name, v,
                      StoreHist[StoreReading[t].name][v].data, FALSE)
    <3>1. StoreReading[t].name = n /\ StoreReading[t].from = v
      BY <2>4
    <3>2. Store!Keep(t, StoreReading[t].name, v,
                     StoreHist[StoreReading[t].name][v].data, FALSE)
      BY <2>1, <2>3, <3>1, Zenon DEF Store!Keep
    <3>3. v \in StoreReading[t].from .. Len(StoreHist[StoreReading[t].name])
      BY <2>3, <3>1
    <3> QED
      BY <3>2, <3>3
  <2>9. Store!FinishRead(t)
    BY <2>4, <2>6, <2>7, <2>8 DEF Store!FinishRead, Store!NoRead
  <2> QED
    BY <2>9 DEF Store!SNext
<1> QED
  BY <1>1, <1>2

(* heap_state::load.                                                       *)
LEMMA SimLoad ==
    ASSUME Checksums, HeapInv, HeapInv', NEW t \in Threads, LoadStep(t)
    PROVE  Store!SNext \/ UNCHANGED Store!svars
<1> DEFINE n == call[t].name
           version == call[t].record.version
<1>1. /\ CallStep(t) /\ pc[t] \in Loading
      /\ pc[t] \notin {"idle", "publish", "threshold"}
  BY DEF CallStep, LoadStep, Probe, Miss, Fetch, FetchFails, Loading
<1>2. /\ n \in Names /\ Good(n, version, call[t].record.payload.sum)
      /\ TypeInv
  BY <1>1 DEF HeapInv, SafeInv, TypeInv, CallOK, Loading, ReadInv, ReadOK
<1>3. CASE Probe(t)
  <2>1. CASE Hit(cache, n, version)
    <3>1. Deliver(t, n, version, cache[n].payload, FALSE)
      BY <1>3, <2>1 DEF Probe
    <3>2. Good(n, version, cache[n].payload)
      BY <1>2, <2>1 DEF Hit, Good, HeapInv, ReadInv
    <3> QED
      BY <1>1, <3>1, <3>2, SimDeliver
  <2>2. CASE ~ Hit(cache, n, version)
    <3>1. pc'[t] = "miss" /\ call' = call /\ tx' = tx
      BY <1>2, <1>3, <2>2 DEF Probe, Goto, TypeInv, TypeOK
    <3>2. /\ StorePhase'[t] = StorePhase[t] /\ StoreHist' = StoreHist
          /\ StoreReading'[t] = StoreReading[t]
      BY <1>1, <3>1, Frame DEF PhaseIs, Loading
    <3> QED
      BY <1>1, <3>1, <3>2, Stutters
  <2> QED
    BY <2>1, <2>2
<1>4. CASE Miss(t)
  <2>1. /\ pc'[t] = "fetch" /\ tx' = tx /\ mutex = NoThread
        /\ call'[t].name = n /\ call'[t].record = roots[n]
    BY <1>2, <1>4 DEF Miss, Acquire, Goto, TypeInv, TypeOK, Call
  <2>2. RootsMutexFree
    BY <2>1, HeapAssumption
    DEF HeapInv, SafeInv, MutexInv, HoldsCommitMutex, RootsMutexFree
  <2>3. roots[n].version = Len(StoreHist[n])
    BY <1>2, <2>2, Settled DEF HeapInv, SafeInv, StoreInv, IndexOK
  <2>4. /\ PhaseIs(t) /\ PhaseIs(t)' /\ StoreHist' = StoreHist
        /\ StorePhase' = [StorePhase EXCEPT ![t] = StorePhase'[t]]
        /\ StoreReading' = [StoreReading EXCEPT ![t] = StoreReading'[t]]
    BY <1>1, <2>1, Frame
  <2>5. /\ StorePhase[t] = "reading" /\ StorePhase'[t] = "reading"
        /\ StoreReading[t] = [name |-> n, from |-> version]
        /\ StoreReading'[t] = [name |-> n, from |-> Len(StoreHist[n])]
    <3>1. StoreReading'[t] = [name |-> call'[t].name,
                              from |-> call'[t].record.version]
      BY <2>1, <2>4 DEF PhaseIs, Loading
    <3>2. /\ StorePhase[t] = "reading" /\ StorePhase'[t] = "reading"
          /\ StoreReading[t] = [name |-> n, from |-> version]
      BY <1>1, <2>1, <2>4 DEF PhaseIs, Loading
    <3> QED
      BY <2>1, <2>3, <3>1, <3>2
  <2>6. StorePhase' = StorePhase
    BY <2>4, <2>5 DEF StorePhase
  <2> HIDE DEF n, version
  <2>7. StoreReading' =
            [StoreReading EXCEPT
                ![t].from = Len(StoreHist[StoreReading[t].name])]
    <3>1. StoreReading' = [StoreReading EXCEPT ![t] =
                             [name |-> n, from |-> Len(StoreHist[n])]]
      BY <2>4, <2>5
    <3>2. /\ StoreReading[t].name = n
          /\ [StoreReading[t] EXCEPT !.from = Len(StoreHist[n])] =
                 [name |-> n, from |-> Len(StoreHist[n])]
      BY <2>5
    <3> QED
      BY <3>1, <3>2
  <2>8. Store!Reread(t)
    BY <2>1, <2>4, <2>5, <2>6, <2>7 DEF Store!Reread
  <2> QED
    BY <2>8 DEF Store!SNext
<1>5. CASE Fetch(t)
  <2>1. Deliver(t, n, version, PayloadBytes(call[t].record.payload), FALSE)
    BY <1>5 DEF Fetch
  <2>2. Good(n, version, PayloadBytes(call[t].record.payload))
    BY <1>2, <1>5, FetchGood DEF HeapInv
  <2> QED
    BY <1>1, <2>1, <2>2, SimDeliver
<1>6. CASE FetchFails(t)
  BY <1>1, <1>6, SimThrow DEF FetchFails, Throw
<1> QED
  BY <1>3, <1>4, <1>5, <1>6 DEF LoadStep

(* The step that begins publication installs the whole commit.             *)
LEMMA SimInstall ==
    ASSUME HeapInv, HeapInv', NEW t \in Threads, CallStep(t),
           pc[t] \in {"append", "barrier"}, pc'[t] = "publish",
           tx' = tx, hist' = hist,
           \A n \in Names : n \in Dirty(tx[t].work) <=>
               \E i \in 1 .. Len(call'[t].todo) : call'[t].todo[i].name = n,
           \A n \in Dirty(tx[t].work) : tx[t].work[n].expected = Len(hist[n])
    PROVE  Store!InstallCommit(t)
<1>1. Store!WriteSet(t) = Dirty(tx[t].work)
  BY DEF Store!WriteSet, Store!Copies, Dirty
<1>2. \A u \in Threads \ {t} : pc'[u] = pc[u] /\ pc[u] # "publish"
  <2>1. \A u \in Threads \ {t} : pc'[u] = pc[u]
    BY OthersKept DEF HeapInv, SafeInv
  <2>2. \A u \in Threads \ {t} : pc[u] \notin HoldsCommitMutex
    BY Alone DEF HoldsCommitMutex, HeapInv, SafeInv
  <2> QED
    BY <2>1, <2>2 DEF HoldsCommitMutex
<1>3. \A n \in Names : StoreHist[n] = hist[n]
  <2>1. RootsMutexFree
    BY <1>2 DEF RootsMutexFree
  <2> QED
    BY <2>1, Settled
<1>4. ASSUME NEW n \in Names
      PROVE  StoreHist'[n] =
                 IF n \in Dirty(tx[t].work)
                 THEN Append(hist[n], [tx |-> tx[t].id,
                                       data |-> tx[t].work[n].data])
                 ELSE hist[n]
  <2>1. HistMapped'
    BY MappedNext DEF HeapInv, SafeInv
  <2>2. DOMAIN call'[t].todo = 1 .. Len(call'[t].todo)
    BY DEF HeapInv, SafeInv, TypeInv, TypeOK, Call
  <2>3. t \in Unpublished(n)' <=> n \in Dirty(tx[t].work)
    BY <2>2 DEF Unpublished
  <2>4. /\ Unpublished(n)' \subseteq Threads
        /\ \A u \in Threads \ {t} : u \notin Unpublished(n)'
    BY <1>2 DEF Unpublished
  <2>5. CASE n \in Dirty(tx[t].work)
    <3>1. StoreHist'[n] = Append(hist'[n], [tx |-> tx'[t].id,
                                            data |-> tx'[t].work[n].data])
      BY <2>1, <2>3, <2>5 DEF HistMapped
    <3> QED
      BY <2>5, <3>1
  <2>6. CASE n \notin Dirty(tx[t].work)
    <3>1. Unpublished(n)' = {}
      BY <2>3, <2>4, <2>6
    <3> QED
      BY <2>1, <2>6, <3>1 DEF HistMapped
  <2> QED
    BY <2>5, <2>6
<1>5. StoreHist' =
          [n \in Names |->
              IF n \in Store!WriteSet(t)
              THEN Append(StoreHist[n], [tx |-> tx[t].id,
                                         data |-> tx[t].work[n].data])
              ELSE StoreHist[n]]
  <2>1. StoreHist' = [n \in Names |-> StoreHist'[n]]
    BY DEF StoreHist
  <2> QED
    BY <1>1, <1>3, <1>4, <2>1
<1>6. /\ StorePhase[t] = "committing" /\ StorePhase'[t] = "installed"
      /\ StoreReading'[t] = StoreReading[t]
  BY Frame DEF PhaseIs, Loading
<1>7. /\ StorePhase' = [StorePhase EXCEPT ![t] = "installed"]
      /\ StoreReading' = [StoreReading EXCEPT ![t] = StoreReading[t]]
  BY <1>6, Frame
<1>8. StoreReading' = StoreReading
  BY <1>7 DEF StoreReading
<1>9. \A n \in Store!WriteSet(t) :
          tx[t].work[n].expected = Len(StoreHist[n])
  BY <1>1, <1>3 DEF Dirty
<1> QED
  BY <1>5, <1>6, <1>7, <1>8, <1>9 DEF Store!InstallCommit

(* heap_state::commit.                                                     *)
LEMMA SimCommit ==
    ASSUME HeapInv, HeapInv', NEW t \in Threads, CommitStep(t)
    PROVE  Store!SNext \/ UNCHANGED Store!svars
<1>1. CallStep(t) /\ TypeInv /\ SafeInv
  BY DEF CallStep, HeapInv, SafeInv
<1>2. CASE CommitRefused(t) \/ AppendFails(t) \/ BarrierFails(t)
  <2>1. /\ Leave(t) /\ tx' = tx
        /\ pc[t] \notin {"idle", "publish", "threshold"}
    BY <1>2 DEF CommitRefused, AppendFails, BarrierFails, Throw
  <2> QED
    BY <1>1, <2>1, SimThrow
<1>3. CASE \/ Validate(t)
           \/ AppendBatch(t) /\ Strict
  <2>1. /\ pc[t] \in {"commit", "append"} /\ pc'[t] \in {"append", "barrier"}
        /\ tx' = tx
    BY <1>1, <1>3 DEF Validate, AppendBatch, Goto, TypeInv, TypeOK
  <2>2. /\ StorePhase'[t] = StorePhase[t] /\ StoreReading'[t] = StoreReading[t]
        /\ StoreHist' = StoreHist
    BY <1>1, <2>1, Frame DEF PhaseIs, Loading
  <2> QED
    BY <1>1, <2>1, <2>2, Stutters
<1>4. CASE AppendBatch(t) /\ ~ Strict
  <2>1. /\ pc[t] = "append" /\ pc'[t] = "publish" /\ tx' = tx /\ hist' = hist
    BY <1>1, <1>4 DEF AppendBatch, Goto, TypeInv, TypeOK
  <2>2. \A n \in Dirty(tx[t].work) : tx[t].work[n].expected = Len(hist[n])
    BY <1>1, <2>1
    DEF SafeInv, StoreInv, TodoOK, VersionsMatch, IndexOK, Dirty
  <2>3. Store!InstallCommit(t)
    BY <1>1, <1>4, <2>1, <2>2, ListAppend, SimInstall
  <2> QED
    BY <2>3 DEF Store!SNext
<1>5. CASE Barrier(t)
  <2>1. /\ pc[t] = "barrier" /\ pc'[t] = "publish" /\ tx' = tx /\ hist' = hist
        /\ call' = call
    BY <1>1, <1>5 DEF Barrier, Goto, TypeInv, TypeOK
  <2>2. \A n \in Names : n \in Dirty(tx[t].work) <=>
            \E i \in 1 .. Len(call'[t].todo) : call'[t].todo[i].name = n
    BY <2>1 DEF HeapInv, SimInv, ListOK
  <2>3. ASSUME NEW n \in Dirty(tx[t].work)
        PROVE  tx[t].work[n].expected = Len(hist[n])
    <3>1. PICK i \in 1 .. Len(call[t].todo) : call[t].todo[i].name = n
      BY <2>1, <2>2 DEF Dirty
    <3>2. UpdateOK(t, call[t].todo[i])
      BY <1>1, <2>1 DEF SafeInv, StoreInv, TodoOK
    <3> QED
      BY <1>1, <3>1, <3>2 DEF UpdateOK, SafeInv, StoreInv, IndexOK, Dirty
  <2>4. Store!InstallCommit(t)
    BY <1>1, <2>1, <2>2, <2>3, SimInstall
  <2> QED
    BY <2>4 DEF Store!SNext
<1>6. CASE Publish(t)
  <2>1. /\ pc[t] = "publish" /\ pc'[t] \in {"publish", "threshold"}
        /\ tx' = tx
    BY <1>1, <1>6 DEF Publish, Goto, TypeInv, TypeOK
  <2>2. StoreHist' = StoreHist
    BY <1>6, HistPublish DEF HeapInv, SafeInv
  <2>3. StorePhase'[t] = StorePhase[t] /\ StoreReading'[t] = StoreReading[t]
    BY <1>1, <2>1, Frame DEF PhaseIs, Loading
  <2> QED
    BY <1>1, <2>1, <2>2, <2>3, Stutters
<1>7. CASE Threshold(t)
  <2>1. CASE Return(t)
    BY <1>1, <1>7, <2>1, SimReturn DEF Threshold
  <2>2. CASE ~ Return(t)
    <3>1. /\ pc[t] = "threshold" /\ pc'[t] = "save" /\ call' = call
          /\ tx' = tx /\ call[t].op = "commit"
      BY <1>1, <1>7, <2>2
      DEF Threshold, Goto, TypeInv, TypeOK, HeapInv, SimInv, OpOK
    <3>2. /\ StorePhase'[t] = StorePhase[t] /\ StoreHist' = StoreHist
          /\ StoreReading'[t] = StoreReading[t]
      BY <1>1, <3>1, Frame DEF PhaseIs, Loading, Saving
    <3> QED
      BY <1>1, <3>1, <3>2, Stutters
  <2> QED
    BY <2>1, <2>2
<1> QED
  BY <1>2, <1>3, <1>4, <1>5, <1>6, <1>7 DEF CommitStep

(* heap::checkpoint, called or started by a commit.                        *)
LEMMA SimCheckpoint ==
    ASSUME HeapInv, HeapInv', NEW t \in Threads, CheckpointStep(t)
    PROVE  Store!SNext \/ UNCHANGED Store!svars
<1>1. CallStep(t) /\ TypeInv
  BY DEF CallStep, HeapInv, SafeInv
<1>2. /\ pc[t] \in {"checkpoint"} \cup Saving
      /\ \/ Throw(t)
         \/ Return(t) /\ pc[t] \in Saving
         \/ call' = call /\ tx' = tx /\ pc'[t] \in Saving
  BY <1>1
  DEF CheckpointStep, CheckpointRefused, CheckpointLocked, Save, SaveFails,
      FlushTmp, FlushTmpFails, AtomicReplace, AtomicReplaceFails,
      SyncDirectory, SyncDirectoryFails, Install, Truncate, TruncateFails,
      SyncWal, SyncWalFails, Goto, Saving, TypeInv, TypeOK
<1>3. CASE Throw(t)
  <2>1. pc[t] \notin {"idle", "publish", "threshold"}
    BY <1>2 DEF Saving
  <2> QED
    BY <1>1, <1>3, <2>1, SimThrow DEF Throw
<1>4. CASE Return(t) /\ pc[t] \in Saving
  BY <1>1, <1>4, SimReturn
<1>5. CASE call' = call /\ tx' = tx /\ pc'[t] \in Saving
  <2>1. pc[t] = "checkpoint" => call[t].op = "checkpoint"
    BY DEF HeapInv, SimInv, OpOK
  <2>2. /\ pc[t] \notin Loading /\ pc'[t] \notin Loading
        /\ pc[t] # "publish" /\ pc'[t] # "publish"
    BY <1>2, <1>5 DEF Saving, Loading
  <2>3. PhaseIs(t) /\ PhaseIs(t)' /\ StoreHist' = StoreHist
    BY <1>1, <2>2, Frame
  <2>4. StorePhase'[t] = StorePhase[t] /\ StoreReading'[t] = StoreReading[t]
    BY <1>2, <1>5, <2>1, <2>2, <2>3 DEF PhaseIs
  <2> QED
    BY <1>1, <1>5, <2>3, <2>4, Stutters
<1> QED
  BY <1>2, <1>3, <1>4, <1>5

-----------------------------------------------------------------------------
LEMMA HeapInvariant == ASSUME Checksums PROVE Spec => []HeapInv
<1> DEFINE Ids == (\A t \in Threads : CallTx(t)) /\ IdInv /\ AtMostOnce
           Inv == Ids /\ ReadInv /\ SimInv
<1>1. Init => Inv
  BY ReadInit, SimInit
  DEF Init, CallTx, Committing, Loading, IdInv, AtMostOnce, NoTx
<1>2. SafeInv /\ Inv /\ [Next]_vars => Inv'
  <2> SUFFICES ASSUME SafeInv, Inv, [Next]_vars
               PROVE  Inv'
    OBVIOUS
  <2>1. Ids'
    BY CallTxNext, IdNext DEF SafeInv
  <2>2. ReadInv'
    BY ReadNext
  <2>3. SimInv'
    BY SimNext DEF SafeInv
  <2> QED
    BY <2>1, <2>2, <2>3
<1>3. SafeInv /\ Inv => HeapInv
  BY DEF HeapInv
<1> QED
  BY <1>1, <1>2, <1>3, SafeInvariant, PTL DEF Spec

(* With checksums enabled, every behaviour of the heap (heap_state::load,  *)
(* commit and checkpoint in any interleaving and with any storage failure) *)
(* is one of the versioned store: a commit takes effect in one step, on    *)
(* top of the versions it has read, before success is reported, and a load *)
(* returns a version that was current during the call, with its bytes.     *)
THEOREM HeapImplementsStore ==
    ASSUME Checksums
    PROVE  Spec => ImplementsStore
<1>1. Init => Store!SInit
  <2> SUFFICES ASSUME Init
               PROVE  Store!SInit
    OBVIOUS
  <2>1. /\ StoreHist = [n \in Names |-> << >>]
    <3>1. \A n \in Names : Unpublished(n) = {}
      BY DEF Init, Unpublished
    <3> QED
      BY <3>1 DEF Init, StoreHist
  <2>2. tx = [t \in Threads |-> Store!NoTxn]
    BY DEF Init, NoTx, NoWork, WorkingRoot, Store!NoTxn, Store!NoCopy
  <2>3. /\ \A t \in Threads : PhaseIs(t)
        /\ \A t \in Threads : pc[t] = "idle"
    BY TypeInit, SimInit, Phased DEF Init
  <2>4. \A t \in Threads : /\ StorePhase[t] = "idle"
                            /\ StoreReading[t] = [name |-> 0, from |-> 0]
    BY <2>3 DEF PhaseIs, Loading
  <2>5. /\ StorePhase = [t \in Threads |-> StorePhase[t]]
        /\ StoreReading = [t \in Threads |-> StoreReading[t]]
    BY DEF StorePhase, StoreReading
  <2> QED
    BY <2>1, <2>2, <2>4, <2>5 DEF Store!SInit, Store!NoRead
<1>2. HeapInv /\ HeapInv' /\ [Next]_vars => [Store!SNext]_Store!svars
  <2> SUFFICES ASSUME HeapInv, HeapInv', [Next]_vars
               PROVE  Store!SNext \/ UNCHANGED Store!svars
    OBVIOUS
  <2>1. CASE Close \/ UNCHANGED vars
    <3>1. UNCHANGED <<hist, tx, pc, call>>
      BY <2>1 DEF Close, vars, control
    <3>2. /\ StorePhase' = StorePhase /\ StoreReading' = StoreReading
          /\ \A n \in Names : Unpublished(n)' = Unpublished(n)
      BY <3>1 DEF StorePhase, StoreReading, Unpublished
    <3>3. ASSUME NEW n \in Names
          PROVE  StoreHist'[n] = StoreHist[n]
      <4>1. HistMapped /\ HistMapped'
        BY Mapped, MappedNext DEF HeapInv, SafeInv
      <4>2. CASE Unpublished(n) = {}
        BY <3>1, <3>2, <4>1, <4>2 DEF HistMapped
      <4>3. ASSUME NEW u \in Unpublished(n)
            PROVE  StoreHist'[n] = StoreHist[n]
        <5>1. u \in Unpublished(n)'
          BY <3>2
        <5>2. /\ StoreHist[n] = Append(hist[n],
                     [tx |-> tx[u].id, data |-> tx[u].work[n].data])
              /\ StoreHist'[n] = Append(hist'[n],
                     [tx |-> tx'[u].id, data |-> tx'[u].work[n].data])
          BY <4>1, <5>1 DEF HistMapped
        <5> QED
          BY <3>1, <5>2
      <4> QED
        BY <4>2, <4>3
    <3> QED
      BY <3>1, <3>2, <3>3, MapsEqual DEF Store!svars
  <2>2. ASSUME NEW t \in Threads, Application(t) \/ CallStep(t)
        PROVE  Store!SNext \/ UNCHANGED Store!svars
    BY <2>2, SimApplication, SimLoad, SimCommit, SimCheckpoint DEF CallStep
  <2> QED
    BY <2>1, <2>2 DEF Next
<1>3. Spec => []HeapInv
  BY HeapInvariant
<1>4. Spec => Store!SSpec
  BY <1>1, <1>2, <1>3, PTL DEF Spec, Store!SSpec
<1> QED
  BY <1>4 DEF ImplementsStore
=============================================================================

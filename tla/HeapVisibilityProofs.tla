------------------------ MODULE HeapVisibilityProofs ------------------------
(***************************************************************************)
(* A commit becomes visible as a whole.  It is published root by root, and *)
(* its transaction may try again after an error, so the proof follows what *)
(* each thread knows: the versions of its working copies, and the version  *)
(* a load in progress has looked up.  No thread ever knows a version of a  *)
(* transaction that still has versions to publish.                         *)
(***************************************************************************)
EXTENDS HeapSafetyProofs

(* The newest version of root n that thread t has seen.                    *)
Known(t, n) ==
    IF pc[t] \in Loading /\ n = call[t].name THEN call[t].record.version
    ELSE IF tx[t].work[n].token > 0 THEN tx[t].work[n].expected
    ELSE 0

(* Thread t has materialized root a before it looked root b up.            *)
Before(t, a, b) ==
    /\ tx[t].work[a].token > 0
    /\ \/ /\ tx[t].work[b].token > 0
          /\ tx[t].work[a].token < tx[t].work[b].token
       \/ pc[t] \in Loading /\ b = call[t].name

TokensOK(t) ==
    \A n \in Names : tx[t].work[n].token <= Cardinality(Loaded(tx[t].work))
KnownOK(t) ==
    \A n \in Names : Known(t, n) \in Nat /\ Known(t, n) <= Len(hist[n])
OrderOK(t) ==
    \A a, b \in Names : Before(t, a, b) =>
        \A v \in 1 .. Known(t, a), w \in 1 .. Len(hist[b]) :
            hist[a][v].tx = hist[b][w].tx => Known(t, b) >= w

(* No thread u has seen a version of the publishing thread t.              *)
Unseen(t) ==
    pc[t] = "publish" =>
        \A u \in Threads, n \in Names : \A v \in 1 .. Known(u, n) :
            hist[n][v].tx # tx[t].id

(* A root that an active transaction has published is dirty in it, so      *)
(* validation of a second attempt looks at that root; hence a transaction  *)
(* past validation has published nothing before.                           *)
PublishedDirty(t) ==
    /\ tx[t].active => \A n \in Names : \A v \in 1 .. Len(hist[n]) :
           hist[n][v].tx = tx[t].id => tx[t].work[n].dirty
    /\ pc[t] \in {"barrier", "publish"} =>
           \A i \in 1 .. Len(call[t].todo) :
               tx[t].work[call[t].todo[i].name].dirty
Unpublished(t) ==
    pc[t] \in {"append", "barrier"} =>
        \A n \in Names : \A v \in 1 .. Len(hist[n]) :
            hist[n][v].tx # tx[t].id

VisibleInv ==
    \A t \in Threads : /\ TokensOK(t) /\ KnownOK(t) /\ OrderOK(t) /\ Unseen(t)
                       /\ PublishedDirty(t) /\ Unpublished(t)

LEMMA VisibleInit == Init => VisibleInv
<1> SUFFICES ASSUME Init, NEW t \in Threads
             PROVE  /\ TokensOK(t) /\ KnownOK(t) /\ OrderOK(t) /\ Unseen(t)
                    /\ PublishedDirty(t) /\ Unpublished(t)
  BY DEF VisibleInv
<1>1. /\ pc[t] = "idle" /\ ~ tx[t].active
      /\ \A n \in Names : tx[t].work[n].token = 0 /\ hist[n] = << >>
  BY DEF Init, NoTx, NoWork, WorkingRoot
<1>2. TokensOK(t)
  <2>1. Loaded(tx[t].work) = {}
    BY <1>1 DEF Loaded
  <2>2. Cardinality({}) = 0
    BY FS_EmptySet
  <2> QED
    BY <1>1, <2>1, <2>2 DEF TokensOK
<1>3. KnownOK(t) /\ OrderOK(t) /\ Unseen(t)
  BY <1>1 DEF KnownOK, OrderOK, Unseen, Known, Before, Loading
<1>4. PublishedDirty(t) /\ Unpublished(t)
  BY <1>1 DEF PublishedDirty, Unpublished
<1> QED
  BY <1>2, <1>3, <1>4

LEMMA VisibleGives == ASSUME TypeInv, VisibleInv, \A t \in Threads : CallTx(t)
                      PROVE  AtomicVisibility
<1> SUFFICES ASSUME NEW t \in Threads, NEW a \in Loaded(tx[t].work),
                    NEW b \in Loaded(tx[t].work),
                    tx[t].work[a].token < tx[t].work[b].token,
                    NEW v \in 1 .. tx[t].work[a].expected,
                    NEW w \in 1 .. Len(hist[b]),
                    hist[a][v].tx = hist[b][w].tx
             PROVE  tx[t].work[b].expected >= w
  BY DEF AtomicVisibility
<1>1. /\ a \in Names /\ b \in Names
      /\ tx[t].work[a].token > 0 /\ tx[t].work[b].token > 0
  BY DEF Loaded
<1>2. pc[t] \in Loading => call[t].name # a /\ call[t].name # b
  BY <1>1 DEF CallTx
<1>3. /\ Known(t, a) = tx[t].work[a].expected
      /\ Known(t, b) = tx[t].work[b].expected
  BY <1>1, <1>2 DEF Known
<1>4. Before(t, a, b) /\ OrderOK(t)
  BY <1>1 DEF Before, VisibleInv
<1> QED
  BY <1>1, <1>3, <1>4 DEF OrderOK

-----------------------------------------------------------------------------
(* What a step of t does to what t knows, while the histories stay: it     *)
(* forgets, keeps, or learns the current version of a root while no commit *)
(* is being published.                                                     *)
NobodyPublishes == \A u \in Threads : pc[u] # "publish"
Learns(t) ==
    /\ \A n \in Names :
           \/ Known(t, n)' = 0
           \/ Known(t, n)' = Known(t, n)
           \/ Known(t, n)' = Len(hist[n]) /\ NobodyPublishes
    /\ \A a, b \in Names : Before(t, a, b)' =>
           \/ Known(t, a)' = 0
           \/ Known(t, b)' = Len(hist[b])
           \/ /\ Before(t, a, b)
              /\ Known(t, a)' = Known(t, a) /\ Known(t, b)' = Known(t, b)
    /\ TokensOK(t)'

(* Steps outside of loads.                                                 *)
LEMMA LearnsNothing ==
    ASSUME TypeInv, NEW t \in Threads, Application(t) \/ CallStep(t),
           ~ LoadStep(t), \A n \in Names : ~ Lookup(t, n),
           \A n \in Names, p \in Payloads : ~ Mutate(t, n, p)
    PROVE  /\ pc[t] \notin Loading /\ pc'[t] \notin Loading
           /\ tx'[t] = tx[t] \/ tx'[t].work = NoTx.work
<1> USE DEF TypeInv, TypeOK, Loading
<1>1. CASE Application(t)
  BY <1>1 DEF Application, Begin, Abort, CommitClean, CommitCall,
              CheckpointCall, Goto, control
<1>2. CASE CommitStep(t)
  BY <1>2 DEF CommitStep, CommitRefused, Validate, AppendBatch, AppendFails,
              Barrier, BarrierFails, Publish, Threshold, Return, Throw, Leave,
              Goto
<1>3. CASE CheckpointStep(t)
  BY <1>3 DEF CheckpointStep, CheckpointRefused, CheckpointLocked, Save,
              SaveFails, FlushTmp, FlushTmpFails, AtomicReplace,
              AtomicReplaceFails, SyncDirectory, SyncDirectoryFails, Install,
              Truncate, TruncateFails, SyncWal, SyncWalFails, Return, Throw,
              Leave, Goto
<1> QED
  BY <1>1, <1>2, <1>3 DEF CallStep

LEMMA NoWorkKnown ==
    ASSUME NEW t \in Threads, pc'[t] \notin Loading, tx'[t].work = NoTx.work
    PROVE  Learns(t)
<1>1. \A n \in Names : tx'[t].work[n].token = 0
  BY DEF NoTx, NoWork, WorkingRoot
<1>2. Loaded(tx'[t].work) = {}
  BY <1>1 DEF Loaded
<1>3. Cardinality({}) = 0
  BY FS_EmptySet
<1>4. TokensOK(t)'
  BY <1>1, <1>2, <1>3 DEF TokensOK
<1> QED
  BY <1>1, <1>4 DEF Learns, Known, Before

(* The end of a load.                                                      *)
LEMMA DeliverLearns ==
    ASSUME TypeInv, NEW t \in Threads, TokensOK(t), NEW n \in Names,
           tx[t].work[n].token = 0, NEW version \in Nat, NEW bytes, NEW isNew,
           Deliver(t, n, version, bytes, isNew)
    PROVE  /\ pc'[t] \notin Loading
           /\ TokensOK(t)'
           /\ \A m \in Names \ {n} :
                  /\ tx'[t].work[m].token = tx[t].work[m].token
                  /\ tx'[t].work[m].expected = tx[t].work[m].expected
           /\ \/ tx'[t].work[n].token = 0
              \/ /\ tx'[t].work[n].token \in Nat /\ tx'[t].work[n].token > 0
                 /\ tx'[t].work[n].expected = version
                 /\ \A m \in Names :
                        tx[t].work[m].token < tx'[t].work[n].token
<1> DEFINE k == Cardinality(Loaded(tx[t].work))
           w == WorkingRoot(k + 1, version, isNew, bytes)
<1>1. pc'[t] \notin Loading
  BY DEF Deliver, Leave, Goto, Loading, TypeInv, TypeOK
<1>2. tx[t] \in Transaction /\ tx[t].work \in [Names -> Work]
  BY WorkType DEF TypeInv, TypeOK
<1>3. tx' = tx \/ tx' = [tx EXCEPT ![t].work[n] = w]
  BY DEF Deliver
<1>4. IsFiniteSet(Loaded(tx[t].work)) /\ k \in Nat
  <2>1. Loaded(tx[t].work) \subseteq Names
    BY DEF Loaded
  <2> QED
    BY <2>1, NamesAssumption, FS_Subset, FS_CardinalityType
<1>5. w.token = k + 1 /\ w.expected = version
  BY DEF WorkingRoot
<1> HIDE DEF w
<1>6. CASE tx' = tx
  BY <1>1, <1>6 DEF TokensOK
<1>7. CASE tx' = [tx EXCEPT ![t].work[n] = w]
  <2>1. tx'[t].work = [tx[t].work EXCEPT ![n] = w]
    BY <1>2, <1>7 DEF TypeInv, TypeOK, Transaction
  <2>2. /\ tx'[t].work[n] = w
        /\ \A m \in Names \ {n} : tx'[t].work[m] = tx[t].work[m]
    BY <1>2, <2>1
  <2>3. Loaded(tx'[t].work) = Loaded(tx[t].work) \cup {n}
    BY <1>4, <1>5, <2>2 DEF Loaded
  <2>4. n \notin Loaded(tx[t].work)
    BY DEF Loaded
  <2>5. Cardinality(Loaded(tx'[t].work)) = k + 1
    BY <1>4, <2>3, <2>4, FS_AddElement
  <2>6. \A m \in Names : tx[t].work[m].token \in Nat /\ tx[t].work[m].token <= k
    BY <1>2 DEF TokensOK, Work
  <2> HIDE DEF k
  <2>7. TokensOK(t)'
    <3> SUFFICES ASSUME NEW m \in Names
                 PROVE  tx'[t].work[m].token
                            <= Cardinality(Loaded(tx'[t].work))
      BY DEF TokensOK
    <3> QED
      BY <1>4, <1>5, <2>2, <2>5, <2>6
  <2> QED
    BY <1>1, <1>4, <1>5, <2>2, <2>6, <2>7
<1> QED
  BY <1>3, <1>6, <1>7

(* Lookup and Miss: t learns the current version of root n.                *)
LEMMA LooksUp ==
    ASSUME SafeInv, NEW t \in Threads, TokensOK(t), NEW n \in Names,
           tx[t].work[n].token = 0, tx' = tx,
           pc[t] \in Loading => call[t].name = n,
           pc'[t] \in Loading, call'[t].name = n,
           call'[t].record = roots[n], NobodyPublishes
    PROVE  Learns(t)
<1>1. roots[n].version = Len(hist[n])
  BY DEF SafeInv, StoreInv, IndexOK
<1>2. Known(t, n)' = Len(hist[n])
  BY <1>1 DEF Known
<1>3. \A m \in Names \ {n} : Known(t, m)' = Known(t, m)
  BY DEF Known
<1>4. \A a \in Names, b \in Names \ {n} :
          Before(t, a, b)' => Before(t, a, b) /\ a # n
  BY DEF Before
<1>5. TokensOK(t)'
  BY DEF TokensOK
<1> QED
  BY <1>2, <1>3, <1>4, <1>5 DEF Learns

(* A load that ends with what it had looked up, or with an exception.      *)
LEMMA LoadEnds ==
    ASSUME TypeInv, NEW t \in Threads, CallTx(t), TokensOK(t),
           pc[t] \in Loading,
           \/ tx' = tx /\ pc'[t] \notin Loading
           \/ \E bytes : Deliver(t, call[t].name, call[t].record.version,
                                 bytes, FALSE)
    PROVE  Learns(t)
<1>1. PICK n \in Names, version \in Nat :
          /\ n = call[t].name /\ version = call[t].record.version
          /\ tx[t].work[n].token = 0
  BY DEF TypeInv, TypeOK, CallOK, Call, RootRecord, CallTx, Loading
<1>2. Known(t, n) = version
  BY <1>1 DEF Known
<1>3. /\ pc'[t] \notin Loading
      /\ TokensOK(t)'
      /\ \A m \in Names \ {n} :
             /\ tx'[t].work[m].token = tx[t].work[m].token
             /\ tx'[t].work[m].expected = tx[t].work[m].expected
      /\ \/ tx'[t].work[n].token = 0
         \/ /\ tx'[t].work[n].token \in Nat /\ tx'[t].work[n].token > 0
            /\ tx'[t].work[n].expected = version
            /\ \A m \in Names : tx[t].work[m].token < tx'[t].work[n].token
  <2>1. CASE tx' = tx /\ pc'[t] \notin Loading
    BY <1>1, <2>1 DEF TokensOK
  <2>2. CASE \E bytes : Deliver(t, n, version, bytes, FALSE)
    BY <1>1, <2>2, DeliverLearns
  <2> QED
    BY <1>1, <2>1, <2>2
<1>4. \A m \in Names : tx[t].work[m].token \in Nat
  BY WorkType DEF Work
<1>5. \A m \in Names \ {n} : Known(t, m)' = Known(t, m)
  BY <1>1, <1>3 DEF Known
<1>6. Known(t, n)' \in {0, Known(t, n)}
  BY <1>2, <1>3 DEF Known
<1>7. ASSUME NEW a \in Names, NEW b \in Names, Before(t, a, b)'
      PROVE  \/ Known(t, a)' = 0
             \/ /\ Before(t, a, b)
                /\ Known(t, a)' = Known(t, a) /\ Known(t, b)' = Known(t, b)
  <2>1. /\ tx'[t].work[a].token > 0 /\ tx'[t].work[b].token > 0
        /\ tx'[t].work[a].token < tx'[t].work[b].token
    BY <1>3, <1>7 DEF Before
  <2>2. CASE a = n
    BY <1>3, <1>4, <2>1, <2>2
  <2>3. CASE a # n /\ b = n
    <3>1. Known(t, b)' = Known(t, b)
      BY <1>2, <1>3, <2>1, <2>3 DEF Known
    <3> QED
      BY <1>1, <1>3, <1>5, <2>1, <2>3, <3>1 DEF Before
  <2>4. CASE a # n /\ b # n
    BY <1>3, <1>5, <2>1, <2>4 DEF Before
  <2> QED
    BY <2>2, <2>3, <2>4
<1> QED
  BY <1>3, <1>5, <1>6, <1>7 DEF Learns

LEMMA StepLearns ==
    ASSUME SafeInv, NEW t \in Threads, CallTx(t), TokensOK(t),
           Application(t) \/ CallStep(t)
    PROVE  Learns(t)
<1> USE DEF SafeInv
<1>1. ASSUME NEW n \in Names, Lookup(t, n)
      PROVE  Learns(t)
  <2>1. /\ pc[t] = "idle" /\ tx[t].work[n].token = 0 /\ NobodyPublishes
    BY <1>1 DEF Lookup, RootsMutexFree, NobodyPublishes
  <2>2. CASE roots[n].version # 0
    <3>1. /\ pc'[t] = "probe" /\ tx' = tx /\ call'[t].name = n
          /\ call'[t].record = roots[n]
      BY <1>1, <2>2 DEF Lookup, Goto, TypeInv, TypeOK
    <3> QED
      BY <2>1, <3>1, LooksUp DEF Loading
  <2>3. CASE roots[n].version = 0
    <3>1. Deliver(t, n, 0, NullPayload, TRUE)
      BY <1>1, <2>3 DEF Lookup
    <3>2. Len(hist[n]) = 0
      BY <2>3 DEF StoreInv, IndexOK
    <3>3. /\ pc'[t] \notin Loading
          /\ TokensOK(t)'
          /\ \A m \in Names \ {n} :
                 /\ tx'[t].work[m].token = tx[t].work[m].token
                 /\ tx'[t].work[m].expected = tx[t].work[m].expected
          /\ tx'[t].work[n].token = 0 \/ tx'[t].work[n].expected = 0
      <4>1. TypeInv /\ 0 \in Nat
        OBVIOUS
      <4> QED
        BY <2>1, <3>1, <4>1, DeliverLearns, Zenon
    <3>4. Known(t, n)' = 0
      BY <3>3 DEF Known
    <3>5. \A m \in Names \ {n} : Known(t, m)' = Known(t, m)
      BY <2>1, <3>3 DEF Known, Loading
    <3>6. \A a, b \in Names \ {n} : Before(t, a, b)' => Before(t, a, b)
      BY <2>1, <3>3 DEF Before, Loading
    <3> QED
      BY <3>2, <3>3, <3>4, <3>5, <3>6 DEF Learns
  <2> QED
    BY <2>2, <2>3
<1>2. ASSUME NEW n \in Names, NEW p \in Payloads, Mutate(t, n, p)
      PROVE  Learns(t)
  <2> DEFINE w == WorkingRoot(tx[t].work[n].token, tx[t].work[n].expected,
                              TRUE, p)
  <2>1. /\ pc' = pc /\ call' = call /\ pc[t] = "idle"
        /\ tx' = [tx EXCEPT ![t].work[n] = w]
    BY <1>2 DEF Mutate, control
  <2>2. /\ w.token = tx[t].work[n].token
        /\ w.expected = tx[t].work[n].expected
    BY DEF WorkingRoot
  <2> HIDE DEF w
  <2>3. tx'[t].work = [tx[t].work EXCEPT ![n] = w]
    BY <2>1 DEF TypeInv, TypeOK, Transaction
  <2>4. \A m \in Names :
            /\ tx'[t].work[m].token = tx[t].work[m].token
            /\ tx'[t].work[m].expected = tx[t].work[m].expected
    BY <2>2, <2>3, WorkType
  <2>5. Loaded(tx'[t].work) = Loaded(tx[t].work)
    BY <2>4 DEF Loaded
  <2>6. TokensOK(t)'
    BY <2>4, <2>5 DEF TokensOK
  <2>7. \A m \in Names : Known(t, m)' = Known(t, m)
    BY <2>1, <2>4 DEF Known, Loading
  <2>8. \A a, b \in Names : Before(t, a, b)' => Before(t, a, b)
    BY <2>1, <2>4 DEF Before, Loading
  <2> QED
    BY <2>6, <2>7, <2>8 DEF Learns
<1>3. CASE Miss(t)
  <2>1. /\ pc[t] \in Loading /\ pc'[t] \in Loading /\ tx' = tx
        /\ call'[t].name = call[t].name
        /\ call'[t].record = roots[call[t].name]
        /\ mutex = NoThread
    BY <1>3 DEF Miss, Acquire, Goto, Loading, TypeInv, TypeOK, Call
  <2>2. call[t].name \in Names /\ tx[t].work[call[t].name].token = 0
    BY <1>3 DEF Miss, TypeInv, CallOK, CallTx, Loading
  <2>3. NobodyPublishes
    BY <2>1, HeapAssumption DEF NobodyPublishes, MutexInv, HoldsCommitMutex
  <2> QED
    BY <2>1, <2>2, <2>3, LooksUp
<1>4. CASE Probe(t) \/ Fetch(t) \/ FetchFails(t)
  <2>1. CASE pc'[t] \in Loading
    <3>1. tx' = tx /\ call' = call /\ pc[t] \in Loading
      BY <1>4, <2>1 DEF Probe, Fetch, FetchFails, Deliver, Throw, Leave, Goto,
                        Loading, TypeInv, TypeOK
    <3> QED
      BY <2>1, <3>1 DEF Learns, Known, Before, TokensOK
  <2>2. CASE pc'[t] \notin Loading
    <3>1. /\ pc[t] \in Loading
          /\ \/ tx' = tx
             \/ \E bytes : Deliver(t, call[t].name, call[t].record.version,
                                   bytes, FALSE)
      BY <1>4 DEF Probe, Fetch, FetchFails, Throw, Loading
    <3> QED
      BY <2>2, <3>1, LoadEnds
  <2> QED
    BY <2>1, <2>2
<1>5. CASE /\ ~ LoadStep(t) /\ \A n \in Names : ~ Lookup(t, n)
           /\ \A n \in Names, p \in Payloads : ~ Mutate(t, n, p)
  <2>1. /\ pc[t] \notin Loading /\ pc'[t] \notin Loading
        /\ tx'[t] = tx[t] \/ tx'[t].work = NoTx.work
    BY <1>5, LearnsNothing
  <2>2. CASE tx'[t] = tx[t]
    BY <2>1, <2>2 DEF Learns, Known, Before, TokensOK
  <2>3. CASE tx'[t].work = NoTx.work
    BY <2>1, <2>3, NoWorkKnown
  <2> QED
    BY <2>1, <2>2, <2>3
<1> QED
  BY <1>1, <1>2, <1>3, <1>4, <1>5 DEF LoadStep

-----------------------------------------------------------------------------
(* A materialized root that is dirty stays dirty until the transaction     *)
(* ends.                                                                   *)
StaysDirty(t) ==
    \A n \in Names : tx[t].work[n].token > 0 /\ tx[t].work[n].dirty =>
                         tx'[t].work[n].dirty

LEMMA DirtyKept ==
    ASSUME TypeInv, NEW t \in Threads, CallTx(t),
           Application(t) \/ CallStep(t), ~ Begin(t)
    PROVE  tx'[t] = NoTx \/ StaysDirty(t)
<1> USE DEF TypeInv, TypeOK
<1>1. tx'[t] = tx[t] => StaysDirty(t)
  BY DEF StaysDirty
<1>2. ASSUME NEW n \in Names, NEW w, tx[t].work[n].token = 0 \/ w.dirty,
             tx' = [tx EXCEPT ![t].work[n] = w]
      PROVE  StaysDirty(t)
  <2>1. tx'[t].work = [tx[t].work EXCEPT ![n] = w]
    BY <1>2 DEF Transaction
  <2> QED
    BY <1>2, <2>1, WorkType DEF StaysDirty
<1>3. ASSUME NEW n \in Names, tx[t].work[n].token = 0,
             NEW version, NEW bytes, NEW isNew,
             Deliver(t, n, version, bytes, isNew)
      PROVE  StaysDirty(t)
  <2> DEFINE w == WorkingRoot(Cardinality(Loaded(tx[t].work)) + 1,
                              version, isNew, bytes)
  <2>1. tx' = tx \/ tx' = [tx EXCEPT ![t].work[n] = w]
    BY <1>3 DEF Deliver
  <2> HIDE DEF w
  <2> QED
    BY <1>1, <1>2, <1>3, <2>1
<1>4. ASSUME NEW n \in Names, Lookup(t, n)
      PROVE  StaysDirty(t)
  <2>1. CASE roots[n].version = 0
    <3>1. /\ tx[t].work[n].token = 0
          /\ Deliver(t, n, 0, NullPayload, TRUE)
      BY <1>4, <2>1 DEF Lookup
    <3> QED
      BY <1>3, <3>1, Zenon
  <2>2. CASE roots[n].version # 0
    BY <1>1, <1>4, <2>2 DEF Lookup
  <2> QED
    BY <2>1, <2>2
<1>5. ASSUME NEW n \in Names, NEW p \in Payloads, Mutate(t, n, p)
      PROVE  StaysDirty(t)
  <2> DEFINE w == WorkingRoot(tx[t].work[n].token, tx[t].work[n].expected,
                              TRUE, p)
  <2>1. tx' = [tx EXCEPT ![t].work[n] = w] /\ w.dirty
    BY <1>5 DEF Mutate, WorkingRoot
  <2> HIDE DEF w
  <2> QED
    BY <1>2, <2>1
<1>6. CASE LoadStep(t)
  <2>1. CASE Miss(t) \/ FetchFails(t)
    BY <2>1, <1>1 DEF Miss, FetchFails, Throw
  <2>2. CASE Probe(t) \/ Fetch(t)
    <3>1. /\ call[t].name \in Names /\ tx[t].work[call[t].name].token = 0
      BY <2>2 DEF Probe, Fetch, CallOK, CallTx, Loading
    <3>2. \/ tx' = tx
          \/ \E bytes : Deliver(t, call[t].name, call[t].record.version,
                                bytes, FALSE)
      BY <2>2 DEF Probe, Fetch
    <3> QED
      BY <1>1, <1>3, <3>1, <3>2
  <2> QED
    BY <1>6, <2>1, <2>2 DEF LoadStep
<1>7. CASE /\ ~ LoadStep(t) /\ \A n \in Names : ~ Lookup(t, n)
           /\ \A n \in Names, p \in Payloads : ~ Mutate(t, n, p)
  <2>1. CASE Application(t)
    BY <1>1, <1>7, <2>1 DEF Application, Abort, CommitClean, CommitCall,
                            CheckpointCall
  <2>2. CASE CommitStep(t)
    BY <1>1, <2>2
    DEF CommitStep, CommitRefused, Validate, AppendBatch, AppendFails,
        Barrier, BarrierFails, Publish, Threshold, Return, Throw
  <2>3. CASE CheckpointStep(t)
    BY <1>1, <2>3
    DEF CheckpointStep, CheckpointRefused, CheckpointLocked, Save, SaveFails,
        FlushTmp, FlushTmpFails, AtomicReplace, AtomicReplaceFails,
        SyncDirectory, SyncDirectoryFails, Install, Truncate, TruncateFails,
        SyncWal, SyncWalFails, Return, Throw
  <2> QED
    BY <1>7, <2>1, <2>2, <2>3 DEF CallStep
<1> QED
  BY <1>4, <1>5, <1>6, <1>7

(* Validation of a second attempt fails: the transaction expects a version *)
(* below the one it published.                                             *)
LEMMA ValidateFresh ==
    ASSUME SafeInv, NEW t \in Threads, CallTx(t), IdInv, PublishedDirty(t),
           Validate(t), NEW n \in Names, NEW v \in 1 .. Len(hist[n])
    PROVE  hist[n][v].tx # tx[t].id
<1> SUFFICES ASSUME hist[n][v].tx = tx[t].id PROVE FALSE
  OBVIOUS
<1>1. tx[t].active /\ VersionsMatch(tx[t].work)
  BY DEF Validate, CallTx
<1>2. /\ tx[t].work[n].token > 0 /\ tx[t].work[n].expected < v
      /\ tx[t].work[n].dirty
  BY <1>1 DEF IdInv, PublishedDirty
<1>3. roots[n].version = tx[t].work[n].expected
  BY <1>1, <1>2 DEF VersionsMatch, Dirty
<1>4. roots[n].version = Len(hist[n])
  BY DEF SafeInv, StoreInv, IndexOK
<1>5. Len(hist[n]) \in Nat
  BY DEF SafeInv, TypeInv, TypeOK
<1> QED
  BY <1>2, <1>3, <1>4, <1>5

(* The roots of a batch are dirty.                                         *)
LEMMA AppendDirty ==
    ASSUME TypeInv, NEW t \in Threads, AppendBatch(t)
    PROVE  \A i \in 1 .. Len(call'[t].todo) :
               tx'[t].work[call'[t].todo[i].name].dirty
<1>1. /\ tx' = tx /\ wal \in Seq(Record) /\ tx[t].work \in [Names -> Work]
  BY WorkType DEF AppendBatch, TypeInv, TypeOK
<1>2. PICK order \in CommitOrder(tx[t].work) :
          call' = [call EXCEPT ![t].todo = Locations(wal, order, tx[t].work)]
  BY DEF AppendBatch
<1>3. call'[t].todo = Locations(wal, order, tx[t].work)
  BY <1>2 DEF TypeInv, TypeOK, Call
<1>4. /\ order \in Seq(Names)
      /\ \A i \in 1 .. Len(order) : tx[t].work[order[i]].dirty
  BY <1>1, OrderType DEF Dirty
<1>5. Len(Locations(wal, order, tx[t].work)) = Len(order)
  BY <1>1, <1>4, LocationsType
<1>6. \A i \in 1 .. Len(order) :
          Locations(wal, order, tx[t].work)[i].name = order[i]
  BY DEF Locations
<1> QED
  BY <1>1, <1>3, <1>4, <1>5, <1>6

-----------------------------------------------------------------------------
LEMMA VisibleStep ==
    ASSUME SafeInv, \A t \in Threads : CallTx(t), IdInv, VisibleInv,
           NEW t \in Threads, Application(t) \/ CallStep(t), ~ Publish(t)
    PROVE  VisibleInv'
<1> USE DEF SafeInv
<1>1. /\ hist' = hist
      /\ pc'[t] \in Committing =>
             Validate(t) \/ AppendBatch(t) \/ Barrier(t)
  BY IndexKept
<1>2. \A u \in Threads \ {t} : /\ pc'[u] = pc[u] /\ call'[u] = call[u]
                                /\ tx'[u] = tx[u]
  BY OthersKept
<1>3. \A u \in Threads : Learns(u)
  <2>1. Learns(t)
    BY StepLearns DEF VisibleInv
  <2>2. \A u \in Threads \ {t} : Learns(u)
    BY <1>2 DEF Learns, Known, Before, TokensOK, VisibleInv
  <2> QED
    BY <2>1, <2>2
<1>4. \A n \in Names : Len(hist[n]) \in Nat
  BY DEF TypeInv, TypeOK
<1>5. \A u \in Threads : TokensOK(u)' /\ KnownOK(u)'
  BY <1>1, <1>3, <1>4 DEF Learns, KnownOK, VisibleInv
<1>6. ASSUME NEW u \in Threads
      PROVE  OrderOK(u)'
  <2> SUFFICES ASSUME NEW a \in Names, NEW b \in Names, Before(u, a, b)',
                      NEW v \in 1 .. Known(u, a)', NEW w \in 1 .. Len(hist[b]),
                      hist[a][v].tx = hist[b][w].tx
               PROVE  Known(u, b)' >= w
    BY <1>1 DEF OrderOK
  <2>1. CASE Known(u, a)' = 0
    BY <2>1
  <2>2. CASE Known(u, b)' = Len(hist[b])
    BY <1>4, <2>2
  <2>3. CASE /\ Before(u, a, b)
             /\ Known(u, a)' = Known(u, a) /\ Known(u, b)' = Known(u, b)
    <3>1. OrderOK(u) /\ v \in 1 .. Known(u, a)
      BY <2>3 DEF VisibleInv
    <3> QED
      BY <2>3, <3>1 DEF OrderOK
  <2> QED
    BY <1>3, <2>1, <2>2, <2>3 DEF Learns
<1>7. ASSUME NEW u \in Threads, pc'[u] = "publish",
             NEW r \in Threads, NEW n \in Names, NEW v \in 1 .. Known(r, n)'
      PROVE  hist[n][v].tx # tx'[u].id
  <2>1. CASE u = t
    <3>1. AppendBatch(t) \/ Barrier(t)
      BY <1>1, <1>7, <2>1
      DEF Committing, Validate, Goto, TypeInv, TypeOK
    <3>2. pc[t] \in {"append", "barrier"} /\ tx' = tx
      BY <3>1 DEF AppendBatch, Barrier
    <3>3. v \in 1 .. Len(hist[n])
      BY <1>1, <1>4, <1>5 DEF KnownOK
    <3> QED
      BY <2>1, <3>2, <3>3 DEF VisibleInv, Unpublished
  <2>2. CASE u # t
    <3>1. pc[u] = "publish" /\ tx'[u] = tx[u] /\ ~ NobodyPublishes
      BY <1>2, <1>7, <2>2 DEF NobodyPublishes
    <3>2. Known(r, n)' \in {0, Known(r, n)}
      BY <1>3, <3>1 DEF Learns
    <3>3. v \in 1 .. Known(r, n)
      BY <3>2
    <3> QED
      BY <3>1, <3>3 DEF VisibleInv, Unseen
  <2> QED
    BY <2>1, <2>2
<1>8. \A u \in Threads : Unseen(u)'
  BY <1>1, <1>7 DEF Unseen
<1>9. \A u \in Threads \ {t} : PublishedDirty(u)' /\ Unpublished(u)'
  BY <1>1, <1>2 DEF PublishedDirty, Unpublished, VisibleInv
<1>10. PublishedDirty(t)'
  <2>1. ASSUME tx'[t].active, NEW n \in Names, NEW v \in 1 .. Len(hist[n]),
               hist[n][v].tx = tx'[t].id
        PROVE  tx'[t].work[n].dirty
    <3>1. CASE Begin(t)
      <4>1. tx'[t].id = nextTx
        BY <3>1 DEF Begin, TypeInv, TypeOK
      <4>2. hist[n][v].tx < nextTx /\ nextTx \in Nat
        BY DEF IdInv, TypeInv, TypeOK
      <4> QED
        BY <2>1, <4>1, <4>2
    <3>2. CASE ~ Begin(t)
      <4>1. tx'[t] # NoTx
        BY <2>1 DEF NoTx
      <4>2. TxSame(t) /\ StaysDirty(t)
        BY <3>2, <4>1, TxKept, DirtyKept
      <4>3. tx[t].active /\ hist[n][v].tx = tx[t].id
        BY <2>1, <4>2 DEF TxSame
      <4>4. tx[t].work[n].token > 0
        BY <4>3 DEF IdInv
      <4>5. tx[t].work[n].dirty
        BY <4>3 DEF VisibleInv, PublishedDirty
      <4> QED
        BY <4>2, <4>4, <4>5 DEF StaysDirty
    <3> QED
      BY <3>1, <3>2
  <2>2. ASSUME pc'[t] \in {"barrier", "publish"}
        PROVE  \A i \in 1 .. Len(call'[t].todo) :
                   tx'[t].work[call'[t].todo[i].name].dirty
    <3>1. AppendBatch(t) \/ Barrier(t)
      BY <1>1, <2>2 DEF Committing, Validate, Goto, TypeInv, TypeOK
    <3>2. CASE AppendBatch(t)
      BY <3>2, AppendDirty
    <3>3. CASE Barrier(t)
      BY <3>3 DEF Barrier, VisibleInv, PublishedDirty
    <3> QED
      BY <3>1, <3>2, <3>3
  <2> QED
    BY <1>1, <2>1, <2>2 DEF PublishedDirty
<1>11. Unpublished(t)'
  <2> SUFFICES ASSUME pc'[t] \in {"append", "barrier"}, NEW n \in Names,
                      NEW v \in 1 .. Len(hist[n])
               PROVE  hist[n][v].tx # tx'[t].id
    BY <1>1 DEF Unpublished
  <2>1. Validate(t) \/ AppendBatch(t)
    BY <1>1 DEF Committing, Barrier, Goto, TypeInv, TypeOK
  <2>2. CASE Validate(t)
    <3>1. tx' = tx
      BY <2>2 DEF Validate
    <3> QED
      BY <2>2, <3>1, ValidateFresh DEF VisibleInv
  <2>3. CASE AppendBatch(t)
    BY <2>3 DEF AppendBatch, VisibleInv, Unpublished
  <2> QED
    BY <2>1, <2>2, <2>3
<1> QED
  BY <1>5, <1>6, <1>8, <1>9, <1>10, <1>11 DEF VisibleInv

(* The history of one root grows by a version that nobody knows.           *)
LEMMA VisiblePublish ==
    ASSUME SafeInv, \A t \in Threads : CallTx(t), IdInv, VisibleInv,
           NEW t \in Threads, Publish(t)
    PROVE  VisibleInv'
<1> USE DEF SafeInv
<1>1. /\ pc[t] = "publish" /\ pc'[t] \in {"publish", "threshold"}
      /\ tx' = tx /\ call'[t].todo = Tail(call[t].todo)
      /\ pc[t] \in HoldsCommitMutex /\ tx[t].active
  BY DEF Publish, Goto, TypeInv, TypeOK, Call, HoldsCommitMutex, CallTx,
         Committing
<1>2. \A u \in Threads \ {t} : /\ pc'[u] = pc[u] /\ call'[u] = call[u]
                                /\ pc[u] \notin HoldsCommitMutex
  BY <1>1, OthersKept, Alone DEF CallStep, CommitStep
<1>3. PICK n \in Names, d \in Version :
        /\ n = Head(call[t].todo).name /\ d.tx = tx[t].id
        /\ hist' = [hist EXCEPT ![n] = Append(@, d)]
  <2> DEFINE todo == call[t].todo
             m == Head(todo).name
             d == [tx |-> tx[t].id, data |-> tx[t].work[m].data]
  <2>1. /\ todo \in Seq(Update) /\ todo # << >> /\ 1 \in 1 .. Len(todo)
        /\ Head(todo) = todo[1]
    BY <1>1 DEF TypeInv, TypeOK, CallOK, Call
  <2>2. m \in Names
    <3> HIDE DEF todo
    <3>1. todo[1] \in Update
      BY <2>1
    <3> QED
      BY <2>1, <3>1 DEF Update
  <2>3. hist' = [hist EXCEPT ![m] = Append(@, d)]
    BY DEF Publish
  <2>4. d \in Version /\ d.tx = tx[t].id
    BY <2>2, WorkType DEF Version, Work
  <2> QED
    BY <2>2, <2>3, <2>4
<1>4. \A m \in Names : hist[m] \in Seq(Version) /\ Len(hist[m]) \in Nat
  BY DEF TypeInv, TypeOK
<1>5. /\ Len(hist'[n]) = Len(hist[n]) + 1
      /\ hist'[n][Len(hist[n]) + 1].tx = tx[t].id
      /\ \A v \in 1 .. Len(hist[n]) : hist'[n][v] = hist[n][v]
      /\ \A m \in Names : m # n => hist'[m] = hist[m]
  BY <1>3, <1>4, AppendProperties DEF TypeInv, TypeOK
<1>6. \A m \in Names : /\ Len(hist[m]) <= Len(hist'[m])
                       /\ \A v \in 1 .. Len(hist[m]) : hist'[m][v] = hist[m][v]
                       /\ \A v \in 1 .. Len(hist'[m]) :
                              \/ v \in 1 .. Len(hist[m])
                              \/ m = n /\ hist'[m][v].tx = tx[t].id
  BY <1>4, <1>5
<1>7. \A u \in Threads : /\ \A m \in Names : Known(u, m)' = Known(u, m)
                         /\ \A a, b \in Names :
                                Before(u, a, b)' <=> Before(u, a, b)
  BY <1>1, <1>2 DEF Known, Before, Loading
<1>8. \A u \in Threads : KnownOK(u) /\ OrderOK(u) /\ PublishedDirty(u)
  BY DEF VisibleInv
<1>9. \A u \in Threads, m \in Names : \A v \in 1 .. Known(u, m) :
          /\ v \in 1 .. Len(hist[m])
          /\ hist'[m][v] = hist[m][v]
          /\ hist[m][v].tx # tx[t].id
  <2> SUFFICES ASSUME NEW u \in Threads, NEW m \in Names,
                      NEW v \in 1 .. Known(u, m)
               PROVE  /\ v \in 1 .. Len(hist[m])
                      /\ hist[m][v].tx # tx[t].id
    BY <1>6
  <2>1. Known(u, m) \in Nat /\ Known(u, m) <= Len(hist[m])
    BY <1>8 DEF KnownOK
  <2> QED
    BY <1>1, <1>4, <2>1 DEF VisibleInv, Unseen
<1>10. ASSUME NEW u \in Threads
       PROVE  TokensOK(u)' /\ KnownOK(u)' /\ OrderOK(u)'
  <2>1. TokensOK(u)'
    BY <1>1 DEF VisibleInv, TokensOK
  <2>2. KnownOK(u)'
    <3>1. \A m \in Names : Len(hist'[m]) \in Nat
      BY <1>4, <1>5
    <3> QED
      BY <1>4, <1>6, <1>7, <1>8, <3>1 DEF KnownOK
  <2>3. ASSUME NEW a \in Names, NEW b \in Names, Before(u, a, b),
               NEW v \in 1 .. Known(u, a), NEW w \in 1 .. Len(hist'[b]),
               hist'[a][v].tx = hist'[b][w].tx
        PROVE  Known(u, b) >= w
    <3>1. hist'[a][v] = hist[a][v] /\ hist[a][v].tx # tx[t].id
      BY <1>9
    <3>2. w \in 1 .. Len(hist[b]) /\ hist'[b][w] = hist[b][w]
      BY <1>6, <2>3, <3>1
    <3> QED
      BY <1>8, <2>3, <3>1, <3>2 DEF OrderOK
  <2>4. OrderOK(u)'
    BY <1>7, <2>3 DEF OrderOK
  <2> QED
    BY <2>1, <2>2, <2>4
<1>11. ASSUME NEW u \in Threads
       PROVE  Unseen(u)' /\ Unpublished(u)'
  <2>1. CASE u = t
    BY <1>1, <1>7, <1>9, <2>1 DEF Unseen, Unpublished
  <2>2. CASE u # t
    <3>1. pc'[u] \notin HoldsCommitMutex
      BY <1>2, <2>2
    <3> QED
      BY <3>1 DEF Unseen, Unpublished, HoldsCommitMutex
  <2> QED
    BY <2>1, <2>2
<1>12. ASSUME NEW u \in Threads
       PROVE  PublishedDirty(u)'
  <2> DEFINE todo == call[t].todo
  <2>1. /\ todo \in Seq(Update) /\ todo # << >>
        /\ \A i \in 1 .. Len(todo) : tx[t].work[todo[i].name].dirty
    BY <1>1, <1>8 DEF TypeInv, TypeOK, CallOK, Call, PublishedDirty
  <2>2. /\ Len(todo) \in Nat /\ 1 \in 1 .. Len(todo) /\ Head(todo) = todo[1]
        /\ Len(Tail(todo)) = Len(todo) - 1
        /\ \A i \in 1 .. Len(todo) - 1 : Tail(todo)[i] = todo[i + 1]
    <3> HIDE DEF todo
    <3> QED
      BY <2>1
  <2>3. ASSUME tx[u].active, NEW m \in Names, NEW v \in 1 .. Len(hist'[m]),
               hist'[m][v].tx = tx[u].id
        PROVE  tx[u].work[m].dirty
    <3>1. CASE v \in 1 .. Len(hist[m])
      <4>1. hist[m][v].tx = tx[u].id
        BY <1>6, <2>3, <3>1
      <4> QED
        BY <1>8, <2>3, <3>1, <4>1 DEF PublishedDirty
    <3>2. CASE m = n /\ hist'[m][v].tx = tx[t].id
      <4>1. u = t
        BY <1>1, <2>3, <3>2 DEF IdInv
      <4> QED
        BY <1>3, <2>1, <2>2, <3>2, <4>1
    <3> QED
      BY <1>6, <3>1, <3>2
  <2>4. ASSUME pc'[u] \in {"barrier", "publish"},
               NEW i \in 1 .. Len(call'[u].todo)
        PROVE  tx[u].work[call'[u].todo[i].name].dirty
    <3>1. u = t
      BY <1>2, <2>4 DEF HoldsCommitMutex
    <3>2. call'[u].todo = Tail(todo)
      BY <1>1, <3>1
    <3>3. i + 1 \in 1 .. Len(todo) /\ Tail(todo)[i] = todo[i + 1]
      BY <2>2, <2>4, <3>2
    <3> QED
      BY <2>1, <3>1, <3>2, <3>3
  <2> QED
    BY <1>1, <2>3, <2>4 DEF PublishedDirty
<1> QED
  BY <1>10, <1>11, <1>12 DEF VisibleInv

LEMMA VisibleNext ==
    ASSUME SafeInv, \A t \in Threads : CallTx(t), IdInv, VisibleInv,
           [Next]_vars
    PROVE  VisibleInv'
<1>1. CASE Close \/ UNCHANGED vars
  <2>1. UNCHANGED <<pc, call, tx, hist>>
    BY <1>1 DEF Close, vars, control
  <2> QED
    BY <2>1 DEF VisibleInv, TokensOK, KnownOK, OrderOK, Known, Before, Unseen,
                PublishedDirty, Unpublished
<1>2. ASSUME NEW t \in Threads, Application(t) \/ CallStep(t)
      PROVE  VisibleInv'
  BY <1>2, VisibleStep, VisiblePublish
<1> QED
  BY <1>1, <1>2 DEF Next

(* Commits are visible as a whole, for any threads, roots and storage      *)
(* failures: a transaction that has seen a root of another transaction's   *)
(* commit does not afterwards load an older version of another root of     *)
(* that commit (heap_state::commit publishes under the exclusive           *)
(* roots_mutex, and load looks up under the shared one).                   *)
THEOREM CommitsVisibleAtOnce == Spec => []AtomicVisibility
<1> DEFINE Inv == /\ \A t \in Threads : CallTx(t)
                  /\ IdInv /\ AtMostOnce /\ VisibleInv
<1>1. Init => Inv
  BY VisibleInit
  DEF Init, CallTx, Committing, Loading, IdInv, AtMostOnce, NoTx
<1>2. SafeInv /\ Inv /\ [Next]_vars => Inv'
  BY CallTxNext, IdNext, VisibleNext DEF SafeInv
<1>3. SafeInv /\ Inv => AtomicVisibility
  BY VisibleGives DEF SafeInv
<1> QED
  BY <1>1, <1>2, <1>3, SafeInvariant, PTL DEF Spec
=============================================================================

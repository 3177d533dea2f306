-------------------------- MODULE HeapSafetyProofs --------------------------
(***************************************************************************)
(* The safety of optimistic commits and of reads through the cache.        *)
(*                                                                         *)
(* Layer 1, MutexInv: commit_mutex protects exactly the steps from the     *)
(* acquisition to the end of a call.                                       *)
(* Layer 2, StoreInv: what the root index, the history and the list of a   *)
(* committing thread say about versions and checksums.                     *)
(* Layer 3, ReadInv: what loads in progress, the cache and the working     *)
(* copies say about contents; it needs checksums.                          *)
(***************************************************************************)
EXTENDS HeapStateProofs

-----------------------------------------------------------------------------
(* Layer 1.                                                                *)

MutexInv == \A t \in Threads : pc[t] \in HoldsCommitMutex <=> mutex = t

LEMMA MutexInit == Init => MutexInv
  BY HeapAssumption DEF Init, MutexInv, HoldsCommitMutex

(* A call that ends releases the mutex if it has it.                       *)
LEMMA MutexLeave ==
    ASSUME TypeInv, MutexInv, NEW t \in Threads, Leave(t)
    PROVE  MutexInv'
  BY HeapAssumption
  DEF TypeInv, TypeOK, MutexInv, Leave, Goto, HoldsCommitMutex

(* A step inside or outside the critical section.                          *)
LEMMA MutexStay ==
    ASSUME TypeInv, MutexInv, NEW t \in Threads, NEW label, Goto(t, label),
           label \in HoldsCommitMutex <=> pc[t] \in HoldsCommitMutex,
           mutex' = mutex
    PROVE  MutexInv'
  BY DEF TypeInv, TypeOK, MutexInv, Goto

(* Entering it.                                                            *)
LEMMA MutexEnter ==
    ASSUME TypeInv, MutexInv, NEW t \in Threads, NEW label, Goto(t, label),
           label \in HoldsCommitMutex, Acquire(t)
    PROVE  MutexInv'
  BY HeapAssumption DEF TypeInv, TypeOK, MutexInv, Goto, Acquire

LEMMA MutexNext == TypeInv /\ MutexInv /\ [Next]_vars => MutexInv'
<1> SUFFICES ASSUME TypeInv, MutexInv, [Next]_vars
             PROVE  MutexInv'
  OBVIOUS
<1>1. CASE Close \/ UNCHANGED vars
  BY <1>1 DEF Close, vars, control, MutexInv
<1>2. ASSUME NEW t \in Threads, Application(t)
      PROVE  MutexInv'
  <2>1. CASE Begin(t) \/ Abort(t) \/ CommitClean(t)
             \/ \E n \in Names, p \in Payloads : Mutate(t, n, p)
    BY <2>1 DEF Begin, Abort, CommitClean, Mutate, control, MutexInv
  <2>2. ASSUME NEW n \in Names, Lookup(t, n)
        PROVE  MutexInv'
    BY <2>2, MutexLeave, MutexStay DEF Lookup, Deliver, HoldsCommitMutex
  <2>3. CASE CommitCall(t) \/ CheckpointCall(t)
    BY <2>3, MutexStay DEF CommitCall, CheckpointCall, HoldsCommitMutex
  <2> QED
    BY <1>2, <2>1, <2>2, <2>3 DEF Application
<1>3. ASSUME NEW t \in Threads, LoadStep(t)
      PROVE  MutexInv'
  <2>1. CASE Probe(t)
    BY <2>1, MutexLeave, MutexStay DEF Probe, Deliver, HoldsCommitMutex
  <2>2. CASE Miss(t)
    BY <2>2, MutexEnter DEF Miss, HoldsCommitMutex
  <2>3. CASE Fetch(t) \/ FetchFails(t)
    BY <2>3, MutexLeave DEF Fetch, FetchFails, Deliver, Throw
  <2> QED
    BY <1>3, <2>1, <2>2, <2>3 DEF LoadStep
<1>4. ASSUME NEW t \in Threads, CommitStep(t)
      PROVE  MutexInv'
  <2>1. CASE CommitRefused(t) \/ AppendFails(t) \/ BarrierFails(t)
    BY <2>1, MutexLeave DEF CommitRefused, AppendFails, BarrierFails, Throw
  <2>2. CASE Validate(t)
    BY <2>2, MutexEnter DEF Validate, HoldsCommitMutex
  <2>3. CASE AppendBatch(t)
    <3>1. CASE Strict
      BY <2>3, <3>1, MutexStay DEF AppendBatch, HoldsCommitMutex
    <3>2. CASE ~ Strict
      BY <2>3, <3>2, MutexStay DEF AppendBatch, HoldsCommitMutex
    <3> QED
      BY <3>1, <3>2
  <2>4. CASE Barrier(t)
    BY <2>4, MutexStay DEF Barrier, HoldsCommitMutex
  <2>5. CASE Publish(t)
    <3>1. /\ pc[t] = "publish" /\ mutex' = mutex
          /\ \E label \in {"threshold", "publish"} : Goto(t, label)
      BY <2>5 DEF Publish
    <3> QED
      BY <3>1, MutexStay DEF HoldsCommitMutex
  <2>6. CASE Threshold(t)
    BY <2>6, MutexLeave, MutexStay DEF Threshold, Return, HoldsCommitMutex
  <2> QED
    BY <1>4, <2>1, <2>2, <2>3, <2>4, <2>5, <2>6 DEF CommitStep
<1>5. ASSUME NEW t \in Threads, CheckpointStep(t)
      PROVE  MutexInv'
  <2>1. CASE \/ CheckpointRefused(t) \/ SaveFails(t) \/ FlushTmpFails(t)
             \/ AtomicReplaceFails(t) \/ SyncDirectoryFails(t)
             \/ TruncateFails(t) \/ SyncWalFails(t) \/ SyncWal(t)
    BY <2>1, MutexLeave
    DEF CheckpointRefused, SaveFails, FlushTmpFails, AtomicReplaceFails,
        SyncDirectoryFails, TruncateFails, SyncWalFails, SyncWal, Throw,
        Return
  <2>2. CASE CheckpointLocked(t)
    BY <2>2, MutexEnter DEF CheckpointLocked, HoldsCommitMutex
  <2>3. CASE Save(t)
    <3>1. /\ pc[t] = "save" /\ mutex' = mutex
          /\ \E label \in {"flush_tmp", "replace"} : Goto(t, label)
      BY <2>3 DEF Save
    <3> QED
      BY <3>1, MutexStay DEF HoldsCommitMutex
  <2>4. CASE FlushTmp(t) \/ SyncDirectory(t) \/ Install(t)
    BY <2>4, MutexStay DEF FlushTmp, SyncDirectory, Install, HoldsCommitMutex
  <2>5. CASE AtomicReplace(t)
    <3>1. /\ pc[t] = "replace" /\ mutex' = mutex
          /\ \E label \in {"sync_dir", "install"} : Goto(t, label)
      BY <2>5 DEF AtomicReplace
    <3> QED
      BY <3>1, MutexStay DEF HoldsCommitMutex
  <2>6. CASE Truncate(t)
    BY <2>6, MutexLeave, MutexStay DEF Truncate, Return, HoldsCommitMutex
  <2> QED
    BY <1>5, <2>1, <2>2, <2>3, <2>4, <2>5, <2>6 DEF CheckpointStep
<1> QED
  BY <1>1, <1>2, <1>3, <1>4, <1>5 DEF Next, CallStep

-----------------------------------------------------------------------------
(* Frame lemmas: what a step of one thread leaves alone.                   *)

Committing == {"append", "barrier", "publish"}

(* The control state and the transactions of the other threads.            *)
LEMMA OthersKept ==
    ASSUME TypeInv, NEW t \in Threads, Application(t) \/ CallStep(t)
    PROVE  \A u \in Threads \ {t} : /\ pc'[u] = pc[u]
                                     /\ call'[u] = call[u]
                                     /\ tx'[u] = tx[u]
<1> USE DEF TypeInv, TypeOK
<1>1. CASE Application(t)
  BY <1>1 DEF Application, Begin, Lookup, Mutate, Abort, CommitClean,
              CommitCall, CheckpointCall, Deliver, Leave, Goto, control
<1>2. CASE LoadStep(t)
  BY <1>2 DEF LoadStep, Probe, Miss, Fetch, FetchFails, Deliver, Throw,
              Leave, Goto
<1>3. CASE CommitStep(t)
  BY <1>3 DEF CommitStep, CommitRefused, Validate, AppendBatch, AppendFails,
              Barrier, BarrierFails, Publish, Threshold, Return, Throw, Leave,
              Goto
<1>4. CASE CheckpointStep(t)
  BY <1>4 DEF CheckpointStep, CheckpointRefused, CheckpointLocked, Save,
              SaveFails, FlushTmp, FlushTmpFails, AtomicReplace,
              AtomicReplaceFails, SyncDirectory, SyncDirectoryFails, Install,
              Truncate, TruncateFails, SyncWal, SyncWalFails, Return, Throw,
              Leave, Goto
<1> QED
  BY <1>1, <1>2, <1>3, <1>4 DEF CallStep

(* Only publication and installation change the index, only publication    *)
(* the history, and a committing thread got there step by step.            *)
LEMMA IndexKept ==
    ASSUME TypeInv, NEW t \in Threads, Application(t) \/ CallStep(t),
           ~ Publish(t)
    PROVE  /\ hist' = hist
           /\ roots' = roots \/ Install(t)
           /\ pc'[t] \in Committing =>
                  Validate(t) \/ AppendBatch(t) \/ Barrier(t)
<1> USE DEF TypeInv, TypeOK, Committing
<1>1. CASE Application(t)
  BY <1>1 DEF Application, Begin, Lookup, Mutate, Abort, CommitClean,
              CommitCall, CheckpointCall, Deliver, Leave, Goto, control, index
<1>2. CASE LoadStep(t)
  BY <1>2 DEF LoadStep, Probe, Miss, Fetch, FetchFails, Deliver, Throw,
              Leave, Goto, index
<1>3. CASE CommitStep(t)
  BY <1>3 DEF CommitStep, CommitRefused, Validate, AppendBatch, AppendFails,
              Barrier, BarrierFails, Threshold, Return, Throw, Leave, Goto,
              index
<1>4. CASE CheckpointStep(t)
  BY <1>4 DEF CheckpointStep, CheckpointRefused, CheckpointLocked, Save,
              SaveFails, FlushTmp, FlushTmpFails, AtomicReplace,
              AtomicReplaceFails, SyncDirectory, SyncDirectoryFails, Install,
              Truncate, TruncateFails, SyncWal, SyncWalFails, Return, Throw,
              Leave, Goto, index
<1> QED
  BY <1>1, <1>2, <1>3, <1>4 DEF CallStep

-----------------------------------------------------------------------------
(* Layer 2.  The version of a root is the length of its history and its    *)
(* checksum that of its last version; a committing thread still holds the  *)
(* current version of each root it has to publish, each of them once.      *)

IndexOK ==
    \A n \in Names :
        /\ roots[n].version = Len(hist[n])
        /\ Len(hist[n]) > 0 =>
               roots[n].payload.sum = hist[n][Len(hist[n])].data

UpdateOK(t, update) ==
    /\ tx[t].work[update.name].token > 0
    /\ roots[update.name].version = tx[t].work[update.name].expected
    /\ update.loc.sum = tx[t].work[update.name].data

TodoOK(t) ==
    /\ pc[t] = "append" => VersionsMatch(tx[t].work)
    /\ pc[t] \in {"barrier", "publish"} =>
           /\ \A i \in 1 .. Len(call[t].todo) : UpdateOK(t, call[t].todo[i])
           /\ \A i, j \in 1 .. Len(call[t].todo) :
                  call[t].todo[i].name = call[t].todo[j].name => i = j

StoreInv == IndexOK /\ \A t \in Threads : TodoOK(t)

LEMMA StoreInit == Init => StoreInv
<1> SUFFICES ASSUME Init PROVE StoreInv
  OBVIOUS
<1>1. IndexOK
  BY DEF Init, IndexOK, NoRoots, NoRoot
<1>2. \A t \in Threads : TodoOK(t)
  BY DEF Init, TodoOK
<1> QED
  BY <1>1, <1>2 DEF StoreInv

(* While a thread commits or checkpoints, no other thread does.            *)
LEMMA Alone ==
    ASSUME MutexInv, NEW t \in Threads, pc[t] \in HoldsCommitMutex,
           NEW u \in Threads \ {t}
    PROVE  pc[u] \notin HoldsCommitMutex
  BY DEF MutexInv

(* The others' part of StoreInv survives a step of t that keeps the roots, *)
(* or is made under commit_mutex.                                          *)
LEMMA OthersTodo ==
    ASSUME TypeInv, MutexInv, StoreInv, NEW t \in Threads,
           Application(t) \/ CallStep(t),
           roots' = roots \/ pc[t] \in HoldsCommitMutex,
           NEW u \in Threads \ {t}
    PROVE  TodoOK(u)'
<1>1. pc'[u] = pc[u] /\ call'[u] = call[u] /\ tx'[u] = tx[u]
  BY OthersKept
<1>2. TodoOK(u)
  BY DEF StoreInv
<1>3. CASE roots' = roots
  BY <1>1, <1>2, <1>3 DEF TodoOK, UpdateOK, VersionsMatch
<1>4. CASE pc[t] \in HoldsCommitMutex
  <2>1. pc'[u] \notin HoldsCommitMutex
    BY <1>1, <1>4, Alone
  <2> QED
    BY <2>1 DEF TodoOK, HoldsCommitMutex
<1> QED
  BY <1>3, <1>4

(* Two entries of a commit order are different names.                      *)
LEMMA OrderDistinct ==
    ASSUME NEW work \in [Names -> Work], NEW order \in CommitOrder(work),
           NEW i \in 1 .. Len(order), NEW j \in 1 .. Len(order),
           order[i] = order[j]
    PROVE  i = j
<1>1. /\ Len(order) \in Nat /\ DOMAIN order = 1 .. Len(order)
      /\ order[i] \in Names /\ order[j] \in Names
  BY OrderType
<1>2. /\ i < j => work[order[i]].token < work[order[j]].token
      /\ j < i => work[order[j]].token < work[order[i]].token
  BY <1>1 DEF CommitOrder
<1>3. work[order[i]].token \in Nat
  BY <1>1 DEF Work
<1> QED
  BY <1>1, <1>2, <1>3

(* A commit order runs through all the dirty roots.                        *)
LEMMA OrderOnto ==
    ASSUME NEW work \in [Names -> Work], NEW order \in CommitOrder(work),
           NEW n \in Dirty(work)
    PROVE  \E i \in 1 .. Len(order) : order[i] = n
<1> DEFINE D == Dirty(work)
           c == Cardinality(D)
<1>1. IsFiniteSet(D)
  BY NamesAssumption, FS_Subset DEF Dirty
<1>2. /\ c \in Nat /\ Len(order) = c
      /\ order \in [1 .. c -> D]
  BY OrderType DEF CommitOrder
<1>3. \A i, j \in 1 .. c : order[i] = order[j] => i = j
  BY <1>2, OrderDistinct
<1>4. order \in Injection(1 .. c, D)
  BY <1>2, <1>3 DEF Injection, IsInjective
<1>5. Cardinality(1 .. c) = c
  BY <1>2, FS_Interval
<1>6. order \in Surjection(1 .. c, D)
  BY <1>1, <1>4, <1>5, FS_Injection
<1> QED
  BY <1>2, <1>6 DEF Surjection

(* Publication of the head of the list.                                    *)
LEMMA StorePublish ==
    ASSUME TypeInv, MutexInv, StoreInv, NEW t \in Threads, Publish(t)
    PROVE  /\ StoreInv'
           /\ \E n \in Names :
                /\ tx[t].work[n].token > 0
                /\ tx[t].work[n].expected = Len(hist[n])
                /\ hist' = [hist EXCEPT ![n] =
                      Append(@, [tx |-> tx[t].id,
                                 data |-> tx[t].work[n].data])]
                /\ cache' \in AfterPut(cache, n, Len(hist[n]) + 1,
                                       tx[t].work[n].data)
<1> DEFINE todo == call[t].todo
           n == Head(todo).name
           work == tx[t].work[n]
<1>1. pc[t] = "publish" /\ pc[t] \in HoldsCommitMutex
  BY DEF Publish, HoldsCommitMutex
<1>2. /\ todo \in Seq(Update) /\ todo # << >> /\ Len(todo) \in Nat
      /\ 1 \in 1 .. Len(todo) /\ Head(todo) = todo[1]
  BY <1>1 DEF TypeInv, TypeOK, CallOK, Call
<1>3. todo[1] \in Update /\ n \in Names
  <2>1. todo[1] \in Update
    <3> HIDE DEF todo
    <3> QED
      BY <1>2
  <2> QED
    BY <1>2, <2>1 DEF Update
<1>4. TodoOK(t)
  BY DEF StoreInv
<1>5. /\ \A i \in 1 .. Len(todo) : UpdateOK(t, todo[i])
      /\ \A i, j \in 1 .. Len(todo) : todo[i].name = todo[j].name => i = j
  BY <1>1, <1>4 DEF TodoOK
<1>6. /\ roots[n].version = work.expected
      /\ work.token > 0
      /\ todo[1].loc.sum = work.data
      /\ work.expected = Len(hist[n])
  <2>1. UpdateOK(t, todo[1])
    BY <1>2, <1>5
  <2> QED
    BY <1>2, <1>3, <2>1 DEF UpdateOK, StoreInv, IndexOK
<1>7. /\ roots' = [roots EXCEPT ![n] = [version |-> work.expected + 1,
                                        payload |-> todo[1].loc]]
      /\ cache' \in AfterPut(cache, n, work.expected + 1, work.data)
      /\ hist' = [hist EXCEPT ![n] =
                     Append(@, [tx |-> tx[t].id, data |-> work.data])]
      /\ call' = [call EXCEPT ![t].todo = Tail(@)]
      /\ Goto(t, IF Len(todo) = 1 THEN "threshold" ELSE "publish")
      /\ UNCHANGED tx
  BY <1>2 DEF Publish
<1>8. /\ hist[n] \in Seq(Version) /\ Len(hist[n]) \in Nat
      /\ hist \in [Names -> Seq(Version)]
      /\ roots \in [Names -> RootRecord]
  BY <1>3 DEF TypeInv, TypeOK
<1>9. IndexOK'
  <2> SUFFICES ASSUME NEW m \in Names
               PROVE  /\ roots'[m].version = Len(hist'[m])
                      /\ Len(hist'[m]) > 0 =>
                            roots'[m].payload.sum
                                = hist'[m][Len(hist'[m])].data
    BY DEF IndexOK
  <2> HIDE DEF todo, n, work
  <2>1. CASE m = n
    <3> DEFINE v == [tx |-> tx[t].id, data |-> work.data]
    <3>1. /\ hist'[n] = Append(hist[n], v)
          /\ roots'[n] = [version |-> work.expected + 1,
                          payload |-> todo[1].loc]
      BY <1>3, <1>7, <1>8
    <3>2. v.data = work.data
      OBVIOUS
    <3> HIDE DEF v
    <3>3. /\ Len(hist'[n]) = Len(hist[n]) + 1
          /\ hist'[n][Len(hist[n]) + 1] = v
      BY <1>8, <3>1, AppendProperties
    <3> QED
      BY <1>6, <2>1, <3>1, <3>2, <3>3
  <2>2. CASE m # n
    BY <1>7, <1>8, <2>2 DEF StoreInv, IndexOK
  <2> QED
    BY <2>1, <2>2
<1>10. TodoOK(t)'
  <2>1. /\ pc'[t] \in {"threshold", "publish"} /\ call'[t].todo = Tail(todo)
        /\ tx'[t] = tx[t]
    BY <1>7 DEF Goto, TypeInv, TypeOK, Call
  <2> HIDE DEF todo, n, work
  <2>2. /\ Len(Tail(todo)) = Len(todo) - 1
        /\ \A i \in 1 .. Len(Tail(todo)) :
              i + 1 \in 1 .. Len(todo) /\ Tail(todo)[i] = todo[i + 1]
    BY <1>2, HeadTailProperties
  <2>3. ASSUME NEW i \in 1 .. Len(Tail(todo))
        PROVE  LET update == Tail(todo)[i]
               IN  /\ tx'[t].work[update.name].token > 0
                   /\ roots'[update.name].version
                         = tx'[t].work[update.name].expected
                   /\ update.loc.sum = tx'[t].work[update.name].data
    <3>1. /\ i + 1 \in 1 .. Len(todo) /\ Tail(todo)[i] = todo[i + 1]
          /\ i + 1 # 1
      BY <2>2
    <3>2. todo[i + 1].name # todo[1].name
      BY <1>2, <1>5, <3>1
    <3>3. todo[i + 1] \in Update
      BY <1>2, <3>1
    <3>4. todo[i + 1].name # n /\ todo[i + 1].name \in Names
      BY <1>2, <3>2, <3>3 DEF n, Update
    <3>5. roots'[todo[i + 1].name] = roots[todo[i + 1].name]
      BY <1>7, <1>8, <3>4
    <3>6. UpdateOK(t, todo[i + 1])
      BY <1>5, <3>1
    <3> QED
      BY <2>1, <3>1, <3>5, <3>6 DEF UpdateOK
  <2>4. \A i, j \in 1 .. Len(Tail(todo)) :
            Tail(todo)[i].name = Tail(todo)[j].name => i = j
    BY <1>5, <2>2
  <2> QED
    BY <2>1, <2>3, <2>4 DEF TodoOK, UpdateOK
<1>11. \A u \in Threads \ {t} : TodoOK(u)'
  BY <1>1, OthersTodo DEF CallStep, CommitStep
<1>12. StoreInv'
  BY <1>9, <1>10, <1>11 DEF StoreInv
<1> QED
  BY <1>3, <1>6, <1>7, <1>12

(* The batch is written: the list of locators mirrors the dirty roots.     *)
LEMMA StoreAppend ==
    ASSUME TypeInv, StoreInv, NEW t \in Threads, AppendBatch(t)
    PROVE  TodoOK(t)'
<1>1. pc[t] = "append" /\ tx' = tx /\ roots' = roots
      /\ pc'[t] \in {"barrier", "publish"}
  BY DEF AppendBatch, Goto, TypeInv, TypeOK
<1>2. VersionsMatch(tx[t].work)
  BY <1>1 DEF StoreInv, TodoOK
<1>3. PICK order \in CommitOrder(tx[t].work) :
        call' = [call EXCEPT ![t].todo = Locations(wal, order, tx[t].work)]
  BY DEF AppendBatch
<1>4. tx[t].work \in [Names -> Work]
  BY WorkType
<1>5. /\ Len(order) \in Nat
      /\ \A i \in 1 .. Len(order) : order[i] \in Dirty(tx[t].work)
  BY <1>4, OrderType
<1> DEFINE todo == Locations(wal, order, tx[t].work)
<1>6. /\ call'[t].todo = todo
      /\ Len(todo) = Len(order)
  <2>1. call'[t].todo = todo
    BY <1>3 DEF TypeInv, TypeOK, Call
  <2>2. order \in Seq(Names) /\ wal \in Seq(Record)
    BY <1>4, OrderType DEF TypeInv, TypeOK
  <2>3. Len(todo) = Len(order)
    BY <1>4, <2>2, LocationsType
  <2> QED
    BY <2>1, <2>3
<1>7. ASSUME NEW i \in 1 .. Len(order)
      PROVE  /\ todo[i].name = order[i]
             /\ tx[t].work[todo[i].name].token > 0
             /\ roots[todo[i].name].version
                    = tx[t].work[todo[i].name].expected
             /\ todo[i].loc.sum = tx[t].work[todo[i].name].data
  <2>1. /\ todo[i].name = order[i]
        /\ todo[i].loc.sum = tx[t].work[order[i]].data
    BY DEF Locations, JournalLoc, Crc32c
  <2>2. /\ tx[t].work[order[i]].token > 0
        /\ roots[order[i]].version = tx[t].work[order[i]].expected
    BY <1>2, <1>5 DEF VersionsMatch, Dirty
  <2> HIDE DEF todo
  <2> QED
    BY <2>1, <2>2
<1> HIDE DEF todo
<1>8. \A i, j \in 1 .. Len(order) : todo[i].name = todo[j].name => i = j
  BY <1>4, <1>7, OrderDistinct
<1> QED
  BY <1>1, <1>6, <1>7, <1>8 DEF TodoOK, UpdateOK

(* The locators of a saved snapshot keep versions and checksums.           *)
LEMMA StoreInstall ==
    ASSUME TypeInv, StoreInv, NEW t \in Threads, Install(t)
    PROVE  IndexOK'
<1>1. roots' = SavedRoots(roots) /\ hist' = hist
  BY DEF Install
<1> SUFFICES ASSUME NEW n \in Names
             PROVE  /\ roots'[n].version = Len(hist[n])
                    /\ Len(hist[n]) > 0 =>
                          roots'[n].payload.sum = hist[n][Len(hist[n])].data
  BY <1>1 DEF IndexOK
<1>2. roots[n].version \in Nat /\ roots[n].version = Len(hist[n])
  BY DEF TypeInv, TypeOK, RootRecord, StoreInv, IndexOK
<1>3. CASE n \in Present(roots)
  BY <1>1, <1>2, <1>3 DEF SavedRoots, StoreInv, IndexOK
<1>4. CASE n \notin Present(roots)
  BY <1>1, <1>2, <1>4 DEF SavedRoots, Present, NoRoot
<1> QED
  BY <1>3, <1>4

LEMMA StoreNext == TypeInv /\ MutexInv /\ StoreInv /\ [Next]_vars => StoreInv'
<1> SUFFICES ASSUME TypeInv, MutexInv, StoreInv, [Next]_vars
             PROVE  StoreInv'
  OBVIOUS
<1>1. CASE Close \/ UNCHANGED vars
  <2>1. UNCHANGED <<roots, hist, pc, call, tx>>
    BY <1>1 DEF Close, vars, index, control
  <2>2. IndexOK'
    BY <2>1 DEF StoreInv, IndexOK
  <2>3. \A t \in Threads : TodoOK(t)'
    BY <2>1 DEF StoreInv, TodoOK, UpdateOK, VersionsMatch
  <2> QED
    BY <2>2, <2>3 DEF StoreInv
<1>2. ASSUME NEW t \in Threads, Application(t) \/ CallStep(t), ~ Publish(t)
      PROVE  StoreInv'
  <2>1. /\ hist' = hist
        /\ roots' = roots \/ Install(t)
        /\ pc'[t] \in Committing =>
               Validate(t) \/ AppendBatch(t) \/ Barrier(t)
    BY <1>2, IndexKept
  <2>2. IndexOK'
    BY <2>1, StoreInstall DEF StoreInv, IndexOK
  <2>3. TodoOK(t)'
    <3>1. CASE pc'[t] \notin Committing
      BY <3>1 DEF TodoOK, Committing
    <3>2. CASE Validate(t)
      <4>1. VersionsMatch(tx[t].work) /\ tx' = tx /\ roots' = roots
            /\ pc'[t] = "append"
        BY <3>2 DEF Validate, Goto, index, TypeInv, TypeOK
      <4> QED
        BY <4>1 DEF TodoOK, VersionsMatch
    <3>3. CASE AppendBatch(t)
      BY <3>3, StoreAppend
    <3>4. CASE Barrier(t)
      <4>1. /\ pc[t] = "barrier" /\ pc'[t] = "publish"
            /\ tx' = tx /\ roots' = roots /\ call' = call
        BY <3>4 DEF Barrier, Goto, index, TypeInv, TypeOK
      <4> QED
        BY <4>1 DEF StoreInv, TodoOK, UpdateOK
    <3> QED
      BY <2>1, <3>1, <3>2, <3>3, <3>4
  <2>4. ASSUME NEW u \in Threads \ {t}
        PROVE  TodoOK(u)'
    <3>1. Install(t) => pc[t] \in HoldsCommitMutex
      BY DEF Install, HoldsCommitMutex
    <3> QED
      BY <1>2, <2>1, <3>1, OthersTodo
  <2> QED
    BY <2>2, <2>3, <2>4 DEF StoreInv
<1>3. ASSUME NEW t \in Threads, Publish(t)
      PROVE  StoreInv'
  BY <1>3, StorePublish
<1> QED
  BY <1>1, <1>2, <1>3 DEF Next

SafeInv == TypeInv /\ MutexInv /\ StoreInv

LEMMA SafeInvariant == Spec => []SafeInv
<1>1. Init => SafeInv
  BY TypeInit, MutexInit, StoreInit DEF SafeInv
<1>2. SafeInv /\ [Next]_vars => SafeInv'
  BY TypeNext, MutexNext, StoreNext DEF SafeInv
<1> QED
  BY <1>1, <1>2, PTL DEF Spec

(* No lost update, for any number of threads and roots and any storage     *)
(* failures: heap_state::commit extends the history of a root by one       *)
(* version, and only on top of the version its transaction had loaded.     *)
THEOREM OptimisticCommit == Spec => NoLostUpdate
<1> DEFINE Extends == \A n \in Names :
          hist'[n] # hist[n] =>
              /\ Len(hist'[n]) = Len(hist[n]) + 1
              /\ SubSeq(hist'[n], 1, Len(hist[n])) = hist[n]
              /\ \E t \in Threads :
                    /\ tx[t].id = hist'[n][Len(hist'[n])].tx
                    /\ tx[t].work[n].expected = Len(hist[n])
<1>1. ASSUME SafeInv, [Next]_vars
      PROVE  [Extends]_vars
  <2>1. CASE Close \/ UNCHANGED vars
    BY <2>1 DEF Close, vars
  <2>2. ASSUME NEW t \in Threads, Application(t) \/ CallStep(t), ~ Publish(t)
        PROVE  Extends
    BY <1>1, <2>2, IndexKept DEF SafeInv
  <2>3. ASSUME NEW t \in Threads, Publish(t)
        PROVE  Extends
    <3>1. PICK n \in Names :
            /\ tx[t].work[n].expected = Len(hist[n])
            /\ hist' = [hist EXCEPT ![n] =
                  Append(@, [tx |-> tx[t].id, data |-> tx[t].work[n].data])]
      BY <1>1, <2>3, StorePublish DEF SafeInv
    <3>2. /\ hist \in [Names -> Seq(Version)]
          /\ hist[n] \in Seq(Version) /\ Len(hist[n]) \in Nat
      BY <1>1 DEF SafeInv, TypeInv, TypeOK
    <3> DEFINE v == [tx |-> tx[t].id, data |-> tx[t].work[n].data]
    <3>3. v.tx = tx[t].id
      OBVIOUS
    <3>4. v \in Version
      BY <1>1, <3>1, WorkType DEF SafeInv, Version, Work
    <3>5. hist' = [hist EXCEPT ![n] = Append(@, v)]
      BY <3>1
    <3> HIDE DEF v
    <3>6. /\ Len(hist'[n]) = Len(hist[n]) + 1
          /\ hist'[n][Len(hist[n]) + 1] = v
          /\ SubSeq(hist'[n], 1, Len(hist[n])) = hist[n]
      BY <3>2, <3>4, <3>5, AppendProperties
    <3>7. \A m \in Names : m # n => hist'[m] = hist[m]
      BY <3>2, <3>5
    <3> QED
      BY <3>1, <3>3, <3>6, <3>7
  <2> QED
    BY <1>1, <2>1, <2>2, <2>3 DEF Next
<1> QED
  BY <1>1, SafeInvariant, PTL DEF Spec, NoLostUpdate

-----------------------------------------------------------------------------
(* Fail-stop.  A poisoned heap has no commit on its way: the thread that   *)
(* poisoned it has left, and the others were not inside.                   *)

PoisonInv == poisoned => \A t \in Threads : pc[t] \notin Committing

LEMMA PoisonKept ==
    ASSUME NEW t \in Threads, Application(t) \/ CallStep(t),
           ~ AppendFails(t), ~ BarrierFails(t)
    PROVE  poisoned' = poisoned
<1>1. CASE Application(t)
  BY <1>1 DEF Application, Begin, Lookup, Mutate, Abort, CommitClean,
              CommitCall, CheckpointCall, flags
<1>2. CASE LoadStep(t)
  BY <1>2 DEF LoadStep, Probe, Miss, Fetch, FetchFails, Throw, flags
<1>3. CASE CommitStep(t)
  BY <1>3 DEF CommitStep, CommitRefused, Validate, AppendBatch, Barrier,
              Publish, Threshold, Throw, flags
<1>4. CASE CheckpointStep(t)
  BY <1>4 DEF CheckpointStep, CheckpointRefused, CheckpointLocked, Save,
              SaveFails, FlushTmp, FlushTmpFails, AtomicReplace,
              AtomicReplaceFails, SyncDirectory, SyncDirectoryFails, Install,
              Truncate, TruncateFails, SyncWal, SyncWalFails, Throw, flags
<1> QED
  BY <1>1, <1>2, <1>3, <1>4 DEF CallStep

LEMMA PoisonNext == TypeInv /\ MutexInv /\ PoisonInv /\ [Next]_vars => PoisonInv'
<1> SUFFICES ASSUME TypeInv, MutexInv, PoisonInv, [Next]_vars
             PROVE  PoisonInv'
  OBVIOUS
<1>1. CASE Close \/ UNCHANGED vars
  BY <1>1 DEF Close, vars, flags, control, PoisonInv
<1>2. ASSUME NEW t \in Threads, Application(t) \/ CallStep(t)
      PROVE  PoisonInv'
  <2>1. \A u \in Threads \ {t} : pc'[u] = pc[u]
    BY <1>2, OthersKept
  <2>2. CASE AppendFails(t) \/ BarrierFails(t)
    <3>1. pc[t] \in HoldsCommitMutex /\ Leave(t)
      BY <2>2 DEF AppendFails, BarrierFails, HoldsCommitMutex
    <3>2. pc'[t] = "idle"
      BY <3>1, LeaveType
    <3>3. \A u \in Threads \ {t} : pc'[u] \notin Committing
      BY <2>1, <3>1, Alone DEF Committing, HoldsCommitMutex
    <3> QED
      BY <3>2, <3>3 DEF PoisonInv, Committing
  <2>3. CASE ~ AppendFails(t) /\ ~ BarrierFails(t)
    <3>1. poisoned' = poisoned
      BY <1>2, <2>3, PoisonKept
    <3>2. poisoned => pc'[t] \notin Committing
      <4>1. CASE Publish(t)
        BY <4>1 DEF Publish, PoisonInv, Committing
      <4>2. CASE Validate(t) \/ AppendBatch(t) \/ Barrier(t)
        BY <4>2 DEF Validate, AppendBatch, Barrier, PoisonInv, Committing
      <4> QED
        BY <1>2, <4>1, <4>2, IndexKept
    <3> QED
      BY <2>1, <3>1, <3>2 DEF PoisonInv
  <2> QED
    BY <2>2, <2>3
<1> QED
  BY <1>1, <1>2 DEF Next

(* Once a journal append or its barrier has failed, no thread publishes    *)
(* another version, whatever it was doing at that moment.                  *)
THEOREM PoisonedIsFailStop == Spec => FailStop
<1> DEFINE Frozen == poisoned => hist' = hist
<1>1. Init => PoisonInv
  BY DEF Init, PoisonInv
<1>2. ASSUME SafeInv, PoisonInv, [Next]_vars
      PROVE  PoisonInv' /\ [Frozen]_vars
  <2>1. PoisonInv'
    BY <1>2, PoisonNext DEF SafeInv
  <2>2. CASE Close \/ UNCHANGED vars
    BY <2>1, <2>2 DEF Close, vars
  <2>3. ASSUME NEW t \in Threads, Application(t) \/ CallStep(t)
        PROVE  Frozen
    <3>1. CASE Publish(t)
      BY <1>2, <3>1 DEF Publish, PoisonInv, Committing
    <3>2. CASE ~ Publish(t)
      BY <1>2, <2>3, <3>2, IndexKept DEF SafeInv
    <3> QED
      BY <3>1, <3>2
  <2> QED
    BY <1>2, <2>1, <2>2, <2>3 DEF Next
<1> QED
  BY <1>1, <1>2, SafeInvariant, PTL DEF Spec, FailStop

-----------------------------------------------------------------------------
(* Each transaction publishes a root at most once.  A transaction that     *)
(* published a root holds an expected version below it and keeps that      *)
(* version as long as it is active, so a retry fails the validation.       *)

Loading == {"probe", "miss", "fetch"}

(* A commit runs for an active transaction, a load for a root that is not  *)
(* materialized.                                                           *)
CallTx(t) ==
    /\ pc[t] \in {"commit"} \cup Committing => tx[t].active
    /\ pc[t] \in Loading => tx[t].work[call[t].name].token = 0

IdInv ==
    /\ \A t \in Threads : tx[t].active => tx[t].id < nextTx
    /\ \A t, u \in Threads :
           tx[t].active /\ tx[u].active /\ tx[t].id = tx[u].id => t = u
    /\ \A n \in Names : \A v \in 1 .. Len(hist[n]) :
           /\ hist[n][v].tx < nextTx
           /\ \A t \in Threads :
                  tx[t].active /\ hist[n][v].tx = tx[t].id =>
                      /\ tx[t].work[n].token > 0
                      /\ tx[t].work[n].expected < v

LEMMA CallTxNext ==
    TypeInv /\ (\A t \in Threads : CallTx(t)) /\ [Next]_vars
        => \A t \in Threads : CallTx(t)'
<1> SUFFICES ASSUME TypeInv, \A t \in Threads : CallTx(t), [Next]_vars
             PROVE  \A t \in Threads : CallTx(t)'
  OBVIOUS
<1> USE DEF CallTx, Committing, Loading
<1>1. CASE Close \/ UNCHANGED vars
  BY <1>1 DEF Close, vars, control
<1>2. ASSUME NEW t \in Threads, Application(t) \/ CallStep(t)
      PROVE  \A u \in Threads : CallTx(u)'
  <2>1. \A u \in Threads \ {t} : CallTx(u)'
    BY <1>2, OthersKept
  <2>2. CallTx(t)'
    <3> USE DEF TypeInv, TypeOK
    <3>1. CASE Application(t)
      <4>1. CASE CommitCall(t) \/ CheckpointCall(t)
        BY <4>1 DEF CommitCall, CheckpointCall, Goto
      <4>2. ASSUME NEW n \in Names, Lookup(t, n)
            PROVE  CallTx(t)'
        <5>1. CASE roots[n].version = 0
          BY <4>2, <5>1 DEF Lookup, Deliver, Leave, Goto
        <5>2. CASE roots[n].version # 0
          <6>1. /\ pc'[t] = "probe" /\ call'[t].name = n /\ tx' = tx
                /\ tx[t].work[n].token = 0
            BY <4>2, <5>2 DEF Lookup, Goto
          <6> QED
            BY <6>1
        <5> QED
          BY <5>1, <5>2
      <4>3. CASE \/ Begin(t) \/ Abort(t) \/ CommitClean(t)
                 \/ \E n \in Names, p \in Payloads : Mutate(t, n, p)
        BY <4>3 DEF Begin, Mutate, Abort, CommitClean, control
      <4> QED
        BY <3>1, <4>1, <4>2, <4>3 DEF Application
    <3>2. CASE LoadStep(t)
      <4>1. CASE Probe(t)
        BY <4>1 DEF Probe, Deliver, Leave, Goto
      <4>2. CASE Miss(t)
        BY <4>2 DEF Miss, Goto, Call
      <4>3. CASE Fetch(t) \/ FetchFails(t)
        BY <4>3 DEF Fetch, FetchFails, Deliver, Throw, Leave, Goto
      <4> QED
        BY <3>2, <4>1, <4>2, <4>3 DEF LoadStep
    <3>3. CASE CommitStep(t)
      BY <3>3 DEF CommitStep, CommitRefused, Validate, AppendBatch,
                  AppendFails, Barrier, BarrierFails, Publish, Threshold,
                  Return, Throw, Leave, Goto
    <3>4. CASE CheckpointStep(t)
      BY <3>4 DEF CheckpointStep, CheckpointRefused, CheckpointLocked, Save,
                  SaveFails, FlushTmp, FlushTmpFails, AtomicReplace,
                  AtomicReplaceFails, SyncDirectory, SyncDirectoryFails,
                  Install, Truncate, TruncateFails, SyncWal, SyncWalFails,
                  Return, Throw, Leave, Goto
    <3> QED
      BY <1>2, <3>1, <3>2, <3>3, <3>4 DEF CallStep
  <2> QED
    BY <2>1, <2>2
<1> QED
  BY <1>1, <1>2 DEF Next

(* What a step does to the transaction of its thread: it ends it, or keeps *)
(* its id and the expected versions of its materialized roots.             *)
TxSame(t) ==
    /\ tx'[t].id = tx[t].id
    /\ tx'[t].active = tx[t].active
    /\ \A n \in Names : tx[t].work[n].token > 0 =>
           /\ tx'[t].work[n].token > 0
           /\ tx'[t].work[n].expected = tx[t].work[n].expected

LEMMA TxKept ==
    ASSUME TypeInv, NEW t \in Threads, CallTx(t),
           Application(t) \/ CallStep(t), ~ Begin(t)
    PROVE  /\ nextTx' = nextTx
           /\ tx'[t] = NoTx \/ TxSame(t)
<1> USE DEF TypeInv, TypeOK
<1>1. tx'[t] = tx[t] => TxSame(t)
  BY DEF TxSame
<1>2. ASSUME NEW n \in Names, tx[t].work[n].token = 0,
             NEW version, NEW bytes, NEW isNew,
             Deliver(t, n, version, bytes, isNew)
      PROVE  TxSame(t)
  <2> DEFINE w == WorkingRoot(Cardinality(Loaded(tx[t].work)) + 1,
                              version, isNew, bytes)
  <2>1. tx' = tx \/ tx' = [tx EXCEPT ![t].work[n] = w]
    BY <1>2 DEF Deliver
  <2> HIDE DEF w
  <2>2. CASE tx' = [tx EXCEPT ![t].work[n] = w]
    <3>1. tx[t] \in Transaction
      OBVIOUS
    <3>2. /\ tx'[t].id = tx[t].id /\ tx'[t].active = tx[t].active
          /\ tx'[t].work = [tx[t].work EXCEPT ![n] = w]
      BY <2>2, <3>1 DEF Transaction
    <3>3. tx[t].work \in [Names -> Work]
      BY <3>1 DEF Transaction
    <3> QED
      BY <1>2, <3>2, <3>3 DEF TxSame
  <2> QED
    BY <1>1, <2>1, <2>2
<1>3. CASE Application(t)
  <2>1. ASSUME NEW n \in Names, Lookup(t, n)
        PROVE  nextTx' = nextTx /\ TxSame(t)
    <3>1. CASE roots[n].version = 0
      <4>1. /\ tx[t].work[n].token = 0 /\ nextTx' = nextTx
            /\ Deliver(t, n, 0, NullPayload, TRUE)
        BY <2>1, <3>1 DEF Lookup, flags
      <4> QED
        BY <1>2, <4>1, Zenon
    <3>2. CASE roots[n].version # 0
      BY <1>1, <2>1, <3>2 DEF Lookup, flags
    <3> QED
      BY <3>1, <3>2
  <2>2. ASSUME NEW n \in Names, NEW p \in Payloads, Mutate(t, n, p)
        PROVE  nextTx' = nextTx /\ TxSame(t)
    <3> DEFINE w == WorkingRoot(tx[t].work[n].token, tx[t].work[n].expected,
                                TRUE, p)
    <3>1. tx' = [tx EXCEPT ![t].work[n] = w] /\ nextTx' = nextTx
      BY <2>2 DEF Mutate, flags
    <3>2. /\ w.token = tx[t].work[n].token
          /\ w.expected = tx[t].work[n].expected
      BY DEF WorkingRoot
    <3> HIDE DEF w
    <3> QED
      BY <3>1, <3>2 DEF TxSame, Transaction
  <2>3. CASE Abort(t) \/ CommitClean(t)
    BY <2>3 DEF Abort, CommitClean, flags
  <2>4. CASE CommitCall(t) \/ CheckpointCall(t)
    BY <2>4, <1>1 DEF CommitCall, CheckpointCall, flags
  <2> QED
    BY <1>3, <2>1, <2>2, <2>3, <2>4 DEF Application
<1>4. CASE LoadStep(t)
  <2>1. CASE Miss(t) \/ FetchFails(t)
    BY <2>1, <1>1 DEF Miss, FetchFails, Throw, flags
  <2>2. CASE Probe(t) \/ Fetch(t)
    <3>1. /\ call[t].name \in Names /\ call[t].record.version \in Nat
          /\ tx[t].work[call[t].name].token = 0
      BY <2>2 DEF Probe, Fetch, CallOK, Call, RootRecord, CallTx, Loading
    <3>2. /\ nextTx' = nextTx
          /\ \/ tx' = tx
             \/ \E bytes : Deliver(t, call[t].name, call[t].record.version,
                                   bytes, FALSE)
      BY <2>2 DEF Probe, Fetch, flags
    <3> QED
      BY <1>1, <1>2, <3>1, <3>2
  <2> QED
    BY <1>4, <2>1, <2>2 DEF LoadStep
<1>5. CASE CommitStep(t)
  BY <1>1, <1>5 DEF CommitStep, CommitRefused, Validate, AppendBatch,
                  AppendFails, Barrier, BarrierFails, Publish, Threshold,
                  Return, Throw, flags
<1>6. CASE CheckpointStep(t)
  BY <1>1, <1>6 DEF CheckpointStep, CheckpointRefused, CheckpointLocked, Save,
              SaveFails, FlushTmp, FlushTmpFails, AtomicReplace,
              AtomicReplaceFails, SyncDirectory, SyncDirectoryFails, Install,
              Truncate, TruncateFails, SyncWal, SyncWalFails, Return, Throw,
              flags
<1> QED
  BY <1>3, <1>4, <1>5, <1>6 DEF CallStep

LEMMA IdPublish ==
    ASSUME TypeInv, MutexInv, StoreInv, IdInv, AtMostOnce,
           NEW t \in Threads, CallTx(t), Publish(t)
    PROVE  IdInv' /\ AtMostOnce'
<1>1. PICK n \in Names :
        /\ tx[t].work[n].token > 0
        /\ tx[t].work[n].expected = Len(hist[n])
        /\ hist' = [hist EXCEPT ![n] =
              Append(@, [tx |-> tx[t].id, data |-> tx[t].work[n].data])]
  BY StorePublish
<1>2. /\ hist \in [Names -> Seq(Version)]
      /\ hist[n] \in Seq(Version) /\ Len(hist[n]) \in Nat
      /\ \A u \in Threads : tx[u] \in Transaction
      /\ nextTx \in Nat
  BY DEF TypeInv, TypeOK
<1> DEFINE new == [tx |-> tx[t].id, data |-> tx[t].work[n].data]
<1>3. new.tx = tx[t].id /\ hist' = [hist EXCEPT ![n] = Append(@, new)]
  BY <1>1
<1>4. new \in Version
  BY WorkType DEF Version, Work
<1> HIDE DEF new
<1>5. /\ Len(hist'[n]) = Len(hist[n]) + 1
      /\ hist'[n][Len(hist[n]) + 1] = new
      /\ \A v \in 1 .. Len(hist[n]) : hist'[n][v] = hist[n][v]
      /\ \A m \in Names : m # n => hist'[m] = hist[m]
  BY <1>2, <1>3, <1>4, AppendProperties
<1>6. UNCHANGED <<tx, nextTx>>
  BY DEF Publish, flags
<1>7. tx[t].active /\ tx[t].id < nextTx
  BY DEF Publish, CallTx, Committing, IdInv
<1>8. IdInv'
  <2>1. /\ \A u \in Threads : tx'[u].active => tx'[u].id < nextTx'
        /\ \A r, u \in Threads :
               tx'[r].active /\ tx'[u].active /\ tx'[r].id = tx'[u].id
                   => r = u
    BY <1>6 DEF IdInv
  <2>2. ASSUME NEW m \in Names, NEW v \in 1 .. Len(hist'[m])
        PROVE  /\ hist'[m][v].tx < nextTx
               /\ \A u \in Threads :
                      tx[u].active /\ hist'[m][v].tx = tx[u].id =>
                          /\ tx[u].work[m].token > 0
                          /\ tx[u].work[m].expected < v
    <3>1. CASE m = n /\ v = Len(hist[n]) + 1
      <4>1. hist'[m][v].tx = tx[t].id
        BY <1>3, <1>5, <3>1
      <4>2. \A u \in Threads : tx[u].active /\ tx[u].id = tx[t].id => u = t
        BY <1>7 DEF IdInv
      <4> QED
        BY <1>1, <1>2, <1>7, <3>1, <4>1, <4>2
    <3>2. CASE ~ (m = n /\ v = Len(hist[n]) + 1)
      <4>1. v \in 1 .. Len(hist[m]) /\ hist'[m][v] = hist[m][v]
        BY <1>2, <1>5, <3>2
      <4> QED
        BY <4>1 DEF IdInv
    <3> QED
      BY <3>1, <3>2
  <2> QED
    BY <1>6, <2>1, <2>2 DEF IdInv
<1>9. AtMostOnce'
  <2>1. \A w \in 1 .. Len(hist[n]) : hist[n][w].tx # tx[t].id
    BY <1>1, <1>2, <1>7 DEF IdInv
  <2>2. ASSUME NEW v \in 1 .. Len(hist'[n]), NEW w \in 1 .. Len(hist'[n]),
               hist'[n][v].tx = hist'[n][w].tx
        PROVE  v = w
    <3>1. CASE v <= Len(hist[n]) /\ w <= Len(hist[n])
      <4>1. /\ v \in 1 .. Len(hist[n]) /\ w \in 1 .. Len(hist[n])
            /\ hist'[n][v] = hist[n][v] /\ hist'[n][w] = hist[n][w]
        BY <1>2, <1>5, <3>1
      <4> QED
        BY <2>2, <4>1 DEF AtMostOnce
    <3>2. CASE v > Len(hist[n]) /\ w > Len(hist[n])
      BY <1>2, <1>5, <3>2
    <3>3. CASE v > Len(hist[n]) /\ w <= Len(hist[n])
      BY <1>2, <1>3, <1>5, <2>1, <2>2, <3>3
    <3>4. CASE v <= Len(hist[n]) /\ w > Len(hist[n])
      <4>1. v \in 1 .. Len(hist[n]) /\ w = Len(hist[n]) + 1
        BY <1>2, <1>5, <3>4
      <4>2. hist[n][v].tx = tx[t].id
        BY <1>3, <1>5, <2>2, <4>1
      <4> QED
        BY <2>1, <4>1, <4>2
    <3> QED
      BY <1>2, <1>5, <3>1, <3>2, <3>3, <3>4
  <2> QED
    BY <1>5, <2>2 DEF AtMostOnce
<1> QED
  BY <1>8, <1>9

LEMMA IdNext ==
    ASSUME SafeInv, \A t \in Threads : CallTx(t), IdInv, AtMostOnce,
           [Next]_vars
    PROVE  IdInv' /\ AtMostOnce'
<1> USE DEF SafeInv
<1>1. CASE Close \/ UNCHANGED vars
  <2>1. UNCHANGED <<hist, tx, nextTx>>
    BY <1>1 DEF Close, vars, flags
  <2> QED
    BY <2>1 DEF IdInv, AtMostOnce
<1>2. ASSUME NEW t \in Threads, Application(t) \/ CallStep(t)
      PROVE  IdInv' /\ AtMostOnce'
  <2>1. \A u \in Threads \ {t} : tx'[u] = tx[u]
    BY <1>2, OthersKept
  <2>2. CASE Publish(t)
    BY <2>2, IdPublish
  <2>3. CASE Begin(t)
    <3>1. /\ hist' = hist /\ nextTx' = nextTx + 1 /\ nextTx \in Nat
          /\ tx'[t].id = nextTx /\ tx'[t].active
      BY <2>3 DEF Begin, TypeInv, TypeOK
    <3>2. AtMostOnce'
      BY <3>1 DEF AtMostOnce
    <3>3. /\ \A u \in Threads : tx[u].id \in Nat
          /\ \A n \in Names : \A v \in 1 .. Len(hist[n]) :
                hist[n][v].tx \in Nat
      <4>1. \A u \in Threads : tx[u].id \in Nat
        BY DEF TypeInv, TypeOK, Transaction
      <4>2. ASSUME NEW n \in Names, NEW v \in 1 .. Len(hist[n])
            PROVE  hist[n][v].tx \in Nat
        <5>1. hist[n] \in Seq(Version)
          BY DEF TypeInv, TypeOK
        <5>2. hist[n][v] \in Version
          BY <5>1
        <5> QED
          BY <5>2 DEF Version
      <4> QED
        BY <4>1, <4>2
    <3>4. \A u \in Threads : tx'[u].active => tx'[u].id < nextTx'
      BY <2>1, <3>1, <3>3 DEF IdInv
    <3>5. \A r, u \in Threads :
              tx'[r].active /\ tx'[u].active /\ tx'[r].id = tx'[u].id => r = u
      BY <2>1, <3>1, <3>3 DEF IdInv
    <3>6. ASSUME NEW n \in Names, NEW v \in 1 .. Len(hist[n])
          PROVE  /\ hist[n][v].tx < nextTx'
                 /\ \A u \in Threads :
                        tx'[u].active /\ hist[n][v].tx = tx'[u].id =>
                            /\ tx'[u].work[n].token > 0
                            /\ tx'[u].work[n].expected < v
      BY <2>1, <3>1, <3>3 DEF IdInv
    <3> QED
      BY <3>1, <3>2, <3>4, <3>5, <3>6 DEF IdInv
  <2>4. CASE ~ Publish(t) /\ ~ Begin(t)
    <3>1. /\ hist' = hist /\ nextTx' = nextTx
          /\ tx'[t] = NoTx \/ TxSame(t)
      BY <1>2, <2>4, IndexKept, TxKept
    <3>2. AtMostOnce'
      BY <3>1 DEF AtMostOnce
    <3>3. \A u \in Threads :
              tx'[u].active => /\ tx[u].active /\ tx'[u].id = tx[u].id
                               /\ u = t => TxSame(t)
      BY <2>1, <3>1 DEF TxSame, NoTx
    <3>4. /\ \A u \in Threads : tx'[u].active => tx'[u].id < nextTx'
          /\ \A r, u \in Threads :
                 tx'[r].active /\ tx'[u].active /\ tx'[r].id = tx'[u].id
                     => r = u
      BY <3>1, <3>3 DEF IdInv
    <3>5. ASSUME NEW n \in Names, NEW v \in 1 .. Len(hist[n])
          PROVE  /\ hist[n][v].tx < nextTx
                 /\ \A u \in Threads :
                        tx'[u].active /\ hist[n][v].tx = tx'[u].id =>
                            /\ tx'[u].work[n].token > 0
                            /\ tx'[u].work[n].expected < v
      BY <2>1, <3>3 DEF IdInv, TxSame
    <3> QED
      BY <3>1, <3>2, <3>4, <3>5 DEF IdInv
  <2> QED
    BY <2>2, <2>3, <2>4
<1> QED
  BY <1>1, <1>2 DEF Next

(* A transaction publishes each of its roots at most once, even when its   *)
(* commit() throws after the publication (a failed automatic checkpoint)   *)
(* and the application calls it again.                                     *)
THEOREM PublishedOnce == Spec => []AtMostOnce
<1> DEFINE Inv == (\A t \in Threads : CallTx(t)) /\ IdInv /\ AtMostOnce
<1>1. Init => Inv
  BY DEF Init, CallTx, Committing, Loading, IdInv, AtMostOnce, NoTx
<1>2. SafeInv /\ Inv /\ [Next]_vars => Inv'
  BY CallTxNext, IdNext DEF SafeInv
<1> QED
  BY <1>1, <1>2, SafeInvariant, PTL DEF Spec
=============================================================================

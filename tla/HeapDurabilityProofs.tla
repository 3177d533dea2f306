------------------------ MODULE HeapDurabilityProofs ------------------------
(***************************************************************************)
(* Published versions are kept.  In strict mode they are on the device,    *)
(* whatever storage call fails; and unless a directory sync fails they are *)
(* where the locators of the root index say.  Publication comes two        *)
(* storage calls after the batch is written, and a checkpoint empties the  *)
(* journal five calls after it began, so both invariants follow the batch  *)
(* and the new snapshot through these steps.                               *)
(***************************************************************************)
EXTENDS HeapSafetyProofs

(* The journal `log` has a ROOT_UPDATE that makes version v of root n.     *)
Logged(log, n, v) ==
    \E i \in 1 .. Len(log) : /\ log[i].type = "root_update"
                             /\ log[i].name = n
                             /\ log[i].version = v

(* A root is in the snapshot on the device, or in the journal: on the      *)
(* device, and in the file that the next barrier puts there.               *)
DurableRoot(n) ==
    LET v == roots[n].version
    IN  v > 0 => \/ snapDisk.flushed /\ snapDisk.index[n].version >= v
                 \/ Logged(wal, n, v) /\ Logged(walDisk, n, v)

(* What the thread in a commit or a checkpoint has already achieved.       *)
LoggedIn(t, log) ==
    \A i \in 1 .. Len(call[t].todo) :
        LET n == call[t].todo[i].name
        IN  Logged(log, n, tx[t].work[n].expected + 1)
UpToDate(file) ==
    \A n \in Names : file.index[n].version >= roots[n].version
ProgressOK(t) ==
    /\ pc[t] \in {"barrier", "publish"} => LoggedIn(t, wal)
    /\ pc[t] = "publish" => LoggedIn(t, walDisk)
    /\ pc[t] \in {"flush_tmp", "replace"} => UpToDate(tmp)
    /\ pc[t] = "replace" => tmp.flushed
    /\ pc[t] = "sync_dir" => UpToDate(snap) /\ snap.flushed
    /\ pc[t] \in {"install", "truncate", "sync_wal"} =>
           UpToDate(snapDisk) /\ snapDisk.flushed

DurableInv == Strict => /\ \A n \in Names : DurableRoot(n)
                        /\ \A t \in Threads : ProgressOK(t)

LEMMA DurableInit == Init => DurableInv
<1> SUFFICES ASSUME Init PROVE DurableInv
  OBVIOUS
<1>1. \A n \in Names : DurableRoot(n)
  BY DEF Init, NoRoots, NoRoot, DurableRoot
<1>2. \A t \in Threads : ProgressOK(t)
  BY DEF Init, ProgressOK
<1> QED
  BY <1>1, <1>2 DEF DurableInv

LEMMA DurableGives == ASSUME TypeInv, DurableInv PROVE PublishedIsDurable
  BY DEF DurableInv, DurableRoot, Logged, PublishedIsDurable

-----------------------------------------------------------------------------
(* A journal that grows keeps its updates.                                 *)
LEMMA LoggedGrows ==
    ASSUME NEW log \in Seq(Record), NEW part \in Seq(Record), NEW n, NEW v,
           Logged(log, n, v)
    PROVE  Logged(log \o part, n, v)
<1>1. PICK i \in 1 .. Len(log) : /\ log[i].type = "root_update"
                                 /\ log[i].name = n
                                 /\ log[i].version = v
  BY DEF Logged
<1>2. /\ Len(log) \in Nat /\ Len(part) \in Nat
      /\ Len(log \o part) = Len(log) + Len(part)
      /\ (log \o part)[i] = log[i]
  OBVIOUS
<1>3. i \in 1 .. Len(log \o part)
  BY <1>2
<1> QED
  BY <1>1, <1>2, <1>3 DEF Logged

(* The batch has an update for each dirty root.                            *)
LEMMA BatchLogs ==
    ASSUME NEW log \in Seq(Record), NEW id \in Nat, NEW seq \in Nat,
           NEW work \in [Names -> Work], NEW order \in Seq(Names),
           NEW i \in 1 .. Len(order)
    PROVE  Logged(log \o Batch(id, seq, order, work), order[i],
                  work[order[i]].expected + 1)
<1> DEFINE batch == Batch(id, seq, order, work)
<1>1. Len(order) \in Nat /\ Len(log) \in Nat
  OBVIOUS
<1>2. batch \in Seq(Record) /\ Len(batch) = Len(order) + 2
  BY BatchType
<1>3. /\ i + 1 \in 1 .. Len(order) + 2
      /\ i + 1 # 1 /\ i + 1 # Len(order) + 2 /\ (i + 1) - 1 = i
  BY <1>1
<1>4. /\ batch[i + 1].type = "root_update"
      /\ batch[i + 1].name = order[i]
      /\ batch[i + 1].version = work[order[i]].expected + 1
  BY <1>3 DEF Batch
<1> HIDE DEF batch
<1>5. /\ Len(log) + (i + 1) \in 1 .. Len(log \o batch)
      /\ (log \o batch)[Len(log) + (i + 1)] = batch[i + 1]
  BY <1>1, <1>2, <1>3
<1>6. Logged(log \o batch, order[i], work[order[i]].expected + 1)
  BY <1>4, <1>5 DEF Logged
<1> QED
  BY <1>6 DEF batch

(* A snapshot has every root at its version.                               *)
LEMMA SavedVersions ==
    ASSUME TypeInv, NEW n \in Names
    PROVE  /\ SavedRoots(roots)[n].version = roots[n].version
           /\ roots[n].version \in Nat
<1>1. roots[n].version \in Nat
  BY DEF TypeInv, TypeOK, RootRecord
<1>2. CASE n \in Present(roots)
  BY <1>1, <1>2 DEF SavedRoots
<1>3. CASE n \notin Present(roots)
  BY <1>1, <1>3 DEF SavedRoots, Present, NoRoot
<1> QED
  BY <1>1, <1>2, <1>3

-----------------------------------------------------------------------------
(* The steps that matter; every other step leaves files and index alone,   *)
(* and its thread at a point where nothing has been achieved.              *)
Exposed == {"barrier", "publish", "flush_tmp", "replace", "sync_dir",
            "install", "truncate", "sync_wal"}
DurableStep(t) ==
    \/ AppendBatch(t) \/ AppendFails(t) \/ Barrier(t) \/ Publish(t)
    \/ Save(t) \/ FlushTmp(t) \/ AtomicReplace(t) \/ SyncDirectory(t)
    \/ Install(t) \/ Truncate(t) \/ SyncWal(t)

LEMMA StorageKept ==
    ASSUME TypeInv, NEW t \in Threads, Application(t) \/ CallStep(t),
           ~ DurableStep(t)
    PROVE  /\ UNCHANGED <<storage, roots>>
           /\ pc'[t] \notin Exposed
<1> USE DEF TypeInv, TypeOK, Exposed
<1>1. CASE Application(t)
  BY <1>1 DEF Application, Begin, Lookup, Mutate, Abort, CommitClean,
              CommitCall, CheckpointCall, Deliver, Leave, Goto, control, index
<1>2. CASE LoadStep(t)
  BY <1>2 DEF LoadStep, Probe, Miss, Fetch, FetchFails, Deliver, Throw,
              Leave, Goto, index
<1>3. CASE CommitStep(t)
  BY <1>3 DEF CommitStep, CommitRefused, Validate, BarrierFails, Threshold,
              Return, Throw, Leave, Goto, index, DurableStep
<1>4. CASE CheckpointStep(t)
  BY <1>4 DEF CheckpointStep, CheckpointRefused, CheckpointLocked, SaveFails,
              FlushTmpFails, AtomicReplaceFails, SyncDirectoryFails,
              TruncateFails, SyncWalFails, Throw, Leave, Goto, index,
              DurableStep
<1> QED
  BY <1>1, <1>2, <1>3, <1>4 DEF CallStep

(* The others' part of DurableInv.                                         *)
LEMMA OthersProgress ==
    ASSUME TypeInv, MutexInv, DurableInv, Strict, NEW t \in Threads,
           Application(t) \/ CallStep(t),
           UNCHANGED <<storage, roots>> \/ pc[t] \in HoldsCommitMutex,
           NEW u \in Threads \ {t}
    PROVE  ProgressOK(u)'
<1>1. pc'[u] = pc[u] /\ call'[u] = call[u] /\ tx'[u] = tx[u]
  BY OthersKept
<1>2. ProgressOK(u)
  BY DEF DurableInv
<1>3. CASE UNCHANGED <<storage, roots>>
  BY <1>1, <1>2, <1>3 DEF ProgressOK, LoggedIn, UpToDate, storage
<1>4. CASE pc[t] \in HoldsCommitMutex
  <2>1. pc'[u] \notin HoldsCommitMutex
    BY <1>1, <1>4, Alone
  <2> QED
    BY <2>1 DEF ProgressOK, HoldsCommitMutex
<1> QED
  BY <1>3, <1>4

(* The journal grows.                                                      *)
LEMMA DurableAppend ==
    ASSUME TypeInv, DurableInv, Strict, NEW t \in Threads,
           AppendBatch(t) \/ AppendFails(t)
    PROVE  (\A n \in Names : DurableRoot(n)') /\ ProgressOK(t)'
<1>1. /\ wal \in Seq(Record) /\ lastSeq \in Nat /\ tx[t].id \in Nat
      /\ tx[t].work \in [Names -> Work]
  BY WorkType DEF TypeInv, TypeOK, Transaction
<1>2. PICK order \in CommitOrder(tx[t].work) :
        LET batch == Batch(tx[t].id, lastSeq, order, tx[t].work)
        IN  \/ /\ AppendBatch(t)
               /\ wal' = wal \o batch
               /\ call' = [call EXCEPT ![t].todo =
                                           Locations(wal, order, tx[t].work)]
            \/ /\ AppendFails(t)
               /\ \E part \in PartialBatches(batch) : wal' = wal \o part
  BY DEF AppendBatch, AppendFails
<1>3. order \in Seq(Names) /\ Len(order) \in Nat
  BY <1>1, OrderType
<1> DEFINE batch == Batch(tx[t].id, lastSeq, order, tx[t].work)
<1>4. batch \in Seq(Record)
  BY <1>1, <1>3, BatchType
<1>5. \E part \in Seq(Record) : wal' = wal \o part
  BY <1>2, <1>4, PartialType
<1>6. UNCHANGED <<walDisk, snapDisk, roots>>
  BY DEF AppendBatch, AppendFails
<1>7. \A n \in Names : DurableRoot(n)'
  BY <1>1, <1>5, <1>6, LoggedGrows DEF DurableInv, DurableRoot
<1>8. CASE AppendFails(t)
  <2>1. pc'[t] = "idle"
    BY <1>8 DEF AppendFails, Leave, Goto, TypeInv, TypeOK
  <2> QED
    BY <1>7, <2>1 DEF ProgressOK
<1>9. CASE ~ AppendFails(t)
  <2>1. /\ pc'[t] = "barrier" /\ tx' = tx /\ wal' = wal \o batch
        /\ call'[t].todo = Locations(wal, order, tx[t].work)
    BY <1>2, <1>9 DEF AppendBatch, Goto, TypeInv, TypeOK, Call
  <2>2. Len(call'[t].todo) = Len(order)
    <3>1. Len(Locations(wal, order, tx[t].work)) = Len(order)
      BY <1>1, <1>3, LocationsType
    <3> QED
      BY <2>1, <3>1, Zenon
  <2>3. ASSUME NEW i \in 1 .. Len(order)
        PROVE  call'[t].todo[i].name = order[i]
    BY <2>1 DEF Locations
  <2>4. ASSUME NEW i \in 1 .. Len(order)
        PROVE  Logged(wal', order[i], tx[t].work[order[i]].expected + 1)
    BY <1>1, <1>3, <2>1, BatchLogs
  <2>5. LoggedIn(t, wal)'
    BY <2>1, <2>2, <2>3, <2>4 DEF LoggedIn
  <2> QED
    BY <1>7, <2>1, <2>5 DEF ProgressOK
<1> QED
  BY <1>8, <1>9

(* The journal reaches the device.                                         *)
LEMMA DurableBarrier ==
    ASSUME TypeInv, DurableInv, Strict, NEW t \in Threads, Barrier(t)
    PROVE  (\A n \in Names : DurableRoot(n)') /\ ProgressOK(t)'
<1>1. /\ pc[t] = "barrier" /\ pc'[t] = "publish"
      /\ walDisk' = wal /\ wal' = wal
      /\ UNCHANGED <<snapDisk, roots, call, tx>>
  BY DEF Barrier, Goto, index, TypeInv, TypeOK
<1>2. \A n \in Names : DurableRoot(n)'
  BY <1>1 DEF DurableInv, DurableRoot
<1>3. ProgressOK(t)'
  BY <1>1 DEF DurableInv, ProgressOK, LoggedIn
<1> QED
  BY <1>2, <1>3

(* A version is published; the remaining ones are as before.               *)
LEMMA DurablePublish ==
    ASSUME TypeInv, DurableInv, Strict, NEW t \in Threads, Publish(t)
    PROVE  (\A n \in Names : DurableRoot(n)') /\ ProgressOK(t)'
<1> DEFINE todo == call[t].todo
           m == Head(todo).name
           version == tx[t].work[m].expected + 1
<1>1. /\ pc[t] = "publish" /\ pc'[t] \in {"publish", "threshold"}
      /\ UNCHANGED <<wal, walDisk, snapDisk, tx>>
      /\ roots' = [roots EXCEPT ![m] = [version |-> version,
                                        payload |-> Head(todo).loc]]
      /\ call'[t].todo = Tail(todo)
  BY DEF Publish, Goto, storage, TypeInv, TypeOK, Call
<1>2. todo \in Seq(Update) /\ todo # << >>
  BY <1>1 DEF TypeInv, TypeOK, CallOK, Call
<1>3. /\ m = todo[1].name /\ m \in Names /\ Len(todo) \in Nat
      /\ 1 \in 1 .. Len(todo)
      /\ Len(Tail(todo)) = Len(todo) - 1
      /\ \A i \in 1 .. Len(todo) - 1 : Tail(todo)[i] = todo[i + 1]
  <2> HIDE DEF todo
  <2>1. Len(todo) \in Nat /\ 1 \in 1 .. Len(todo) /\ Head(todo) = todo[1]
    BY <1>2
  <2>2. todo[1] \in Update
    BY <1>2, <2>1
  <2>3. m \in Names
    BY <2>1, <2>2 DEF Update
  <2>4. /\ Len(Tail(todo)) = Len(todo) - 1
        /\ \A i \in 1 .. Len(todo) - 1 : Tail(todo)[i] = todo[i + 1]
    BY <1>2
  <2> QED
    BY <2>1, <2>3, <2>4
<1>4. LoggedIn(t, wal) /\ LoggedIn(t, walDisk)
  BY <1>1 DEF DurableInv, ProgressOK
<1>5. Logged(wal, m, version) /\ Logged(walDisk, m, version)
  BY <1>3, <1>4 DEF LoggedIn
<1>6. roots'[m].version = version
      /\ \A n \in Names \ {m} : roots'[n] = roots[n]
  BY <1>1, <1>3 DEF TypeInv, TypeOK
<1> HIDE DEF version
<1>7. \A n \in Names : DurableRoot(n)'
  BY <1>1, <1>5, <1>6 DEF DurableInv, DurableRoot
<1>8. LoggedIn(t, wal)' /\ LoggedIn(t, walDisk)'
  <2> SUFFICES ASSUME NEW i \in 1 .. Len(todo) - 1
               PROVE  LET n == todo[i + 1].name
                          v == tx[t].work[n].expected + 1
                      IN  Logged(wal, n, v) /\ Logged(walDisk, n, v)
    BY <1>1, <1>3 DEF LoggedIn
  <2>1. i + 1 \in 1 .. Len(todo)
    BY <1>3
  <2> QED
    BY <1>4, <2>1 DEF LoggedIn
<1>9. ProgressOK(t)'
  BY <1>1, <1>8 DEF ProgressOK
<1> QED
  BY <1>7, <1>9

(* The new snapshot is written, flushed, renamed and synced, and its       *)
(* locators installed: the versions stay the same.                         *)
LEMMA DurableSave ==
    ASSUME TypeInv, DurableInv, Strict, NEW t \in Threads,
           Save(t) \/ FlushTmp(t) \/ AtomicReplace(t)
    PROVE  (\A n \in Names : DurableRoot(n)') /\ ProgressOK(t)'
<1>1. UNCHANGED <<wal, walDisk, snapDisk, roots>>
  BY DEF Save, FlushTmp, AtomicReplace, index
<1>2. \A n \in Names : DurableRoot(n)'
  BY <1>1 DEF DurableInv, DurableRoot
<1>3. CASE Save(t)
  <2>1. pc'[t] = "flush_tmp" /\ tmp'.index = SavedRoots(roots)
    BY <1>3 DEF Save, SavedFile, Goto, TypeInv, TypeOK
  <2>2. UpToDate(tmp)'
    BY <1>1, <2>1, SavedVersions DEF UpToDate
  <2> QED
    BY <1>2, <2>1, <2>2 DEF ProgressOK
<1>4. CASE FlushTmp(t)
  <2>1. /\ pc[t] = "flush_tmp" /\ pc'[t] = "replace"
        /\ tmp'.index = tmp.index /\ tmp'.flushed
    BY <1>4 DEF FlushTmp, Goto, TypeInv, TypeOK, File
  <2>2. UpToDate(tmp)'
    BY <1>1, <2>1 DEF DurableInv, ProgressOK, UpToDate
  <2> QED
    BY <1>2, <2>1, <2>2 DEF ProgressOK
<1>5. CASE AtomicReplace(t)
  <2>1. pc[t] = "replace" /\ pc'[t] = "sync_dir" /\ snap' = tmp
    BY <1>5 DEF AtomicReplace, Goto, TypeInv, TypeOK
  <2>2. UpToDate(snap)' /\ snap'.flushed
    BY <1>1, <2>1 DEF DurableInv, ProgressOK, UpToDate
  <2> QED
    BY <1>2, <2>1, <2>2 DEF ProgressOK
<1> QED
  BY <1>3, <1>4, <1>5

LEMMA DurableInstall ==
    ASSUME TypeInv, DurableInv, Strict, NEW t \in Threads,
           SyncDirectory(t) \/ Install(t) \/ Truncate(t) \/ SyncWal(t)
    PROVE  (\A n \in Names : DurableRoot(n)') /\ ProgressOK(t)'
<1>1. /\ pc'[t] \in {"install", "truncate", "sync_wal", "idle"}
      /\ \A n \in Names : roots'[n].version = roots[n].version
  BY SavedVersions
  DEF SyncDirectory, Install, Truncate, SyncWal, Return, Leave, Goto, index,
      TypeInv, TypeOK
<1>2. UpToDate(snapDisk)' /\ snapDisk'.flushed
  <2>1. CASE SyncDirectory(t)
    BY <1>1, <2>1 DEF SyncDirectory, DurableInv, ProgressOK, UpToDate
  <2>2. CASE Install(t) \/ Truncate(t) \/ SyncWal(t)
    BY <1>1, <2>2
    DEF Install, Truncate, SyncWal, storage, DurableInv, ProgressOK, UpToDate
  <2> QED
    BY <2>1, <2>2
<1>3. \A n \in Names : DurableRoot(n)'
  BY <1>2 DEF DurableRoot, UpToDate
<1>4. ProgressOK(t)'
  BY <1>1, <1>2 DEF ProgressOK
<1> QED
  BY <1>3, <1>4

LEMMA DurableNext ==
    TypeInv /\ MutexInv /\ DurableInv /\ [Next]_vars => DurableInv'
<1> SUFFICES ASSUME TypeInv, MutexInv, DurableInv, [Next]_vars, Strict
             PROVE  /\ \A n \in Names : DurableRoot(n)'
                    /\ \A t \in Threads : ProgressOK(t)'
  BY DEF DurableInv
<1>1. CASE Close \/ UNCHANGED vars
  <2>1. UNCHANGED <<storage, roots, pc, call, tx>>
    BY <1>1 DEF Close, vars, index, control
  <2>2. \A n \in Names : DurableRoot(n)'
    BY <2>1 DEF DurableInv, DurableRoot, storage
  <2>3. \A t \in Threads : ProgressOK(t)'
    BY <2>1 DEF DurableInv, ProgressOK, LoggedIn, UpToDate, storage
  <2> QED
    BY <2>2, <2>3
<1>2. ASSUME NEW t \in Threads, Application(t) \/ CallStep(t)
      PROVE  /\ \A n \in Names : DurableRoot(n)'
             /\ \A u \in Threads : ProgressOK(u)'
  <2>1. CASE DurableStep(t)
    <3>1. pc[t] \in HoldsCommitMutex
      BY <2>1
      DEF DurableStep, AppendBatch, AppendFails, Barrier, Publish, Save,
          FlushTmp, AtomicReplace, SyncDirectory, Install, Truncate, SyncWal,
          HoldsCommitMutex
    <3>2. \A u \in Threads \ {t} : ProgressOK(u)'
      BY <1>2, <3>1, OthersProgress
    <3>3. (\A n \in Names : DurableRoot(n)') /\ ProgressOK(t)'
      BY <2>1, DurableAppend, DurableBarrier, DurablePublish, DurableSave,
         DurableInstall DEF DurableStep
    <3> QED
      BY <3>2, <3>3
  <2>2. CASE ~ DurableStep(t)
    <3>1. UNCHANGED <<storage, roots>> /\ pc'[t] \notin Exposed
      BY <1>2, <2>2, StorageKept
    <3>2. \A u \in Threads \ {t} : ProgressOK(u)'
      BY <1>2, <3>1, OthersProgress
    <3>3. ProgressOK(t)'
      BY <3>1 DEF ProgressOK, Exposed
    <3>4. \A n \in Names : DurableRoot(n)'
      BY <3>1 DEF DurableInv, DurableRoot, storage
    <3> QED
      BY <3>2, <3>3, <3>4
  <2> QED
    BY <2>1, <2>2
<1> QED
  BY <1>1, <1>2 DEF Next

(* In strict mode every version a thread can see is on the device, in the  *)
(* snapshot or in the journal, also while storage calls fail, the          *)
(* directory sync included: heap_state::commit publishes behind the        *)
(* barrier, and checkpoint_locked empties the journal behind the synced    *)
(* snapshot.                                                               *)
THEOREM PublishedAfterBarrier == Spec => []PublishedIsDurable
<1>1. Init => DurableInv
  BY DurableInit
<1>2. SafeInv /\ DurableInv /\ [Next]_vars => DurableInv'
  BY DurableNext DEF SafeInv
<1>3. SafeInv /\ DurableInv => PublishedIsDurable
  BY DurableGives DEF SafeInv
<1> QED
  BY <1>1, <1>2, <1>3, SafeInvariant, PTL DEF Spec

-----------------------------------------------------------------------------
(* A file of either kind has, where the locator says, the bytes of its     *)
(* checksum.                                                               *)
JournalHolds(log, where) ==
    /\ where.at \in 1 .. Len(log)
    /\ log[where.at].type = "root_update"
    /\ log[where.at].payload = where.sum
FileHolds(file, where) ==
    /\ where.at + where.size <= Len(file.data)
    /\ SubSeq(file.data, where.at + 1, where.at + where.size) = where.sum

(* The locator of a published root.                                        *)
Located(n) ==
    LET where == roots[n].payload
    IN  roots[n].version > 0 =>
            /\ where.size = Len(where.sum)
            /\ where.kind = "journal" => JournalHolds(wal, where)
            /\ where.kind = "snapshot" /\ ~ Relocating =>
                   FileHolds(snap, where)

(* What the thread in a commit or a checkpoint relies on: the locators it  *)
(* is about to publish, or those it will install once the new file has the *)
(* name; and that the journal is emptied only when no root needs it.       *)
Appended(t) ==
    \A i \in 1 .. Len(call[t].todo) :
        LET where == call[t].todo[i].loc
        IN  /\ where.kind = "journal"
            /\ where.size = Len(where.sum)
            /\ JournalHolds(wal, where)
SavedIn(file) ==
    \A n \in Present(roots) : FileHolds(file, SavedRoots(roots)[n].payload)
RelocationOK(t) ==
    /\ pc[t] \in {"barrier", "publish"} => Appended(t)
    /\ pc[t] \in {"flush_tmp", "replace"} => SavedIn(tmp)
    /\ pc[t] \in {"sync_dir", "install"} => SavedIn(snap)
    /\ pc[t] = "truncate" =>
           \A n \in Present(roots) : roots[n].payload.kind = "snapshot"

LocatorInv == /\ \A n \in Names : Located(n)
              /\ \A t \in Threads : RelocationOK(t)

-----------------------------------------------------------------------------
(* The payload area of a snapshot: the payloads lie one behind the other,  *)
(* in the order of the names.                                              *)

LEMMA CellsAdd ==
    ASSUME NEW r \in [Names -> RootRecord], NEW names \in SUBSET Names,
           NEW n \in Names \ names
    PROVE  Cardinality(PayloadCells(r, names \cup {n}))
             = Cardinality(PayloadCells(r, names)) + r[n].payload.size
<1> DEFINE old == PayloadCells(r, names)
           new == {n} \X (1 .. r[n].payload.size)
<1>1. r[n].payload.size \in Nat
  BY DEF RootRecord, Loc
<1>2. IsFiniteSet(old) /\ Cardinality(old) \in Nat
  BY CellsFinite
<1>3. IsFiniteSet(new) /\ Cardinality(new) = r[n].payload.size
  <2>1. /\ IsFiniteSet(1 .. r[n].payload.size)
        /\ Cardinality(1 .. r[n].payload.size) = r[n].payload.size
    <3>1. ASSUME NEW k \in Nat
          PROVE  IsFiniteSet(1 .. k) /\ Cardinality(1 .. k) = k
      BY FS_Interval
    <3> QED
      BY <1>1, <3>1
  <2>2. IsFiniteSet({n}) /\ Cardinality({n}) = 1
    BY FS_Singleton
  <2>3. /\ IsFiniteSet(new)
        /\ Cardinality(new) = 1 * r[n].payload.size
    BY <2>1, <2>2, FS_Product
  <2> QED
    BY <1>1, <2>3
<1>4. old \cap new = {}
  BY DEF PayloadCells
<1>5. PayloadCells(r, names \cup {n}) = old \cup new
  BY DEF PayloadCells
<1> HIDE DEF old, new
<1>6. Cardinality(old \cup new)
        = Cardinality(old) + Cardinality(new) - Cardinality(old \cap new)
  BY <1>2, <1>3, FS_Union
<1>7. Cardinality(old \cap new) = 0
  BY <1>4, FS_EmptySet
<1>8. Cardinality(old \cup new) = Cardinality(old) + r[n].payload.size
  BY <1>1, <1>2, <1>3, <1>6, <1>7
<1> QED
  BY <1>5, <1>8, Zenon DEF old

LEMMA CellsGrow ==
    ASSUME NEW r \in [Names -> RootRecord], NEW names \in SUBSET Names,
           NEW fewer \in SUBSET names
    PROVE  Cardinality(PayloadCells(r, fewer))
             <= Cardinality(PayloadCells(r, names))
<1>1. PayloadCells(r, fewer) \in SUBSET PayloadCells(r, names)
  BY DEF PayloadCells
<1> QED
  BY <1>1, CellsFinite, FS_Subset

(* A payload ends before the next one begins, and within the file.         *)
LEMMA SavedApart ==
    ASSUME NEW r \in [Names -> RootRecord], NEW m \in Present(r)
    PROVE  /\ SavedAt(r, m) \in Nat /\ r[m].payload.size \in Nat
           /\ \A n \in Present(r) :
                  m < n => SavedAt(r, m) + r[m].payload.size <= SavedAt(r, n)
           /\ SavedAt(r, m) + r[m].payload.size
                <= DataBase(r) + Cardinality(PayloadCells(r, Present(r)))
<1> DEFINE below == {k \in Present(r) : k < m}
<1>1. /\ Present(r) \in SUBSET Names /\ m \in Names
      /\ Names \subseteq Nat
  BY PresentFinite, NamesAssumption
<1>2. SavedAt(r, m) \in Nat /\ DataBase(r) \in Nat
      /\ r[m].payload.size \in Nat
  BY <1>1, OffsetType DEF RootRecord, Loc
<1>3. below \in SUBSET Names /\ m \in Names \ below
  BY <1>1
<1>4. /\ Cardinality(PayloadCells(r, below)) \in Nat
      /\ Cardinality(PayloadCells(r, below \cup {m}))
           = Cardinality(PayloadCells(r, below)) + r[m].payload.size
  BY <1>3, CellsFinite, CellsAdd
<1>5. SavedAt(r, m) = DataBase(r) + Cardinality(PayloadCells(r, below))
  BY DEF SavedAt, RelativeOffset
<1>6. ASSUME NEW n \in Present(r), m < n
      PROVE  SavedAt(r, m) + r[m].payload.size <= SavedAt(r, n)
  <2> DEFINE before == {k \in Present(r) : k < n}
  <2>1. before \in SUBSET Names /\ below \cup {m} \in SUBSET before
    <3>1. m \in Nat /\ n \in Nat /\ \A k \in Present(r) : k \in Nat
      BY <1>1
    <3>2. \A k \in Present(r) : k < m => k < n
      BY <1>6, <3>1
    <3> QED
      BY <1>1, <1>6, <3>2
  <2>2. SavedAt(r, n) = DataBase(r) + Cardinality(PayloadCells(r, before))
    BY DEF SavedAt, RelativeOffset
  <2>3. Cardinality(PayloadCells(r, before)) \in Nat
    BY <2>1, CellsFinite
  <2>4. Cardinality(PayloadCells(r, below \cup {m}))
          <= Cardinality(PayloadCells(r, before))
    BY <2>1, CellsGrow
  <2> HIDE DEF below, before
  <2> QED
    BY <1>2, <1>4, <1>5, <2>2, <2>3, <2>4
<1>7. SavedAt(r, m) + r[m].payload.size
        <= DataBase(r) + Cardinality(PayloadCells(r, Present(r)))
  <2>1. below \cup {m} \in SUBSET Present(r)
    OBVIOUS
  <2>2. Cardinality(PayloadCells(r, Present(r))) \in Nat
    BY <1>1, CellsFinite
  <2>3. Cardinality(PayloadCells(r, below \cup {m}))
          <= Cardinality(PayloadCells(r, Present(r)))
    BY <1>1, <2>1, CellsGrow
  <2> HIDE DEF below
  <2> QED
    BY <1>2, <1>4, <1>5, <2>2, <2>3
<1> QED
  BY <1>2, <1>6, <1>7

(* What save() wrote for a root is read back through the locator it        *)
(* returned.                                                               *)
LEMMA SavedReads ==
    ASSUME NEW r \in [Names -> RootRecord], NEW copy,
           \A n \in Present(r) : /\ copy[n] \in Seq(Nat)
                                 /\ Len(copy[n]) = r[n].payload.size,
           NEW seq \in Nat, NEW n \in Present(r),
           copy[n] = r[n].payload.sum
    PROVE  FileHolds(SavedFile(r, seq, copy), SavedRoots(r)[n].payload)
<1> DEFINE size == r[n].payload.size
           at == SavedAt(r, n)
           total == DataBase(r) + Cardinality(PayloadCells(r, Present(r)))
           data == SavedData(r, copy)
<1>1. /\ n \in Names /\ Names \subseteq Nat
      /\ Present(r) \subseteq Names
  BY PresentFinite, NamesAssumption
<1>2. at \in Nat /\ size \in Nat /\ at + size <= total
  BY SavedApart
<1>3. SavedFile(r, seq, copy) \in File
      /\ SavedFile(r, seq, copy).data = data
  BY SavedFileType DEF SavedFile
<1>4. total \in Nat
  BY <1>1, OffsetType, PresentFinite, CellsFinite
<1>5. data \in Seq(Nat) /\ DOMAIN data = 1 .. total
  BY <1>3 DEF File, Bytes, SavedData
<1>6. Len(data) = total
  <2> HIDE DEF data, total
  <2> QED
    BY <1>4, <1>5
<1>7. ASSUME NEW i \in 1 .. size
      PROVE  data[at + i] = copy[n][i]
  <2> DEFINE o == at + i
             owners == {m \in Present(r) :
                          /\ SavedAt(r, m) < o
                          /\ o <= SavedAt(r, m) + r[m].payload.size}
  <2>1. o \in 1 .. total
    BY <1>2, <1>4
  <2>2. n \in owners
    BY <1>2
  <2>3. ASSUME NEW m \in owners PROVE m = n
    <3>1. /\ m \in Nat /\ n \in Nat
          /\ SavedAt(r, m) \in Nat /\ r[m].payload.size \in Nat
          /\ m < n => SavedAt(r, m) + r[m].payload.size <= at
          /\ n < m => at + size <= SavedAt(r, m)
      BY <1>1, SavedApart
    <3>2. SavedAt(r, m) < at + i /\ at + i <= SavedAt(r, m) + r[m].payload.size
      OBVIOUS
    <3> HIDE DEF at, size
    <3> QED
      BY <1>2, <3>1, <3>2
  <2>4. owners # {} /\ (CHOOSE m \in owners : TRUE) = n
    BY <2>2, <2>3
  <2>5. data[o] = copy[CHOOSE m \in owners : TRUE]
                      [o - SavedAt(r, CHOOSE m \in owners : TRUE)]
    BY <2>1, <2>4 DEF SavedData
  <2>6. data[o] = copy[n][o - at]
    BY <2>4, <2>5
  <2>7. o - at = i
    BY <1>2
  <2> QED
    BY <2>6, <2>7
<1>8. SubSeq(data, at + 1, at + size) = copy[n]
  <2> HIDE DEF data, at, size, total
  <2>1. \A i \in at + 1 .. at + size : data[i] \in Nat
    BY <1>2, <1>4, <1>5, <1>6
  <2>2. /\ SubSeq(data, at + 1, at + size) \in Seq(Nat)
        /\ Len(SubSeq(data, at + 1, at + size)) = size
        /\ \A i \in 1 .. size :
              SubSeq(data, at + 1, at + size)[i] = data[at + i]
    <3>1. ASSUME NEW k \in Nat, NEW l \in Nat,
                 \A i \in k + 1 .. k + l : data[i] \in Nat
          PROVE  /\ SubSeq(data, k + 1, k + l) \in Seq(Nat)
                 /\ Len(SubSeq(data, k + 1, k + l)) = l
                 /\ \A i \in 1 .. l : SubSeq(data, k + 1, k + l)[i]
                                        = data[k + i]
      <4> DEFINE lo == k + 1
                 hi == k + l
      <4>1. /\ lo \in Int /\ hi \in Int /\ hi - lo + 1 = l
            /\ lo <= hi <=> l # 0
            /\ \A i \in 1 .. l : lo + i - 1 = k + i
        OBVIOUS
      <4>2. \A i \in lo .. hi : data[i] \in Nat
        BY <3>1
      <4> HIDE DEF lo, hi
      <4>3. /\ SubSeq(data, lo, hi) \in Seq(Nat)
            /\ Len(SubSeq(data, lo, hi)) = IF lo <= hi THEN hi - lo + 1
                                                       ELSE 0
            /\ \A i \in 1 .. hi - lo + 1 :
                  SubSeq(data, lo, hi)[i] = data[lo + i - 1]
        BY <4>1, <4>2, SubSeqProperties
      <4>4. /\ SubSeq(data, lo, hi) \in Seq(Nat)
            /\ Len(SubSeq(data, lo, hi)) = l
            /\ \A i \in 1 .. l : SubSeq(data, lo, hi)[i] = data[k + i]
        BY <4>1, <4>3
      <4> QED
        BY <4>4 DEF lo, hi
    <3> QED
      BY <1>2, <2>1, <3>1
  <2>3. copy[n] \in Seq(Nat) /\ Len(copy[n]) = size
    BY DEF size
  <2>4. \A i \in 1 .. size :
          SubSeq(data, at + 1, at + size)[i] = copy[n][i]
    BY <1>7, <2>2
  <2> QED
    BY <2>2, <2>3, <2>4, SeqEqual
<1>9. SavedRoots(r)[n].payload = [kind |-> "snapshot", at |-> at,
                                  size |-> size, sum |-> r[n].payload.sum]
  BY <1>1 DEF SavedRoots
<1> HIDE DEF data, at, size, total
<1> QED
  BY <1>2, <1>3, <1>6, <1>8, <1>9 DEF FileHolds

-----------------------------------------------------------------------------
(* The journal.                                                            *)

LEMMA HoldsGrows ==
    ASSUME NEW log \in Seq(Record), NEW part \in Seq(Record),
           NEW where, JournalHolds(log, where)
    PROVE  JournalHolds(log \o part, where)
<1>1. where.at \in 1 .. Len(log)
  BY DEF JournalHolds
<1>2. /\ Len(log) \in Nat /\ Len(part) \in Nat
      /\ Len(log \o part) = Len(log) + Len(part)
      /\ (log \o part)[where.at] = log[where.at]
  BY <1>1
<1>3. where.at \in 1 .. Len(log \o part)
  BY <1>1, <1>2
<1> QED
  BY <1>2, <1>3 DEF JournalHolds

(* The locators append returns designate the updates of the batch.         *)
LEMMA BatchHolds ==
    ASSUME NEW log \in Seq(Record), NEW id \in Nat, NEW seq \in Nat,
           NEW work \in [Names -> Work], NEW order \in Seq(Names),
           NEW i \in 1 .. Len(order)
    PROVE  LET where == Locations(log, order, work)[i].loc
           IN  /\ where.kind = "journal"
               /\ where.size = Len(where.sum)
               /\ JournalHolds(log \o Batch(id, seq, order, work), where)
<1> DEFINE batch == Batch(id, seq, order, work)
           where == Locations(log, order, work)[i].loc
<1>1. Len(order) \in Nat /\ Len(log) \in Nat
  OBVIOUS
<1>2. batch \in Seq(Record) /\ Len(batch) = Len(order) + 2
  BY BatchType
<1>3. /\ i + 1 \in 1 .. Len(order) + 2
      /\ i + 1 # 1 /\ i + 1 # Len(order) + 2 /\ (i + 1) - 1 = i
  BY <1>1
<1>4. /\ batch[i + 1].type = "root_update"
      /\ batch[i + 1].payload = work[order[i]].data
  BY <1>3 DEF Batch
<1>5. /\ where.kind = "journal" /\ where.at = Len(log) + 1 + i
      /\ where.size = Len(where.sum)
      /\ where.sum = work[order[i]].data
  BY DEF Locations, JournalLoc, Crc32c
<1> HIDE DEF batch, where
<1>6. /\ Len(log) + (i + 1) \in 1 .. Len(log \o batch)
      /\ (log \o batch)[Len(log) + (i + 1)] = batch[i + 1]
      /\ Len(log) + (i + 1) = Len(log) + 1 + i
  BY <1>1, <1>2, <1>3
<1>7. JournalHolds(log \o batch, where)
  BY <1>4, <1>5, <1>6 DEF JournalHolds
<1> QED
  BY <1>5, <1>7 DEF batch, where

-----------------------------------------------------------------------------
LEMMA LocatorInit == Init => LocatorInv
<1> SUFFICES ASSUME Init PROVE LocatorInv
  OBVIOUS
<1>1. \A n \in Names : Located(n)
  BY DEF Init, NoRoots, NoRoot, Located
<1>2. \A t \in Threads : RelocationOK(t)
  BY DEF Init, RelocationOK
<1> QED
  BY <1>1, <1>2 DEF LocatorInv

(* A root in the index is readable while no checkpoint moves the index to  *)
(* another file, and reading it gives the bytes of its checksum.           *)
LEMMA LocatedReads ==
    ASSUME TypeInv, NEW n \in Present(roots), Located(n), ~ Relocating
    PROVE  /\ PayloadReadable(roots[n].payload)
           /\ PayloadBytes(roots[n].payload) = roots[n].payload.sum
           /\ roots[n].payload.size = Len(roots[n].payload.sum)
<1> DEFINE where == roots[n].payload
<1>1. n \in Names /\ roots[n].version > 0 /\ where \in Loc
  BY DEF Present, TypeInv, TypeOK, RootRecord
<1>2. where.kind = "journal" \/ where.kind = "snapshot"
  BY <1>1 DEF Loc
<1>3. /\ where.size = Len(where.sum)
      /\ where.kind = "journal" => JournalHolds(wal, where)
      /\ where.kind = "snapshot" => FileHolds(snap, where)
  BY <1>1 DEF Located
<1> HIDE DEF where
<1>4. ASSUME where.kind = "journal"
      PROVE  PayloadReadable(where) /\ PayloadBytes(where) = where.sum
  BY <1>3, <1>4 DEF PayloadReadable, PayloadBytes, JournalHas, JournalRead,
                    JournalHolds
<1>5. ASSUME where.kind = "snapshot"
      PROVE  PayloadReadable(where) /\ PayloadBytes(where) = where.sum
  BY <1>3, <1>5 DEF PayloadReadable, PayloadBytes, SnapshotHas, SnapshotRead,
                    FileHolds
<1>6. PayloadReadable(where) /\ PayloadBytes(where) = where.sum
  BY <1>2, <1>4, <1>5
<1> QED
  BY <1>3, <1>6 DEF where

LEMMA LocatorGives ==
    ASSUME SafeInv, LocatorInv
    PROVE  LocatorsResolve
<1> SUFFICES ASSUME NEW n \in Names
             PROVE  /\ roots[n].version = Len(hist[n])
                    /\ roots[n].version > 0 /\ ~ Relocating =>
                         /\ PayloadLoads(roots[n].payload)
                         /\ PayloadBytes(roots[n].payload)
                              = hist[n][Len(hist[n])].data
  BY DEF LocatorsResolve
<1>1. roots[n].version = Len(hist[n])
  BY DEF SafeInv, StoreInv, IndexOK
<1>2. ASSUME roots[n].version > 0, ~ Relocating
      PROVE  /\ PayloadLoads(roots[n].payload)
             /\ PayloadBytes(roots[n].payload) = hist[n][Len(hist[n])].data
  <2>1. roots[n].payload.sum = hist[n][Len(hist[n])].data
    BY <1>1, <1>2 DEF SafeInv, StoreInv, IndexOK
  <2>2. n \in Present(roots) /\ Located(n)
    BY <1>2 DEF Present, LocatorInv
  <2>3. /\ PayloadReadable(roots[n].payload)
        /\ PayloadBytes(roots[n].payload) = roots[n].payload.sum
    BY <1>2, <2>2, LocatedReads DEF SafeInv
  <2> QED
    BY <2>1, <2>3 DEF PayloadLoads, Crc32c
<1> QED
  BY <1>1, <1>2

-----------------------------------------------------------------------------
(* A relocation ends only where its thread takes a step.                   *)
LEMMA RelocatingKept ==
    ASSUME TypeInv, NEW t \in Threads, Application(t) \/ CallStep(t),
           pc[t] \notin {"sync_dir", "install"}
    PROVE  Relocating => Relocating'
<1>1. \A u \in Threads \ {t} : pc'[u] = pc[u]
  BY OthersKept
<1> QED
  BY <1>1 DEF Relocating

(* Steps that leave files and index alone.                                 *)
LEMMA LocatedKept ==
    ASSUME TypeInv, LocatorInv, NEW t \in Threads,
           Application(t) \/ CallStep(t),
           pc[t] \notin {"sync_dir", "install"},
           UNCHANGED <<wal, snap, roots>>
    PROVE  \A n \in Names : Located(n)'
<1>1. Relocating => Relocating'
  BY RelocatingKept
<1> QED
  BY <1>1 DEF LocatorInv, Located

(* The others' part of LocatorInv.                                         *)
LEMMA OthersRelocation ==
    ASSUME TypeInv, MutexInv, LocatorInv, NEW t \in Threads,
           Application(t) \/ CallStep(t),
           UNCHANGED <<storage, roots>> \/ pc[t] \in HoldsCommitMutex,
           NEW u \in Threads \ {t}
    PROVE  RelocationOK(u)'
<1>1. pc'[u] = pc[u] /\ call'[u] = call[u]
  BY OthersKept
<1>2. RelocationOK(u)
  BY DEF LocatorInv
<1>3. CASE UNCHANGED <<storage, roots>>
  BY <1>1, <1>2, <1>3 DEF RelocationOK, Appended, SavedIn, storage
<1>4. CASE pc[t] \in HoldsCommitMutex
  <2>1. pc'[u] \notin HoldsCommitMutex
    BY <1>1, <1>4, Alone
  <2> QED
    BY <2>1 DEF RelocationOK, HoldsCommitMutex
<1> QED
  BY <1>3, <1>4

LEMMA LocatorAppend ==
    ASSUME TypeInv, LocatorInv, NEW t \in Threads,
           AppendBatch(t) \/ AppendFails(t)
    PROVE  (\A n \in Names : Located(n)') /\ RelocationOK(t)'
<1>1. /\ wal \in Seq(Record) /\ lastSeq \in Nat /\ tx[t].id \in Nat
      /\ tx[t].work \in [Names -> Work]
  BY WorkType DEF TypeInv, TypeOK, Transaction
<1>2. PICK order \in CommitOrder(tx[t].work) :
        LET batch == Batch(tx[t].id, lastSeq, order, tx[t].work)
        IN  \/ /\ AppendBatch(t)
               /\ wal' = wal \o batch
               /\ call' = [call EXCEPT ![t].todo =
                                           Locations(wal, order, tx[t].work)]
            \/ /\ AppendFails(t)
               /\ \E part \in PartialBatches(batch) : wal' = wal \o part
  BY DEF AppendBatch, AppendFails
<1>3. order \in Seq(Names) /\ Len(order) \in Nat
  BY <1>1, OrderType
<1> DEFINE batch == Batch(tx[t].id, lastSeq, order, tx[t].work)
<1>4. batch \in Seq(Record)
  BY <1>1, <1>3, BatchType
<1>5. \E part \in Seq(Record) : wal' = wal \o part
  BY <1>2, <1>4, PartialType
<1>6. pc[t] = "append" /\ UNCHANGED <<snap, roots>>
  BY DEF AppendBatch, AppendFails
<1>7. Relocating => Relocating'
  BY <1>6, RelocatingKept DEF CallStep, CommitStep
<1>8. \A n \in Names : Located(n)'
  BY <1>1, <1>5, <1>6, <1>7, HoldsGrows DEF LocatorInv, Located
<1>9. CASE AppendFails(t)
  <2>1. pc'[t] = "idle"
    BY <1>9 DEF AppendFails, Leave, Goto, TypeInv, TypeOK
  <2> QED
    BY <1>8, <2>1 DEF RelocationOK
<1>10. CASE ~ AppendFails(t)
  <2>1. /\ pc'[t] \in {"barrier", "publish"} /\ wal' = wal \o batch
        /\ call'[t].todo = Locations(wal, order, tx[t].work)
    BY <1>2, <1>10 DEF AppendBatch, Goto, TypeInv, TypeOK, Call
  <2>2. Len(call'[t].todo) = Len(order)
    <3>1. Len(Locations(wal, order, tx[t].work)) = Len(order)
      BY <1>1, <1>3, LocationsType
    <3> QED
      BY <2>1, <3>1, Zenon
  <2>3. ASSUME NEW i \in 1 .. Len(order)
        PROVE  LET where == call'[t].todo[i].loc
               IN  /\ where.kind = "journal"
                   /\ where.size = Len(where.sum)
                   /\ JournalHolds(wal', where)
    <3>1. LET where == Locations(wal, order, tx[t].work)[i].loc
          IN  /\ where.kind = "journal"
              /\ where.size = Len(where.sum)
              /\ JournalHolds(wal \o batch, where)
      BY <1>1, <1>3, BatchHolds
    <3> QED
      BY <2>1, <3>1, Zenon
  <2>4. Appended(t)'
    BY <2>2, <2>3 DEF Appended
  <2> QED
    BY <1>8, <2>1, <2>4 DEF RelocationOK
<1> QED
  BY <1>9, <1>10

LEMMA LocatorPublish ==
    ASSUME TypeInv, LocatorInv, NEW t \in Threads, Publish(t)
    PROVE  (\A n \in Names : Located(n)') /\ RelocationOK(t)'
<1> DEFINE todo == call[t].todo
           m == Head(todo).name
           version == tx[t].work[m].expected + 1
<1>1. /\ pc[t] = "publish" /\ pc'[t] \in {"publish", "threshold"}
      /\ UNCHANGED <<wal, snap, tx>>
      /\ roots' = [roots EXCEPT ![m] = [version |-> version,
                                        payload |-> Head(todo).loc]]
      /\ call'[t].todo = Tail(todo)
  BY DEF Publish, Goto, storage, TypeInv, TypeOK, Call
<1>2. todo \in Seq(Update) /\ todo # << >>
  BY <1>1 DEF TypeInv, TypeOK, CallOK, Call
<1>3. /\ Head(todo) = todo[1] /\ m \in Names /\ Len(todo) \in Nat
      /\ 1 \in 1 .. Len(todo)
      /\ Len(Tail(todo)) = Len(todo) - 1
      /\ \A i \in 1 .. Len(todo) - 1 : Tail(todo)[i] = todo[i + 1]
  <2> HIDE DEF todo
  <2>1. Len(todo) \in Nat /\ 1 \in 1 .. Len(todo) /\ Head(todo) = todo[1]
    BY <1>2
  <2>2. todo[1] \in Update
    BY <1>2, <2>1
  <2>3. m \in Names
    BY <2>1, <2>2 DEF Update
  <2>4. /\ Len(Tail(todo)) = Len(todo) - 1
        /\ \A i \in 1 .. Len(todo) - 1 : Tail(todo)[i] = todo[i + 1]
    BY <1>2
  <2> QED
    BY <2>1, <2>3, <2>4
<1>4. Appended(t)
  BY <1>1 DEF LocatorInv, RelocationOK
<1>5. LET where == todo[1].loc
      IN  /\ where.kind = "journal" /\ where.size = Len(where.sum)
          /\ JournalHolds(wal, where)
  BY <1>3, <1>4 DEF Appended
<1>6. roots'[m].payload = todo[1].loc
      /\ \A n \in Names \ {m} : roots'[n] = roots[n]
  BY <1>1, <1>3 DEF TypeInv, TypeOK
<1>7. Relocating => Relocating'
  BY <1>1, RelocatingKept DEF CallStep, CommitStep
<1>8. \A n \in Names : Located(n)'
  BY <1>1, <1>5, <1>6, <1>7 DEF LocatorInv, Located
<1>9. Appended(t)'
  <2> SUFFICES ASSUME NEW i \in 1 .. Len(todo) - 1
               PROVE  LET where == todo[i + 1].loc
                      IN  /\ where.kind = "journal"
                          /\ where.size = Len(where.sum)
                          /\ JournalHolds(wal, where)
    BY <1>1, <1>3 DEF Appended
  <2>1. i + 1 \in 1 .. Len(todo)
    BY <1>3
  <2> QED
    BY <1>4, <2>1 DEF Appended
<1> QED
  BY <1>1, <1>8, <1>9 DEF RelocationOK

(* save(): only the lock's holder relocates, so every payload is readable  *)
(* through the index and is copied to where the new locator says.          *)
LEMMA LocatorSave ==
    ASSUME TypeInv, MutexInv, LocatorInv, NEW t \in Threads, Save(t)
    PROVE  (\A n \in Names : Located(n)') /\ RelocationOK(t)'
<1> DEFINE copy == [n \in Present(roots) |-> PayloadBytes(roots[n].payload)]
<1>1. /\ pc[t] = "save" /\ pc'[t] \in {"flush_tmp", "replace"}
      /\ UNCHANGED <<wal, snap, roots>>
      /\ tmp' = SavedFile(roots, lastSeq, copy)
  BY DEF Save, Goto, index, TypeInv, TypeOK
<1>2. ~ Relocating
  BY <1>1, Alone DEF Relocating, HoldsCommitMutex
<1>3. \A n \in Names : Located(n)'
  BY <1>1, LocatedKept DEF CallStep, CheckpointStep
<1>4. roots \in [Names -> RootRecord] /\ lastSeq \in Nat
  BY DEF TypeInv, TypeOK
<1>5. ASSUME NEW n \in Present(roots)
      PROVE  /\ copy[n] \in Seq(Nat)
             /\ Len(copy[n]) = roots[n].payload.size
             /\ copy[n] = roots[n].payload.sum
  <2>1. n \in Names /\ Located(n)
    BY PresentFinite DEF LocatorInv
  <2>2. roots[n].payload.sum \in Seq(Nat)
    BY <1>4, <2>1 DEF RootRecord, Loc, Bytes
  <2> QED
    BY <1>2, <2>1, <2>2, LocatedReads
<1> HIDE DEF copy
<1>6. \A n \in Present(roots) :
        FileHolds(SavedFile(roots, lastSeq, copy),
                  SavedRoots(roots)[n].payload)
  BY <1>4, <1>5, SavedReads
<1>7. SavedIn(tmp)'
  BY <1>1, <1>6 DEF SavedIn
<1> QED
  BY <1>1, <1>3, <1>7 DEF RelocationOK

LEMMA LocatorReplace ==
    ASSUME TypeInv, LocatorInv, NEW t \in Threads,
           FlushTmp(t) \/ AtomicReplace(t) \/ SyncDirectory(t)
    PROVE  (\A n \in Names : Located(n)') /\ RelocationOK(t)'
<1>1. UNCHANGED <<wal, roots>> /\ RelocationOK(t)
  BY DEF FlushTmp, AtomicReplace, SyncDirectory, index, LocatorInv
<1>2. CASE FlushTmp(t)
  <2>1. /\ pc[t] = "flush_tmp" /\ pc'[t] = "replace"
        /\ tmp'.data = tmp.data /\ snap' = snap
    BY <1>2 DEF FlushTmp, Goto, TypeInv, TypeOK, File
  <2>2. SavedIn(tmp)'
    BY <1>1, <2>1 DEF RelocationOK, SavedIn, FileHolds
  <2>3. \A n \in Names : Located(n)'
    BY <1>1, <1>2, <2>1, LocatedKept DEF CallStep, CheckpointStep
  <2> QED
    BY <2>1, <2>2, <2>3 DEF RelocationOK
<1>3. CASE AtomicReplace(t) \/ SyncDirectory(t)
  <2>1. pc'[t] \in {"sync_dir", "install"}
    BY <1>3 DEF AtomicReplace, SyncDirectory, Goto, TypeInv, TypeOK
  <2>2. SavedIn(snap)'
    BY <1>1, <1>3 DEF AtomicReplace, SyncDirectory, RelocationOK, SavedIn
  <2>3. Relocating'
    BY <2>1 DEF Relocating
  <2>4. \A n \in Names : Located(n)'
    BY <1>1, <2>3 DEF LocatorInv, Located
  <2> QED
    BY <2>1, <2>2, <2>4 DEF RelocationOK
<1> QED
  BY <1>2, <1>3

LEMMA LocatorInstall ==
    ASSUME TypeInv, LocatorInv, NEW t \in Threads, Install(t)
    PROVE  (\A n \in Names : Located(n)') /\ RelocationOK(t)'
<1>1. /\ pc[t] = "install" /\ pc'[t] = "truncate"
      /\ roots' = SavedRoots(roots) /\ snap' = snap
  BY DEF Install, Goto, storage, TypeInv, TypeOK
<1>2. SavedIn(snap)
  BY <1>1 DEF LocatorInv, RelocationOK
<1>3. ASSUME NEW n \in Names
      PROVE  roots'[n].version > 0 =>
                /\ n \in Present(roots)
                /\ roots'[n].payload.kind = "snapshot"
                /\ roots'[n].payload.size = Len(roots'[n].payload.sum)
                /\ FileHolds(snap', roots'[n].payload)
  <2>1. CASE n \in Present(roots)
    <3>1. /\ roots'[n].payload.kind = "snapshot"
          /\ roots'[n].payload.size = roots[n].payload.size
          /\ roots'[n].payload.sum = roots[n].payload.sum
      BY <1>1, <2>1 DEF SavedRoots
    <3>2. roots[n].payload.size = Len(roots[n].payload.sum)
      BY <2>1 DEF LocatorInv, Located, Present
    <3>3. FileHolds(snap', roots'[n].payload)
      BY <1>1, <1>2, <2>1 DEF SavedIn
    <3> QED
      BY <2>1, <3>1, <3>2, <3>3
  <2>2. CASE n \notin Present(roots)
    BY <1>1, <2>2 DEF SavedRoots, NoRoot
  <2> QED
    BY <2>1, <2>2
<1>4. \A n \in Names : Located(n)'
  BY <1>3 DEF Located
<1>5. RelocationOK(t)'
  BY <1>1, <1>3 DEF RelocationOK, Present
<1> QED
  BY <1>4, <1>5

LEMMA LocatorReset ==
    ASSUME TypeInv, LocatorInv, NEW t \in Threads, Truncate(t) \/ SyncWal(t)
    PROVE  (\A n \in Names : Located(n)') /\ RelocationOK(t)'
<1>1. /\ pc[t] \in {"truncate", "sync_wal"}
      /\ pc'[t] \in {"sync_wal", "idle"}
      /\ UNCHANGED <<snap, roots>>
  BY DEF Truncate, SyncWal, Return, Leave, Goto, index, TypeInv, TypeOK
<1>2. Relocating => Relocating'
  BY <1>1, RelocatingKept DEF CallStep, CheckpointStep
<1>3. \A n \in Names : Located(n)'
  <2>1. CASE Truncate(t)
    <3>1. \A n \in Present(roots) : roots[n].payload.kind = "snapshot"
      BY <2>1 DEF Truncate, LocatorInv, RelocationOK
    <3> QED
      BY <1>1, <1>2, <3>1 DEF LocatorInv, Located, Present
  <2>2. CASE SyncWal(t)
    <3>1. wal' = wal
      BY <2>2 DEF SyncWal
    <3> QED
      BY <1>1, <1>2, <3>1 DEF LocatorInv, Located
  <2> QED
    BY <2>1, <2>2
<1>4. RelocationOK(t)'
  BY <1>1 DEF RelocationOK
<1> QED
  BY <1>3, <1>4

(* Between the rename and the installation of the locators there is only   *)
(* the directory sync.                                                     *)
LEMMA RelocationEnds ==
    ASSUME "sync_directory" \notin Faults, NEW t \in Threads,
           Application(t) \/ CallStep(t), ~ DurableStep(t)
    PROVE  pc[t] \notin {"sync_dir", "install"}
<1>1. CASE Application(t)
  BY <1>1 DEF Application, Begin, Lookup, Mutate, Abort, CommitClean,
              CommitCall, CheckpointCall
<1>2. CASE LoadStep(t)
  BY <1>2 DEF LoadStep, Probe, Miss, Fetch, FetchFails
<1>3. CASE CommitStep(t)
  BY <1>3 DEF CommitStep, CommitRefused, Validate, AppendBatch, AppendFails,
              Barrier, BarrierFails, Publish, Threshold
<1>4. CASE CheckpointStep(t)
  BY <1>4 DEF CheckpointStep, CheckpointRefused, CheckpointLocked, SaveFails,
              FlushTmpFails, AtomicReplaceFails, SyncDirectoryFails, MayFail,
              TruncateFails, SyncWalFails, DurableStep
<1> QED
  BY <1>1, <1>2, <1>3, <1>4 DEF CallStep

LEMMA LocatorNext ==
    ASSUME "sync_directory" \notin Faults, TypeInv, MutexInv, LocatorInv,
           [Next]_vars
    PROVE  LocatorInv'
<1>1. CASE Close \/ UNCHANGED vars
  <2>1. UNCHANGED <<storage, roots, pc, call>>
    BY <1>1 DEF Close, vars, index, control
  <2>2. \A n \in Names : Located(n)'
    BY <2>1 DEF LocatorInv, Located, Relocating, storage
  <2>3. \A t \in Threads : RelocationOK(t)'
    BY <2>1 DEF LocatorInv, RelocationOK, Appended, SavedIn, storage
  <2> QED
    BY <2>2, <2>3 DEF LocatorInv
<1>2. ASSUME NEW t \in Threads, Application(t) \/ CallStep(t)
      PROVE  LocatorInv'
  <2>1. CASE DurableStep(t)
    <3>1. pc[t] \in HoldsCommitMutex
      BY <2>1
      DEF DurableStep, AppendBatch, AppendFails, Barrier, Publish, Save,
          FlushTmp, AtomicReplace, SyncDirectory, Install, Truncate, SyncWal,
          HoldsCommitMutex
    <3>2. \A u \in Threads \ {t} : RelocationOK(u)'
      BY <1>2, <3>1, OthersRelocation
    <3>3. CASE Barrier(t)
      <4>1. /\ pc[t] = "barrier" /\ pc'[t] = "publish"
            /\ UNCHANGED <<wal, snap, roots, call>>
        BY <3>3 DEF Barrier, Goto, index, TypeInv, TypeOK
      <4>2. \A n \in Names : Located(n)'
        BY <1>2, <4>1, LocatedKept
      <4>3. RelocationOK(t)'
        BY <4>1 DEF LocatorInv, RelocationOK, Appended
      <4> QED
        BY <3>2, <4>2, <4>3 DEF LocatorInv
    <3>4. CASE ~ Barrier(t)
      <4>1. (\A n \in Names : Located(n)') /\ RelocationOK(t)'
        BY <2>1, <3>4, LocatorAppend, LocatorPublish, LocatorSave,
           LocatorReplace, LocatorInstall, LocatorReset DEF DurableStep
      <4> QED
        BY <3>2, <4>1 DEF LocatorInv
    <3> QED
      BY <3>3, <3>4
  <2>2. CASE ~ DurableStep(t)
    <3>1. UNCHANGED <<storage, roots>> /\ pc'[t] \notin Exposed
      BY <1>2, <2>2, StorageKept
    <3>2. pc[t] \notin {"sync_dir", "install"}
      BY <1>2, <2>2, RelocationEnds
    <3>3. \A n \in Names : Located(n)'
      BY <1>2, <3>1, <3>2, LocatedKept DEF storage
    <3>4. \A u \in Threads \ {t} : RelocationOK(u)'
      BY <1>2, <3>1, OthersRelocation
    <3>5. RelocationOK(t)'
      BY <3>1 DEF RelocationOK, Exposed
    <3> QED
      BY <3>3, <3>4, <3>5 DEF LocatorInv
  <2> QED
    BY <2>1, <2>2
<1> QED
  BY <1>1, <1>2 DEF Next

(* Every root ever published stays readable: unless a directory sync       *)
(* fails, the locator of each root designates the bytes of its last        *)
(* published version whenever a load or a checkpoint can take              *)
(* commit_mutex, through any commits, failed appends, checkpoints and      *)
(* failed checkpoints (heap_state.hpp, load_payload and read_payload).     *)
THEOREM RootsStayReadable ==
    ASSUME "sync_directory" \notin Faults
    PROVE  Spec => []LocatorsResolve
<1>1. Init => LocatorInv
  BY LocatorInit
<1>2. SafeInv /\ LocatorInv /\ [Next]_vars => LocatorInv'
  BY LocatorNext DEF SafeInv
<1>3. SafeInv /\ LocatorInv => LocatorsResolve
  BY LocatorGives
<1> QED
  BY <1>1, <1>2, <1>3, SafeInvariant, PTL DEF Spec
=============================================================================

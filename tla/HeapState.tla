----------------------------- MODULE HeapState ------------------------------
(***************************************************************************)
(* One process using one heap (detail/heap_state.hpp, transaction.hpp,     *)
(* heap.hpp): threads that run transactions, load roots through the cache, *)
(* commit through the journal and take checkpoints.                        *)
(*                                                                         *)
(* Grain.  commit_mutex is the variable mutex.  roots_mutex is held for a  *)
(* single step by everyone but a committing thread, which holds it while   *)
(* its pc is "publish"; a step that takes roots_mutex therefore waits      *)
(* until no thread publishes.  Every call of the storage interface is one  *)
(* step, so that a crash or an I/O error can come between any two of them. *)
(***************************************************************************)
EXTENDS Journal, Snapshot, CacheStore

CONSTANTS Threads,
          NoThread,
          Strict,             \* durability_mode::strict
          Checksums,          \* heap_config::checksums
          CheckpointRecords,  \* checkpoint_journal_bytes, in records
          Faults,             \* storage calls that may fail
          MaxTx               \* bound: transactions begun by this process

StorageCalls == {"read", "append", "flush_data", "write_tmp", "flush_tmp",
                 "atomic_replace", "sync_directory", "truncate", "flush_all"}

ASSUME HeapAssumption ==
    /\ NoThread \notin Threads
    /\ Strict \in BOOLEAN
    /\ Checksums \in BOOLEAN
    /\ CheckpointRecords \in Nat
    /\ Faults \subseteq StorageCalls
    /\ MaxTx \in Nat

VARIABLES
    wal,        \* heap.wal, as the operating system shows it
    walDisk,    \* the contents of heap.wal at its last successful flush
    snap,       \* heap.snapshot, as the operating system shows it
    snapDisk,   \* the file heap.snapshot names after the last directory sync
    tmp,        \* heap.snapshot.tmp
    roots,      \* the resident root index
    lastSeq,    \* journal::last_sequence_
    poisoned, closed, nextTx,
    cache,
    mutex,      \* the holder of commit_mutex
    pc, call,   \* per thread: program counter and the locals of its call
    tx,         \* per thread: its transaction
    hist        \* history: per name, every published version and its writer

storage == <<wal, walDisk, snap, snapDisk, tmp>>
index == <<roots, lastSeq, cache>>
flags == <<poisoned, closed, nextTx>>
control == <<mutex, pc, call>>
vars == <<storage, index, flags, control, tx, hist>>

-----------------------------------------------------------------------------
(* Transactions.  A working root has the token of its position in the      *)
(* transaction (0: not materialized); a transaction that is over keeps     *)
(* nothing the API could return.                                           *)

WorkingRoot(token, expected, dirty, data) ==
    [token |-> token, expected |-> expected, dirty |-> dirty, data |-> data]

NoWork == WorkingRoot(0, 0, FALSE, << >>)

NoTx == [id |-> 0, active |-> FALSE, work |-> [n \in Names |-> NoWork]]

Loaded(work) == {n \in Names : work[n].token > 0}
Dirty(work) == {n \in Names : work[n].token > 0 /\ work[n].dirty}

(* The dirty roots in the order of their tokens.                           *)
CommitOrder(work) ==
    {order \in [1 .. Cardinality(Dirty(work)) -> Dirty(work)] :
        \A i, j \in DOMAIN order :
            i < j => work[order[i]].token < work[order[j]].token}

NoCall == [op |-> "none", name |-> 0, record |-> NoRoot, todo |-> << >>]

HoldsCommitMutex == {"fetch", "append", "barrier", "publish", "threshold",
                     "save", "flush_tmp", "replace", "sync_dir", "install",
                     "truncate", "sync_wal"}

(* Seeded fault for RootsMutexFree: readers do not wait for publication.   *)
RootsMutexIgnored == TRUE

RootsMutexFree == \A t \in Threads : pc[t] # "publish"

Goto(t, label) == pc' = [pc EXCEPT ![t] = label]

MayFail(c) == c \in Faults

(* Leaving a call, normally or by an exception: the lock_guard releases    *)
(* commit_mutex if the thread holds it.                                    *)
Leave(t) ==
    /\ Goto(t, "idle")
    /\ call' = [call EXCEPT ![t] = NoCall]
    /\ mutex' = IF mutex = t THEN NoThread ELSE mutex

(* A storage error that leaves everything but the call alone.              *)
Throw(t) ==
    /\ Leave(t)
    /\ UNCHANGED <<storage, index, flags, tx, hist>>

(* The transaction's commit() sets active only after a successful return.  *)
Return(t) ==
    /\ Leave(t)
    /\ tx' = IF call[t].op = "commit" THEN [tx EXCEPT ![t] = NoTx] ELSE tx

Acquire(t) ==
    /\ mutex = NoThread
    /\ mutex' = t

-----------------------------------------------------------------------------
(* Reading payloads (heap_state::read_payload, load_payload).              *)

PayloadReadable(where) ==
    IF where.kind = "snapshot" THEN SnapshotHas(snap, where)
                               ELSE JournalHas(wal, where)

PayloadBytes(where) ==
    IF where.kind = "snapshot" THEN SnapshotRead(snap, where)
                               ELSE JournalRead(wal, where)

(* Seeded fault for PayloadLoads: the checksum is not compared.            *)
PayloadLoadsUnverified(where) == PayloadReadable(where)

PayloadLoads(where) ==
    /\ PayloadReadable(where)
    /\ Checksums => Crc32c(PayloadBytes(where)) = where.sum

-----------------------------------------------------------------------------
(* heap::begin.  The transaction takes the next id of this process.        *)
Begin(t) ==
    /\ pc[t] = "idle"
    /\ ~ tx[t].active
    /\ ~ closed
    /\ nextTx <= MaxTx
    /\ tx' = [tx EXCEPT ![t] = [id |-> nextTx, active |-> TRUE,
                                work |-> NoTx.work]]
    /\ nextTx' = nextTx + 1
    /\ UNCHANGED <<storage, index, poisoned, closed, control, hist>>

(* The end of transaction::root: decode the payload and keep it as a       *)
(* working root.  Bytes that encode no value make decode throw.            *)
Deliver(t, n, version, bytes, isNew) ==
    /\ Leave(t)
    /\ tx' = IF bytes \in Payloads
             THEN [tx EXCEPT ![t].work[n] =
                     WorkingRoot(Cardinality(Loaded(tx[t].work)) + 1,
                                 version, isNew, bytes)]
             ELSE tx

(* transaction::root on a name that is not materialized yet, up to the     *)
(* optimistic lookup in heap_state::load.                                  *)
Lookup(t, n) ==
    /\ pc[t] = "idle"
    /\ tx[t].active
    /\ tx[t].work[n].token = 0
    /\ RootsMutexFree
    /\ IF roots[n].version = 0
       THEN Deliver(t, n, 0, NullPayload, TRUE)
       ELSE /\ Goto(t, "probe")
            /\ call' = [call EXCEPT ![t] =
                           [op |-> "root", name |-> n, record |-> roots[n],
                            todo |-> << >>]]
            /\ UNCHANGED <<mutex, tx>>
    /\ UNCHANGED <<storage, index, flags, hist>>

(* cache.get with the version the lookup saw.                              *)
Probe(t) ==
    /\ pc[t] = "probe"
    /\ LET n == call[t].name
           version == call[t].record.version
       IN  /\ cache' = AfterGet(cache, n, version)
           /\ IF Hit(cache, n, version)
              THEN Deliver(t, n, version, cache[n].payload, FALSE)
              ELSE /\ Goto(t, "miss")
                   /\ UNCHANGED <<mutex, call, tx>>
    /\ UNCHANGED <<storage, roots, lastSeq, flags, hist>>

(* A miss takes commit_mutex and reads the root index again.  The index    *)
(* never loses a name, so the early return of the second lookup is dead.   *)
Miss(t) ==
    /\ pc[t] = "miss"
    /\ Acquire(t)
    /\ Goto(t, "fetch")
    /\ call' = [call EXCEPT ![t].record = roots[call[t].name]]
    /\ UNCHANGED <<storage, index, flags, tx, hist>>

(* The payload is read and verified under commit_mutex, then cached.       *)
Fetch(t) ==
    /\ pc[t] = "fetch"
    /\ PayloadLoads(call[t].record.payload)
    /\ LET n == call[t].name
           version == call[t].record.version
           bytes == PayloadBytes(call[t].record.payload)
       IN  /\ cache' \in AfterPut(cache, n, version, bytes)
           /\ Deliver(t, n, version, bytes, FALSE)
    /\ UNCHANGED <<storage, roots, lastSeq, flags, hist>>

FetchFails(t) ==
    /\ pc[t] = "fetch"
    /\ MayFail("read") \/ ~ PayloadLoads(call[t].record.payload)
    /\ Throw(t)

-----------------------------------------------------------------------------
(* A mutation of a working root; its change event marks the root dirty.    *)
Mutate(t, n, payload) ==
    /\ pc[t] = "idle"
    /\ tx[t].active
    /\ n \in Loaded(tx[t].work)
    /\ tx' = [tx EXCEPT ![t].work[n] =
                 WorkingRoot(@.token, @.expected, TRUE, payload)]
    /\ UNCHANGED <<storage, index, flags, control, hist>>

(* transaction::abort, also run by the destructor.                         *)
Abort(t) ==
    /\ pc[t] = "idle"
    /\ tx[t].active
    /\ tx' = [tx EXCEPT ![t] = NoTx]
    /\ UNCHANGED <<storage, index, flags, control, hist>>

-----------------------------------------------------------------------------
(* transaction::commit and heap_state::commit.  Without dirty roots the    *)
(* commit succeeds without the lock.                                       *)
CommitClean(t) ==
    /\ pc[t] = "idle"
    /\ tx[t].active
    /\ Dirty(tx[t].work) = {}
    /\ tx' = [tx EXCEPT ![t] = NoTx]
    /\ UNCHANGED <<storage, index, flags, control, hist>>

CommitCall(t) ==
    /\ pc[t] = "idle"
    /\ tx[t].active
    /\ Dirty(tx[t].work) # {}
    /\ Goto(t, "commit")
    /\ call' = [call EXCEPT ![t].op = "commit"]
    /\ UNCHANGED <<storage, index, flags, mutex, tx, hist>>

(* Seeded fault for VersionsMatch: a newer version is no conflict.         *)
VersionsNotOlder(work) ==
    \A n \in Dirty(work) : roots[n].version >= work[n].expected

VersionsMatch(work) ==
    \A n \in Dirty(work) : roots[n].version = work[n].expected

(* Under the lock: closed, poisoned and the version check, in this order.  *)
(* Each refusal throws, so only the lock is taken and released.            *)
CommitRefused(t) ==
    /\ pc[t] = "commit"
    /\ mutex = NoThread
    /\ closed \/ poisoned \/ ~ VersionsMatch(tx[t].work)
    /\ Throw(t)

(* Seeded fault for Validate: the poisoned flag is not looked at.          *)
ValidatePoisoned(t) ==
    /\ pc[t] = "commit"
    /\ Acquire(t)
    /\ ~ closed
    /\ VersionsMatch(tx[t].work)
    /\ Goto(t, "append")
    /\ UNCHANGED <<storage, index, flags, call, tx, hist>>

Validate(t) ==
    /\ pc[t] = "commit"
    /\ Acquire(t)
    /\ ~ closed
    /\ ~ poisoned
    /\ VersionsMatch(tx[t].work)
    /\ Goto(t, "append")
    /\ UNCHANGED <<storage, index, flags, call, tx, hist>>

(* Seeded fault for AppendBatch: no barrier in strict mode.                *)
AppendUnsynced(t) ==
    /\ pc[t] = "append"
    /\ \E order \in CommitOrder(tx[t].work) :
        /\ wal' = wal \o Batch(tx[t].id, lastSeq, order, tx[t].work)
        /\ lastSeq' = lastSeq + Len(order) + 2
        /\ call' = [call EXCEPT ![t].todo =
                                    Locations(wal, order, tx[t].work)]
    /\ Goto(t, "publish")
    /\ UNCHANGED <<walDisk, snap, snapDisk, tmp, roots, cache, flags, mutex,
                   tx, hist>>

(* One write of the whole batch at the end of the file.                    *)
AppendBatch(t) ==
    /\ pc[t] = "append"
    /\ \E order \in CommitOrder(tx[t].work) :
        /\ wal' = wal \o Batch(tx[t].id, lastSeq, order, tx[t].work)
        /\ lastSeq' = lastSeq + Len(order) + 2
        /\ call' = [call EXCEPT ![t].todo =
                                    Locations(wal, order, tx[t].work)]
    /\ Goto(t, IF Strict THEN "barrier" ELSE "publish")
    /\ UNCHANGED <<walDisk, snap, snapDisk, tmp, roots, cache, flags, mutex,
                   tx, hist>>

(* A write that fails after some of the batch's records, and perhaps part  *)
(* of one more; the sequence numbers are spent all the same.               *)
PartialBatches(batch) ==
    UNION {{SubSeq(batch, 1, k), Append(SubSeq(batch, 1, k), Torn)}
              : k \in 0 .. Len(batch) - 1}

AppendFails(t) ==
    /\ pc[t] = "append"
    /\ MayFail("append")
    /\ \E order \in CommitOrder(tx[t].work) :
        /\ \E part \in PartialBatches(Batch(tx[t].id, lastSeq, order,
                                            tx[t].work)) :
               wal' = wal \o part
        /\ lastSeq' = lastSeq + Len(order) + 2
    /\ poisoned' = TRUE
    /\ Leave(t)
    /\ UNCHANGED <<walDisk, snap, snapDisk, tmp, roots, cache, closed, nextTx,
                   tx, hist>>

(* flush_data.  If it fails the heap is poisoned with the batch in the     *)
(* file, unpublished.                                                      *)
Barrier(t) ==
    /\ pc[t] = "barrier"
    /\ walDisk' = wal
    /\ Goto(t, "publish")
    /\ UNCHANGED <<wal, snap, snapDisk, tmp, index, flags, mutex, call, tx,
                   hist>>

BarrierFails(t) ==
    /\ pc[t] = "barrier"
    /\ MayFail("flush_data")
    /\ poisoned' = TRUE
    /\ Leave(t)
    /\ UNCHANGED <<storage, index, closed, nextTx, tx, hist>>

(* One turn of the publication loop: a new root record and a cache entry.  *)
Publish(t) ==
    /\ pc[t] = "publish"
    /\ LET n == Head(call[t].todo).name
           work == tx[t].work[n]
           version == work.expected + 1
       IN  /\ roots' = [roots EXCEPT ![n] =
                           [version |-> version,
                            payload |-> Head(call[t].todo).loc]]
           /\ cache' \in AfterPut(cache, n, version, work.data)
           /\ hist' = [hist EXCEPT ![n] =
                          Append(@, [tx |-> tx[t].id, data |-> work.data])]
    /\ call' = [call EXCEPT ![t].todo = Tail(@)]
    /\ Goto(t, IF Len(call[t].todo) = 1 THEN "threshold" ELSE "publish")
    /\ UNCHANGED <<storage, lastSeq, flags, mutex, tx>>

(* A journal that reached the configured size starts a checkpoint inside   *)
(* the commit; if that checkpoint throws, so does the commit.              *)
Threshold(t) ==
    /\ pc[t] = "threshold"
    /\ IF Len(wal) >= CheckpointRecords
       THEN /\ Goto(t, "save")
            /\ UNCHANGED <<mutex, call, tx>>
       ELSE Return(t)
    /\ UNCHANGED <<storage, index, flags, hist>>

-----------------------------------------------------------------------------
(* heap::checkpoint waits for the lock and refuses a closed heap, but not  *)
(* a poisoned one.                                                         *)
CheckpointCall(t) ==
    /\ pc[t] = "idle"
    /\ Goto(t, "checkpoint")
    /\ call' = [call EXCEPT ![t].op = "checkpoint"]
    /\ UNCHANGED <<storage, index, flags, mutex, tx, hist>>

CheckpointRefused(t) ==
    /\ pc[t] = "checkpoint"
    /\ mutex = NoThread
    /\ closed
    /\ Throw(t)

CheckpointLocked(t) ==
    /\ pc[t] = "checkpoint"
    /\ Acquire(t)
    /\ ~ closed
    /\ Goto(t, "save")
    /\ UNCHANGED <<storage, index, flags, call, tx, hist>>

(* save(): the roots captured at the start of checkpoint_locked are the    *)
(* current ones throughout, because only the lock's holder changes them.   *)
(* The payloads are copied without a checksum comparison.                  *)
SaveReadable == \A n \in Present(roots) : PayloadReadable(roots[n].payload)

Save(t) ==
    /\ pc[t] = "save"
    /\ SaveReadable
    /\ tmp' = SavedFile(roots, lastSeq,
                  [n \in Present(roots) |-> PayloadBytes(roots[n].payload)])
    /\ Goto(t, IF Strict THEN "flush_tmp" ELSE "replace")
    /\ UNCHANGED <<wal, walDisk, snap, snapDisk, index, flags, mutex, call,
                   tx, hist>>

SaveFails(t) ==
    /\ pc[t] = "save"
    /\ MayFail("write_tmp") \/ MayFail("read") \/ ~ SaveReadable
    /\ Throw(t)

FlushTmp(t) ==
    /\ pc[t] = "flush_tmp"
    /\ tmp' = [tmp EXCEPT !.flushed = TRUE]
    /\ Goto(t, "replace")
    /\ UNCHANGED <<wal, walDisk, snap, snapDisk, index, flags, mutex, call,
                   tx, hist>>

(* Seeded fault for FlushTmpFails: the checkpoint retries under the lock.  *)
FlushTmpRetries(t) ==
    /\ pc[t] = "flush_tmp"
    /\ MayFail("flush_tmp")
    /\ Goto(t, "save")
    /\ UNCHANGED <<storage, index, flags, mutex, call, tx, hist>>

FlushTmpFails(t) ==
    /\ pc[t] = "flush_tmp"
    /\ MayFail("flush_tmp")
    /\ Throw(t)

AtomicReplace(t) ==
    /\ pc[t] = "replace"
    /\ snap' = tmp
    /\ tmp' = EmptyFile
    /\ Goto(t, IF Strict THEN "sync_dir" ELSE "install")
    /\ UNCHANGED <<wal, walDisk, snapDisk, index, flags, mutex, call, tx,
                   hist>>

AtomicReplaceFails(t) ==
    /\ pc[t] = "replace"
    /\ MayFail("atomic_replace")
    /\ Throw(t)

SyncDirectory(t) ==
    /\ pc[t] = "sync_dir"
    /\ snapDisk' = snap
    /\ Goto(t, "install")
    /\ UNCHANGED <<wal, walDisk, snap, tmp, index, flags, mutex, call, tx,
                   hist>>

(* The rename has happened: the file under the name heap.snapshot is the   *)
(* new one, and the root index still has the old locators.                 *)
SyncDirectoryFails(t) ==
    /\ pc[t] = "sync_dir"
    /\ MayFail("sync_directory")
    /\ Throw(t)

Install(t) ==
    /\ pc[t] = "install"
    /\ roots' = SavedRoots(roots)
    /\ Goto(t, "truncate")
    /\ UNCHANGED <<storage, lastSeq, cache, flags, mutex, call, tx, hist>>

(* journal::reset                                                          *)
Truncate(t) ==
    /\ pc[t] = "truncate"
    /\ wal' = << >>
    /\ IF Strict
       THEN /\ Goto(t, "sync_wal")
            /\ UNCHANGED <<mutex, call, tx>>
       ELSE Return(t)
    /\ UNCHANGED <<walDisk, snap, snapDisk, tmp, index, flags, hist>>

TruncateFails(t) ==
    /\ pc[t] = "truncate"
    /\ MayFail("truncate")
    /\ Throw(t)

SyncWal(t) ==
    /\ pc[t] = "sync_wal"
    /\ walDisk' = wal
    /\ Return(t)
    /\ UNCHANGED <<wal, snap, snapDisk, tmp, index, flags, hist>>

SyncWalFails(t) ==
    /\ pc[t] = "sync_wal"
    /\ MayFail("flush_all")
    /\ Throw(t)

-----------------------------------------------------------------------------
(* heap::close only sets a flag, without any lock.                         *)
Close ==
    /\ ~ closed
    /\ closed' = TRUE
    /\ UNCHANGED <<storage, index, poisoned, nextTx, control, tx, hist>>

Init ==
    /\ wal = << >> /\ walDisk = << >>
    /\ snap = EmptyFile /\ snapDisk = EmptyFile /\ tmp = EmptyFile
    /\ roots = NoRoots
    /\ lastSeq = 0
    /\ cache = EmptyCache
    /\ poisoned = FALSE /\ closed = FALSE
    /\ nextTx = 1
    /\ mutex = NoThread
    /\ pc = [t \in Threads |-> "idle"]
    /\ call = [t \in Threads |-> NoCall]
    /\ tx = [t \in Threads |-> NoTx]
    /\ hist = [n \in Names |-> << >>]

(* What an application decides to do next, and what a call already made    *)
(* goes on to do.                                                          *)
Application(t) ==
    \/ Begin(t)
    \/ \E n \in Names : Lookup(t, n)
    \/ \E n \in Names, p \in Payloads : Mutate(t, n, p)
    \/ Abort(t)
    \/ CommitClean(t)
    \/ CommitCall(t)
    \/ CheckpointCall(t)

LoadStep(t) == Probe(t) \/ Miss(t) \/ Fetch(t) \/ FetchFails(t)

CommitStep(t) ==
    \/ CommitRefused(t) \/ Validate(t)
    \/ AppendBatch(t) \/ AppendFails(t)
    \/ Barrier(t) \/ BarrierFails(t)
    \/ Publish(t)
    \/ Threshold(t)

CheckpointStep(t) ==
    \/ CheckpointRefused(t) \/ CheckpointLocked(t)
    \/ Save(t) \/ SaveFails(t)
    \/ FlushTmp(t) \/ FlushTmpFails(t)
    \/ AtomicReplace(t) \/ AtomicReplaceFails(t)
    \/ SyncDirectory(t) \/ SyncDirectoryFails(t)
    \/ Install(t)
    \/ Truncate(t) \/ TruncateFails(t)
    \/ SyncWal(t) \/ SyncWalFails(t)

CallStep(t) == LoadStep(t) \/ CommitStep(t) \/ CheckpointStep(t)

Next == Close \/ \E t \in Threads : Application(t) \/ CallStep(t)

(* A thread inside a call is scheduled again; nothing forces an            *)
(* application to make another call, nor commit_mutex to be fair.          *)
Fairness == \A t \in Threads : WF_vars(CallStep(t))

Spec == Init /\ [][Next]_vars /\ Fairness

-----------------------------------------------------------------------------
Labels == HoldsCommitMutex \cup {"idle", "probe", "miss", "commit",
                                 "checkpoint"}
Update == [name : Names, loc : Loc]
Call == [op : {"none", "root", "commit", "checkpoint"}, name : Nat,
         record : RootRecord, todo : Seq(Update)]
Work == [token : Nat, expected : Nat, dirty : BOOLEAN, data : Bytes]
Transaction == [id : Nat, active : BOOLEAN, work : [Names -> Work]]
Version == [tx : Nat, data : Bytes]

(* The type invariant.                                                     *)
TypeOK ==
    /\ wal \in Seq(Record) /\ walDisk \in Seq(Record)
    /\ snap \in File /\ snapDisk \in File /\ tmp \in File
    /\ roots \in [Names -> RootRecord]
    /\ lastSeq \in Nat
    /\ cache \in [Names -> Entry]
    /\ poisoned \in BOOLEAN /\ closed \in BOOLEAN
    /\ nextTx \in Nat
    /\ mutex \in Threads \cup {NoThread}
    /\ pc \in [Threads -> Labels]
    /\ call \in [Threads -> Call]
    /\ tx \in [Threads -> Transaction]
    /\ hist \in [Names -> Seq(Version)]

(* Between the rename of a new snapshot and the installation of its        *)
(* locators the root index is out of step with the files, and the          *)
(* checkpointing thread holds commit_mutex.                                *)
Relocating == \E t \in Threads : pc[t] \in {"sync_dir", "install"}

(* Every root that was ever published stays readable: whenever a load or a *)
(* checkpoint could take commit_mutex, the locator of each root designates *)
(* exactly the bytes of its last published version (heap_state.hpp,        *)
(* load_payload and read_payload through commit and checkpoint).           *)
LocatorsResolve ==
    \A n \in Names :
        /\ roots[n].version = Len(hist[n])
        /\ roots[n].version > 0 /\ ~ Relocating =>
               /\ PayloadLoads(roots[n].payload)
               /\ PayloadBytes(roots[n].payload) = hist[n][Len(hist[n])].data

(* A cache entry always holds the bytes published under its name and       *)
(* version, also when a slow fill races a commit (heap_state::load,        *)
(* payload_cache::put).                                                    *)
CacheCoherent ==
    \A n \in Names :
        cache[n].version > 0 =>
            /\ cache[n].version <= Len(hist[n])
            /\ cache[n].payload = hist[n][cache[n].version].data

(* A working copy that was not modified is the content of the version the  *)
(* transaction will be validated against: version and bytes returned by    *)
(* heap_state::load belong together, whichever way it took.                *)
WorkingCopies ==
    \A t \in Threads, n \in Names :
        LET work == tx[t].work[n]
        IN  work.token > 0 =>
                /\ work.expected <= Len(hist[n])
                /\ ~ work.dirty => /\ work.expected > 0
                                   /\ work.data = hist[n][work.expected].data

(* A transaction that has seen one root of another transaction's commit    *)
(* does not later load an older version of another root of that commit:    *)
(* publication under the exclusive roots_mutex is all or nothing.          *)
AtomicVisibility ==
    \A t \in Threads : \A a, b \in Loaded(tx[t].work) :
        tx[t].work[a].token < tx[t].work[b].token =>
            \A v \in 1 .. tx[t].work[a].expected, w \in 1 .. Len(hist[b]) :
                hist[a][v].tx = hist[b][w].tx => tx[t].work[b].expected >= w

(* A transaction publishes a root at most once, although commit() leaves   *)
(* it active and may be called again when it throws after publication      *)
(* (a failed automatic checkpoint).                                        *)
AtMostOnce ==
    \A n \in Names : \A v, w \in 1 .. Len(hist[n]) :
        hist[n][v].tx = hist[n][w].tx => v = w

(* No lost update: a step that changes a root's version extends its        *)
(* history by one, and its writer had loaded exactly the version it        *)
(* replaces (optimistic validation in heap_state::commit).                 *)
NoLostUpdate ==
    [][\A n \in Names :
          hist'[n] # hist[n] =>
              /\ Len(hist'[n]) = Len(hist[n]) + 1
              /\ SubSeq(hist'[n], 1, Len(hist[n])) = hist[n]
              /\ \E t \in Threads :
                    /\ tx[t].id = hist'[n][Len(hist'[n])].tx
                    /\ tx[t].work[n].expected = Len(hist[n])]_vars

(* A durability failure of the journal is fail-stop: once append or its    *)
(* barrier failed, no version is published any more.                       *)
FailStop == [][poisoned => hist' = hist]_vars

(* A strict commit is published only when its records have passed the      *)
(* barrier: what any thread can see is on the device, in the journal or in *)
(* a snapshot.                                                             *)
PublishedIsDurable ==
    Strict => \A n \in Names :
        roots[n].version > 0 =>
            \/ /\ snapDisk.flushed
               /\ snapDisk.index[n].version >= roots[n].version
            \/ \E i \in 1 .. Len(walDisk) :
                  /\ walDisk[i].type = "root_update"
                  /\ walDisk[i].name = n
                  /\ walDisk[i].version = roots[n].version

(* commit_mutex is always released: every path of load, commit and         *)
(* checkpoint, the failing ones included, comes to its end.                *)
LockReleased == mutex # NoThread ~> mutex = NoThread
=============================================================================

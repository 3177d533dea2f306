------------------------------ MODULE Recovery ------------------------------
(***************************************************************************)
(* A heap across process crashes, power losses and restarts: the life of   *)
(* HeapState, ended at any point, and the constructor of heap_state, which *)
(* loads the snapshot index, scans the journal and cuts off a torn tail.   *)
(***************************************************************************)
EXTENDS HeapState

CONSTANTS CrashKinds,   \* subset of {"process", "power"}
          TornAppends,  \* may a crash cut a batch anywhere, or only whole?
          MaxCrashes    \* bound

ASSUME RecoveryAssumption ==
    /\ CrashKinds \subseteq {"process", "power"}
    /\ TornAppends \in BOOLEAN
    /\ MaxCrashes \in Nat

VARIABLES
    mode,     \* "up", "down", "scan", "cut" (torn tail removed), "corrupt"
    scan,     \* locals of journal::recover
    crashes,
    acked,    \* history: per name, the highest version a commit returned
    doubt     \* history: the batch in the journal that is not published

rvars == <<vars, mode, scan, crashes, acked, doubt>>

NoScan == ScanStart(NoRoots, 0, {})
NoDoubt == [n \in {} |-> NoEntry]

RInit ==
    /\ Init
    /\ mode = "up"
    /\ scan = NoScan
    /\ crashes = 0
    /\ acked = [n \in Names |-> 0]
    /\ doubt = NoDoubt

-----------------------------------------------------------------------------
(* History: a commit that returns acknowledges its versions; a batch is in *)
(* doubt from its first write to the end of its publication.               *)

Returning(t) == pc[t] # "idle" /\ tx[t].active /\ ~ tx'[t].active
Writing(t) == pc[t] = "append" /\ pc'[t] # "append"
Published(t) == pc[t] = "publish" /\ pc'[t] # "publish"

Acknowledge ==
    acked' = [n \in Names |->
                 IF \E t \in Threads :
                        Returning(t) /\ n \in Dirty(tx[t].work)
                 THEN roots[n].version
                 ELSE acked[n]]

TrackDoubt ==
    doubt' = IF \E t \in Threads : Writing(t)
             THEN LET t == CHOOSE t \in Threads : Writing(t)
                  IN  [n \in Dirty(tx[t].work) |->
                          [version |-> tx[t].work[n].expected + 1,
                           payload |-> tx[t].work[n].data]]
             ELSE IF \E t \in Threads : Published(t) THEN NoDoubt ELSE doubt

Run ==
    /\ mode = "up"
    /\ Next
    /\ Acknowledge
    /\ TrackDoubt
    /\ UNCHANGED <<mode, scan, crashes>>

-----------------------------------------------------------------------------
(* Everything in memory is lost.  The history variable keeps what was      *)
(* published by whole batches; the rest stays in doubt.                    *)
Down ==
    /\ mode' = "down"
    /\ scan' = NoScan
    /\ crashes' = crashes + 1
    /\ roots' = NoRoots /\ lastSeq' = 0 /\ cache' = EmptyCache
    /\ poisoned' = FALSE /\ closed' = FALSE /\ nextTx' = 1
    /\ mutex' = NoThread
    /\ pc' = [t \in Threads |-> "idle"]
    /\ call' = [t \in Threads |-> NoCall]
    /\ tx' = [t \in Threads |-> NoTx]
    /\ hist' = [n \in Names |-> IF n \in DOMAIN doubt
                                THEN SubSeq(hist[n], 1, doubt[n].version - 1)
                                ELSE hist[n]]
    /\ UNCHANGED <<acked, doubt>>

(* The process dies; the operating system keeps what was written.  A       *)
(* process killed inside the write of a batch leaves a part of it.         *)
ProcessCrash ==
    /\ "process" \in CrashKinds
    /\ crashes < MaxCrashes
    /\ Down
    /\ \/ UNCHANGED wal
       \/ /\ TornAppends
          /\ \E t \in Threads :
                /\ pc[t] = "append"
                /\ \E order \in CommitOrder(tx[t].work) :
                     \E part \in PartialBatches(Batch(tx[t].id, lastSeq, order,
                                                     tx[t].work)) :
                        wal' = wal \o part
    /\ UNCHANGED <<walDisk, snap, snapDisk, tmp>>

(* The longest prefix on which the written and the flushed journal agree.  *)
Agreed ==
    CHOOSE k \in 0 .. Len(wal) :
        /\ k <= Len(walDisk)
        /\ SubSeq(wal, 1, k) = SubSeq(walDisk, 1, k)
        /\ k < Len(wal) /\ k < Len(walDisk) => wal[k + 1] # walDisk[k + 1]

(* What a device may hold of the journal after a power loss: the flushed   *)
(* contents, or a later state up to any record and part of the next one.   *)
SurvivingJournals ==
    {walDisk} \cup
    {SubSeq(wal, 1, k) : k \in {j \in Agreed .. Len(wal) :
        TornAppends \/ j = Agreed \/ wal[j].type = "commit"}} \cup
    {Append(SubSeq(wal, 1, k), Torn) :
        k \in {j \in Agreed .. Len(wal) - 1 : TornAppends}}

(* A snapshot whose contents were not flushed may come back empty.         *)
SurvivingSnapshots ==
    {snap, snapDisk} \cup
    {EmptyFile : f \in {f \in {snap, snapDisk} : ~ f.flushed}}

PowerLoss ==
    /\ "power" \in CrashKinds
    /\ crashes < MaxCrashes
    /\ Down
    /\ wal' \in SurvivingJournals
    /\ walDisk' = wal'
    /\ snap' \in SurvivingSnapshots
    /\ snapDisk' = snap'
    /\ tmp' = EmptyFile

-----------------------------------------------------------------------------
(* heap::open: snapshot_store::load, then journal::recover.                *)
Open ==
    /\ mode = "down"
    /\ mode' = "scan"
    /\ scan' = ScanStart(snap.index, snap.seq, 1 .. MaxTx)
    /\ UNCHANGED <<vars, crashes, acked, doubt>>

Scan ==
    /\ mode = "scan"
    /\ AtRecord(scan, wal)
    /\ IF Rejected(scan, wal)
       THEN /\ mode' = "corrupt"
            /\ UNCHANGED scan
       ELSE /\ scan' = Scanned(scan, wal)
            /\ UNCHANGED mode
    /\ UNCHANGED <<vars, crashes, acked, doubt>>

(* A torn tail is truncated and, in strict mode, the truncation flushed.   *)
CutTornTail ==
    /\ mode = "scan"
    /\ scan.pos <= Len(wal)
    /\ ~ AtRecord(scan, wal)
    /\ wal' = SubSeq(wal, 1, scan.pos - 1)
    /\ mode' = IF Strict THEN "cut" ELSE "scan"
    /\ UNCHANGED <<walDisk, snap, snapDisk, tmp, index, flags, control, tx,
                   hist, scan, crashes, acked, doubt>>

FlushCut ==
    /\ mode = "cut"
    /\ walDisk' = wal
    /\ mode' = "scan"
    /\ UNCHANGED <<wal, snap, snapDisk, tmp, index, flags, control, tx, hist,
                   scan, crashes, acked, doubt>>

(* The constructor returns: the scanned index becomes the heap's.  The     *)
(* history takes the batch in doubt if the scan found it.                  *)
Opened ==
    /\ mode = "scan"
    /\ scan.pos > Len(wal)
    /\ mode' = "up"
    /\ roots' = scan.roots
    /\ lastSeq' = scan.last
    /\ hist' = [n \in Names |->
                   IF scan.roots[n].version > Len(hist[n])
                   THEN Append(hist[n], [tx |-> 0, data |->
                          IF n \in DOMAIN doubt THEN doubt[n].payload
                                                ELSE << >>])
                   ELSE SubSeq(hist[n], 1, scan.roots[n].version)]
    /\ doubt' = NoDoubt
    /\ scan' = NoScan
    /\ UNCHANGED <<storage, cache, flags, control, tx, crashes, acked>>

RNext ==
    \/ Run
    \/ ProcessCrash
    \/ PowerLoss
    \/ Open
    \/ Scan
    \/ CutTornTail
    \/ FlushCut
    \/ Opened

RSpec == RInit /\ [][RNext]_rvars

-----------------------------------------------------------------------------
(* Strict durability: every version whose commit() returned is there after *)
(* every restart, whatever the crash interrupted, recovery included        *)
(* (journal::append, snapshot_store::save, journal::reset and recover).    *)
AckedDurable ==
    mode = "up" => \A n \in Names : acked[n] <= roots[n].version

(* After a restart too, each root's locator designates the bytes of the    *)
(* version it carries.                                                     *)
RecoveredContent == mode = "up" => LocatorsResolve

(* Recovery from a crash is atomic: the reopened heap has all published    *)
(* batches and either the whole batch in doubt or nothing of it.  (A       *)
(* second crash may take back a batch that the first recovery found:       *)
(* RecoveryStable.)                                                        *)
RecoverAtomically ==
    mode = "scan" /\ mode' = "up" /\ crashes = 1 =>
          \/ \A n \in Names : roots'[n].version = Len(hist[n])
          \/ \A n \in Names : roots'[n].version =
                  IF n \in DOMAIN doubt THEN Len(hist[n]) + 1
                                        ELSE Len(hist[n])

(* ... in every behaviour of the specification.                            *)
AtomicRecovery == [][RecoverAtomically]_rvars

(* Recovery is stable: what one recovery has exposed to the application is *)
(* there after every later restart ("make repeated recovery idempotent").  *)
RecoveryStable ==
    [][mode = "scan" /\ mode' = "up" =>
          \A n \in Names : roots'[n].version >= Len(hist[n])]_rvars

(* Files that only crashes have interrupted are never taken for corrupt:   *)
(* journal::recover ignores an incomplete final transaction.               *)
OpenAccepted == mode # "corrupt"
=============================================================================

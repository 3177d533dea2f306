-------------------------- MODULE HeapStateProofs ---------------------------
(***************************************************************************)
(* Proofs about HeapState, for every set of names, payloads and threads,   *)
(* both durability modes and any set of failing storage calls.             *)
(***************************************************************************)
EXTENDS HeapState, FiniteSetTheorems, SequenceTheorems, TLAPS

-----------------------------------------------------------------------------
(* Journal: the batch of a transaction is a sequence of records, and a     *)
(* partial write leaves one too.                                           *)

(* CommitOrder enumerates exactly as many names as are dirty.              *)
LEMMA OrderType ==
    ASSUME NEW work \in [Names -> Work], NEW order \in CommitOrder(work)
    PROVE  /\ order \in Seq(Names)
           /\ Len(order) = Cardinality(Dirty(work))
           /\ Cardinality(Dirty(work)) \in Nat
           /\ \A i \in 1 .. Len(order) : order[i] \in Dirty(work)
<1>1. Dirty(work) \subseteq Names /\ IsFiniteSet(Dirty(work))
  BY NamesAssumption, FS_Subset DEF Dirty
<1>2. Cardinality(Dirty(work)) \in Nat
  BY <1>1, FS_CardinalityType
<1>3. order \in [1 .. Cardinality(Dirty(work)) -> Dirty(work)]
  BY DEF CommitOrder
<1> QED
  BY <1>1, <1>2, <1>3

LEMMA BatchType ==
    ASSUME NEW id \in Nat, NEW seq \in Nat, NEW work \in [Names -> Work],
           NEW order \in Seq(Names)
    PROVE  /\ Batch(id, seq, order, work) \in Seq(Record)
           /\ Len(Batch(id, seq, order, work)) = Len(order) + 2
<1> DEFINE batch == Batch(id, seq, order, work)
<1>1. Len(order) \in Nat
  OBVIOUS
<1>2. ASSUME NEW i \in 1 .. Len(order) + 2
      PROVE  batch[i] \in Record
  <2>1. CASE i = 1
    BY <2>1, <1>1 DEF Batch, Record, BeginRecord
  <2>2. CASE i = Len(order) + 2
    BY <2>2, <1>1 DEF Batch, Record, CommitRecord
  <2>3. CASE i # 1 /\ i # Len(order) + 2
    <3>1. i - 1 \in 1 .. Len(order)
      BY <2>3, <1>1
    <3>2. order[i - 1] \in Names
      BY <3>1
    <3>3. work[order[i - 1]] \in Work
      BY <3>2
    <3> QED
      BY <2>3, <3>2, <3>3, <1>1 DEF Batch, Record, UpdateRecord, Work, Bytes
  <2> QED
    BY <2>1, <2>2, <2>3
<1>3. batch \in [1 .. Len(order) + 2 -> Record]
  BY <1>1, <1>2 DEF Batch
<1> QED
  BY <1>1, <1>3

LEMMA LocationsType ==
    ASSUME NEW w \in Seq(Record), NEW work \in [Names -> Work],
           NEW order \in Seq(Names)
    PROVE  /\ Locations(w, order, work) \in Seq(Update)
           /\ Len(Locations(w, order, work)) = Len(order)
<1>1. Len(order) \in Nat /\ Len(w) \in Nat
  OBVIOUS
<1>2. ASSUME NEW i \in 1 .. Len(order)
      PROVE  Locations(w, order, work)[i] \in Update
  <2>1. order[i] \in Names /\ work[order[i]] \in Work
    OBVIOUS
  <2>2. work[order[i]].data \in Seq(Nat)
    BY <2>1 DEF Work, Bytes
  <2> QED
    BY <2>1, <2>2, <1>1
    DEF Locations, JournalLoc, Crc32c, Update, Loc, Bytes
<1>3. Locations(w, order, work) \in [1 .. Len(order) -> Update]
  BY <1>1, <1>2 DEF Locations
<1> QED
  BY <1>1, <1>3

LEMMA PartialType ==
    ASSUME NEW batch \in Seq(Record), NEW part \in PartialBatches(batch)
    PROVE  part \in Seq(Record)
<1>1. PICK k \in 0 .. Len(batch) - 1 :
        part = SubSeq(batch, 1, k) \/ part = Append(SubSeq(batch, 1, k), Torn)
  BY DEF PartialBatches
<1>2. SubSeq(batch, 1, k) \in Seq(Record)
  BY SubSeqProperties
<1>3. Torn \in Record
  BY DEF Record
<1> QED
  BY <1>1, <1>2, <1>3

-----------------------------------------------------------------------------
(* Snapshot: offsets are natural numbers, and payload areas of different   *)
(* roots do not overlap.                                                   *)

LEMMA PresentFinite ==
    ASSUME NEW r
    PROVE  Present(r) \subseteq Names /\ IsFiniteSet(Present(r))
  BY NamesAssumption, FS_Subset DEF Present

LEMMA CellsFinite ==
    ASSUME NEW r \in [Names -> RootRecord], NEW names \in SUBSET Names
    PROVE  /\ IsFiniteSet(PayloadCells(r, names))
           /\ Cardinality(PayloadCells(r, names)) \in Nat
<1> DEFINE cells == [n \in names |-> {n} \X (1 .. r[n].payload.size)]
           all == {cells[n] : n \in names}
<1>1. IsFiniteSet(names)
  BY NamesAssumption, FS_Subset
<1>2. ASSUME NEW n \in names
      PROVE  IsFiniteSet(cells[n])
  <2>1. r[n].payload.size \in Nat
    BY DEF RootRecord, Loc
  <2>2. IsFiniteSet(1 .. r[n].payload.size)
    BY <2>1, FS_Interval
  <2>3. IsFiniteSet({n})
    BY FS_Singleton
  <2> QED
    BY <2>2, <2>3, FS_Product
<1>3. cells \in Surjection(names, all)
  BY DEF Surjection
<1>4. IsFiniteSet(all)
  BY <1>1, <1>3, FS_Surjection DEF ExistsSurjection
<1>5. IsFiniteSet(UNION all)
  BY <1>2, <1>4, FS_UNION
<1>6. UNION all = PayloadCells(r, names)
  BY DEF PayloadCells
<1> QED
  BY <1>5, <1>6, FS_CardinalityType

LEMMA OffsetType ==
    ASSUME NEW r \in [Names -> RootRecord], NEW n \in Names
    PROVE  SavedAt(r, n) \in Nat /\ DataBase(r) \in Nat
<1>1. Cardinality(Present(r)) \in Nat
  BY PresentFinite, FS_CardinalityType
<1>2. RelativeOffset(r, n) \in Nat
  <2>1. {m \in Present(r) : m < n} \in SUBSET Names
    BY PresentFinite
  <2> QED
    BY <2>1, CellsFinite DEF RelativeOffset
<1>3. DataBase(r) \in Nat
  BY <1>1, LayoutAssumption DEF DataBase
<1> QED
  BY <1>2, <1>3 DEF SavedAt

LEMMA SavedRootsType ==
    ASSUME NEW r \in [Names -> RootRecord]
    PROVE  SavedRoots(r) \in [Names -> RootRecord]
<1> SUFFICES ASSUME NEW n \in Names
             PROVE  SavedRoots(r)[n] \in RootRecord
  BY DEF SavedRoots
<1>1. SavedAt(r, n) \in Nat
  BY OffsetType
<1>2. NoRoot \in RootRecord
  BY DEF NoRoot, RootRecord, Loc, Bytes
<1> QED
  BY <1>1, <1>2 DEF SavedRoots, RootRecord, Loc

LEMMA SavedFileType ==
    ASSUME NEW r \in [Names -> RootRecord], NEW seq \in Nat,
           NEW copy,
           \A n \in Present(r) : /\ copy[n] \in Seq(Nat)
                                 /\ Len(copy[n]) = r[n].payload.size
    PROVE  SavedFile(r, seq, copy) \in File
<1> DEFINE size == DataBase(r) + Cardinality(PayloadCells(r, Present(r)))
<1>1. size \in Nat
  <2>1. Cardinality(PayloadCells(r, Present(r))) \in Nat
    BY PresentFinite, CellsFinite
  <2>2. Cardinality(Present(r)) \in Nat
    BY PresentFinite, FS_CardinalityType
  <2> QED
    BY <2>1, <2>2, LayoutAssumption DEF DataBase
<1>2. ASSUME NEW o \in 1 .. size
      PROVE  SavedData(r, copy)[o] \in Nat
  <2> DEFINE owners == {n \in Present(r) :
                          /\ SavedAt(r, n) < o
                          /\ o <= SavedAt(r, n) + r[n].payload.size}
             n == CHOOSE m \in owners : TRUE
  <2>1. CASE owners = {}
    BY <2>1 DEF SavedData, IndexByte
  <2>2. CASE owners # {}
    <3>1. n \in owners
      BY <2>2
    <3>2. n \in Names /\ SavedAt(r, n) \in Nat /\ r[n].payload.size \in Nat
      BY <3>1, PresentFinite, OffsetType DEF RootRecord, Loc
    <3>3. o - SavedAt(r, n) \in 1 .. Len(copy[n])
      BY <3>1, <3>2, <1>1
    <3>4. copy[n][o - SavedAt(r, n)] \in Nat
      BY <3>1, <3>3
    <3>5. SavedData(r, copy)[o] = copy[n][o - SavedAt(r, n)]
      BY <2>2 DEF SavedData
    <3> QED
      BY <3>4, <3>5
  <2> QED
    BY <2>1, <2>2
<1>3. SavedData(r, copy) \in [1 .. size -> Nat]
  BY <1>2 DEF SavedData
<1>4. SavedData(r, copy) \in Bytes
  BY <1>1, <1>3 DEF Bytes
<1> QED
  BY <1>4, SavedRootsType DEF SavedFile, File

-----------------------------------------------------------------------------
(* Reads and cache operations stay in their types.                         *)

LEMMA PayloadBytesType ==
    ASSUME TypeOK, NEW where \in Loc, PayloadReadable(where)
    PROVE  /\ PayloadBytes(where) \in Seq(Nat)
           /\ Len(PayloadBytes(where)) = where.size
<1>1. where.at \in Nat /\ where.size \in Nat
  BY DEF Loc
<1>2. CASE where.kind = "snapshot"
  <2>1. snap.data \in Seq(Nat) /\ Len(snap.data) \in Nat
    BY DEF TypeOK, File, Bytes
  <2>2. where.at + where.size <= Len(snap.data)
    BY <1>2 DEF PayloadReadable, SnapshotHas
  <2>3. \A i \in where.at + 1 .. where.at + where.size : snap.data[i] \in Nat
    BY <1>1, <2>1, <2>2
  <2>4. /\ SubSeq(snap.data, where.at + 1, where.at + where.size) \in Seq(Nat)
        /\ Len(SubSeq(snap.data, where.at + 1, where.at + where.size))
             = where.size
    BY <1>1, <2>3, SubSeqProperties
  <2> QED
    BY <1>2, <2>4 DEF PayloadBytes, SnapshotRead
<1>3. CASE where.kind # "snapshot"
  <2>1. /\ where.at \in 1 .. Len(wal)
        /\ wal[where.at].type = "root_update"
        /\ Len(wal[where.at].payload) = where.size
    BY <1>3 DEF PayloadReadable, JournalHas
  <2>2. wal[where.at] \in Record
    BY <2>1 DEF TypeOK
  <2>3. wal[where.at] \in UpdateRecord
    BY <2>1, <2>2 DEF Record, BeginRecord, UpdateRecord, CommitRecord, Torn
  <2> QED
    BY <1>3, <2>1, <2>3 DEF PayloadBytes, JournalRead, UpdateRecord, Bytes
<1> QED
  BY <1>2, <1>3

LEMMA PutType ==
    ASSUME NEW c \in [Names -> Entry], NEW n \in Names, NEW v \in Nat,
           NEW p \in Seq(Nat), NEW d \in AfterPut(c, n, v, p)
    PROVE  d \in [Names -> Entry]
<1>1. [version |-> v, payload |-> p] \in Entry /\ NoEntry \in Entry
  BY DEF Entry, NoEntry, Bytes
<1>2. CASE d = c
  BY <1>2
<1>3. CASE d # c
  <2>1. PICK kept \in SUBSET Names :
          d = [m \in Names |->
                 IF m = n THEN [version |-> v, payload |-> p]
                 ELSE IF m \in kept THEN c[m] ELSE NoEntry]
    BY <1>3 DEF AfterPut
  <2> QED
    BY <1>1, <2>1
<1> QED
  BY <1>2, <1>3

LEMMA GetType ==
    ASSUME NEW c \in [Names -> Entry], NEW n \in Names, NEW v \in Nat
    PROVE  AfterGet(c, n, v) \in [Names -> Entry]
  BY DEF AfterGet, Entry, NoEntry, Bytes

LEMMA Initials ==
    /\ NoRoot \in RootRecord
    /\ NoRoots \in [Names -> RootRecord]
    /\ EmptyFile \in File
    /\ EmptyCache \in [Names -> Entry]
    /\ NoCall \in Call
    /\ NoTx \in Transaction
<1>1. NoRoot \in RootRecord
  BY DEF NoRoot, RootRecord, Loc, Bytes
<1>2. NoRoots \in [Names -> RootRecord]
  BY <1>1 DEF NoRoots
<1>3. EmptyFile \in File
  BY <1>2 DEF EmptyFile, File, Bytes
<1>4. EmptyCache \in [Names -> Entry]
  BY DEF EmptyCache, NoEntry, Entry, Bytes
<1>5. NoCall \in Call
  BY <1>1 DEF NoCall, Call
<1>6. NoTx \in Transaction
  BY DEF NoTx, NoWork, WorkingRoot, Transaction, Work, Bytes
<1> QED
  BY <1>1, <1>2, <1>3, <1>4, <1>5, <1>6

-----------------------------------------------------------------------------
(* TypeOK alone is not inductive: a load indexes the roots with the name   *)
(* of its call, and the publication loop takes the head of its list.       *)
CallOK ==
    \A t \in Threads :
        /\ pc[t] \in {"probe", "miss", "fetch"} => call[t].name \in Names
        /\ pc[t] \in {"commit", "append"} => Dirty(tx[t].work) # {}
        /\ pc[t] \in {"barrier", "publish"} => call[t].todo # << >>

TypeInv == TypeOK /\ CallOK

LEMMA TypeInit == Init => TypeInv
<1> SUFFICES ASSUME Init PROVE TypeInv
  OBVIOUS
<1>1. TypeOK
  <2>1. /\ wal \in Seq(Record) /\ walDisk \in Seq(Record)
        /\ snap \in File /\ snapDisk \in File /\ tmp \in File
    BY Initials DEF Init
  <2>2. /\ roots \in [Names -> RootRecord] /\ cache \in [Names -> Entry]
        /\ hist \in [Names -> Seq(Version)]
    BY Initials DEF Init
  <2>3. /\ poisoned \in BOOLEAN /\ closed \in BOOLEAN
        /\ lastSeq \in Nat /\ nextTx \in Nat
    BY DEF Init
  <2>4. /\ mutex \in Threads \cup {NoThread}
        /\ pc \in [Threads -> Labels]
        /\ call \in [Threads -> Call]
        /\ tx \in [Threads -> Transaction]
    BY Initials DEF Init, Labels
  <2> QED
    BY <2>1, <2>2, <2>3, <2>4 DEF TypeOK
<1>2. CallOK
  BY DEF Init, CallOK
<1> QED
  BY <1>1, <1>2 DEF TypeInv

(* The steps that only move a thread out of its call.                      *)
LEMMA LeaveType ==
    ASSUME TypeInv, NEW t \in Threads, Leave(t)
    PROVE  /\ mutex' \in Threads \cup {NoThread}
           /\ pc' \in [Threads -> Labels]
           /\ call' \in [Threads -> Call]
           /\ pc'[t] = "idle"
           /\ \A u \in Threads \ {t} : pc'[u] = pc[u] /\ call'[u] = call[u]
  BY Initials DEF TypeInv, TypeOK, Leave, Goto, Labels

LEMMA ThrowType ==
    ASSUME TypeInv, NEW t \in Threads, Throw(t)
    PROVE  TypeInv'
<1>1. /\ Leave(t)
      /\ UNCHANGED <<storage, index, flags, tx, hist>>
  BY DEF Throw
<1>2. TypeOK'
  BY <1>1, LeaveType DEF TypeInv, TypeOK, storage, index, flags
<1>3. CallOK'
  BY <1>1, LeaveType DEF TypeInv, CallOK, TypeOK
<1> QED
  BY <1>2, <1>3 DEF TypeInv

LEMMA GotoType ==
    ASSUME TypeInv, NEW t \in Threads, NEW label \in Labels, Goto(t, label)
    PROVE  /\ pc' \in [Threads -> Labels]
           /\ pc'[t] = label
           /\ \A u \in Threads \ {t} : pc'[u] = pc[u]
  BY DEF TypeInv, TypeOK, Goto

LEMMA WorkType ==
    ASSUME TypeInv, NEW t \in Threads
    PROVE  /\ tx[t].work \in [Names -> Work] /\ tx[t].id \in Nat
           /\ IsFiniteSet(Loaded(tx[t].work))
           /\ Cardinality(Loaded(tx[t].work)) \in Nat
<1>1. tx[t] \in Transaction
  BY DEF TypeInv, TypeOK
<1>2. Loaded(tx[t].work) \subseteq Names
  BY DEF Loaded
<1> QED
  BY <1>1, <1>2, NamesAssumption, FS_Subset, FS_CardinalityType
  DEF Transaction

(* Delivering a loaded root keeps the transaction well typed.              *)
LEMMA DeliverType ==
    ASSUME TypeInv, NEW t \in Threads, NEW n \in Names, NEW version \in Nat,
           NEW bytes, NEW isNew \in BOOLEAN,
           Deliver(t, n, version, bytes, isNew)
    PROVE  /\ tx' \in [Threads -> Transaction]
           /\ \A u \in Threads \ {t} : tx'[u] = tx[u]
<1>1. CASE bytes \in Payloads
  <2> DEFINE w == WorkingRoot(Cardinality(Loaded(tx[t].work)) + 1,
                              version, isNew, bytes)
  <2>1. w \in Work
    BY <1>1, WorkType, PayloadsAssumption DEF WorkingRoot, Work, Bytes
  <2>2. tx' = [tx EXCEPT ![t].work[n] = w]
    BY <1>1 DEF Deliver
  <2> HIDE DEF w
  <2>3. tx[t] \in Transaction /\ tx \in [Threads -> Transaction]
    BY DEF TypeInv, TypeOK
  <2>4. [tx[t] EXCEPT !.work[n] = w] \in Transaction
    BY <2>1, <2>3 DEF Transaction
  <2> QED
    BY <2>2, <2>3, <2>4
<1>2. CASE bytes \notin Payloads
  BY <1>2 DEF Deliver, TypeInv, TypeOK
<1> QED
  BY <1>1, <1>2

(* Ending a transaction, as Return and Abort do.                           *)
LEMMA EndType ==
    ASSUME TypeInv, NEW t \in Threads
    PROVE  [tx EXCEPT ![t] = NoTx] \in [Threads -> Transaction]
  BY Initials DEF TypeInv, TypeOK

LEMMA ReturnType ==
    ASSUME TypeInv, NEW t \in Threads, Return(t)
    PROVE  /\ mutex' \in Threads \cup {NoThread}
           /\ pc' \in [Threads -> Labels]
           /\ call' \in [Threads -> Call]
           /\ tx' \in [Threads -> Transaction]
           /\ pc'[t] = "idle"
           /\ \A u \in Threads \ {t} : /\ pc'[u] = pc[u]
                                       /\ call'[u] = call[u]
                                       /\ tx'[u] = tx[u]
<1>1. Leave(t) /\ (tx' = tx \/ tx' = [tx EXCEPT ![t] = NoTx])
  BY DEF Return
<1>2. /\ tx' \in [Threads -> Transaction]
      /\ \A u \in Threads \ {t} : tx'[u] = tx[u]
  BY <1>1, EndType DEF TypeInv, TypeOK
<1> QED
  BY <1>1, <1>2, LeaveType

-----------------------------------------------------------------------------
(* The type invariant, one lemma per group of actions.                     *)

(* Steps of a transaction outside calls.                                   *)
LEMMA ApplicationType ==
    ASSUME TypeInv, NEW t \in Threads, Application(t)
    PROVE  TypeInv'
<1> USE DEF TypeInv
<1>1. CASE Begin(t)
  <2>1. [id |-> nextTx, active |-> TRUE, work |-> NoTx.work] \in Transaction
    BY Initials DEF TypeOK, Transaction
  <2>2. tx' \in [Threads -> Transaction]
    BY <1>1, <2>1 DEF Begin, TypeOK
  <2>3. TypeOK'
    BY <1>1, <2>2 DEF Begin, TypeOK, storage, index, control
  <2>4. CallOK'
    BY <1>1 DEF Begin, CallOK, control, TypeOK
  <2> QED
    BY <2>3, <2>4
<1>2. ASSUME NEW n \in Names, Lookup(t, n)
      PROVE  TypeInv'
  <2>1. CASE roots[n].version = 0
    <3>1. Deliver(t, n, 0, NullPayload, TRUE)
      BY <1>2, <2>1 DEF Lookup
    <3>2. Leave(t)
      BY <3>1 DEF Deliver
    <3>3. /\ tx' \in [Threads -> Transaction]
          /\ \A u \in Threads \ {t} : tx'[u] = tx[u]
      BY <3>1, DeliverType
    <3>4. /\ mutex' \in Threads \cup {NoThread}
          /\ pc' \in [Threads -> Labels]
          /\ call' \in [Threads -> Call]
      BY <3>2, LeaveType
    <3>5. TypeOK'
      BY <1>2, <3>3, <3>4 DEF Lookup, TypeOK, storage, index, flags
    <3>6. CallOK'
      BY <3>2, <3>3, LeaveType DEF CallOK
    <3> QED
      BY <3>5, <3>6
  <2>2. CASE roots[n].version # 0
    <3>1. /\ Goto(t, "probe")
          /\ call' = [call EXCEPT ![t] =
                         [op |-> "root", name |-> n, record |-> roots[n],
                          todo |-> << >>]]
          /\ UNCHANGED <<mutex, tx>>
      BY <1>2, <2>2 DEF Lookup
    <3>2. [op |-> "root", name |-> n, record |-> roots[n], todo |-> << >>]
             \in Call
      BY NamesAssumption DEF TypeOK, Call
    <3>3. call' \in [Threads -> Call]
      BY <3>1, <3>2 DEF TypeOK
    <3>4. "probe" \in Labels
      BY DEF Labels
    <3>5. TypeOK'
      BY <1>2, <3>1, <3>3, <3>4, GotoType
      DEF Lookup, TypeOK, storage, index, flags
    <3>6. /\ call'[t].name = n /\ pc'[t] = "probe"
          /\ \A u \in Threads \ {t} : /\ pc'[u] = pc[u]
                                      /\ call'[u] = call[u]
                                      /\ tx'[u] = tx[u]
      BY <3>1, <3>4, GotoType DEF TypeOK
    <3>7. CallOK'
      BY <3>6 DEF CallOK
    <3> QED
      BY <3>5, <3>7
  <2> QED
    BY <2>1, <2>2
<1>3. ASSUME NEW n \in Names, NEW p \in Payloads, Mutate(t, n, p)
      PROVE  TypeInv'
  <2> DEFINE w == WorkingRoot(tx[t].work[n].token, tx[t].work[n].expected,
                              TRUE, p)
  <2>1. w \in Work
    BY WorkType, PayloadsAssumption DEF WorkingRoot, Work, Bytes
  <2>2. tx' = [tx EXCEPT ![t].work[n] = w]
    BY <1>3 DEF Mutate
  <2> HIDE DEF w
  <2>3. [tx[t] EXCEPT !.work[n] = w] \in Transaction
    BY <2>1 DEF Transaction, TypeOK
  <2>4. tx' \in [Threads -> Transaction]
    BY <2>2, <2>3 DEF TypeOK
  <2>5. TypeOK'
    BY <1>3, <2>4 DEF Mutate, TypeOK, storage, index, flags, control
  <2>6. CallOK'
    BY <1>3, <2>2 DEF Mutate, CallOK, control, TypeOK
  <2> QED
    BY <2>5, <2>6
<1>4. CASE Abort(t) \/ CommitClean(t)
  <2>1. /\ pc[t] = "idle"
        /\ tx' = [tx EXCEPT ![t] = NoTx]
        /\ UNCHANGED <<storage, index, flags, control, hist>>
    BY <1>4 DEF Abort, CommitClean
  <2>2. TypeOK'
    BY <2>1, EndType DEF TypeOK, storage, index, flags, control
  <2>3. CallOK'
    BY <2>1 DEF CallOK, control, TypeOK
  <2> QED
    BY <2>2, <2>3
<1>5. CASE CommitCall(t)
  <2>1. /\ Goto(t, "commit") /\ "commit" \in Labels
        /\ call' = [call EXCEPT ![t].op = "commit"]
        /\ Dirty(tx[t].work) # {}
        /\ UNCHANGED <<storage, index, flags, mutex, tx, hist>>
    BY <1>5 DEF CommitCall, Labels
  <2>2. call' \in [Threads -> Call]
    BY <2>1 DEF TypeOK, Call
  <2>3. TypeOK'
    BY <2>1, <2>2, GotoType DEF TypeOK, storage, index, flags
  <2>4. CallOK'
    BY <2>1, GotoType DEF CallOK, TypeOK
  <2> QED
    BY <2>3, <2>4
<1>6. CASE CheckpointCall(t)
  <2>1. /\ Goto(t, "checkpoint") /\ "checkpoint" \in Labels
        /\ call' = [call EXCEPT ![t].op = "checkpoint"]
        /\ UNCHANGED <<storage, index, flags, mutex, tx, hist>>
    BY <1>6 DEF CheckpointCall, Labels
  <2>2. call' \in [Threads -> Call]
    BY <2>1 DEF TypeOK, Call
  <2>3. TypeOK'
    BY <2>1, <2>2, GotoType DEF TypeOK, storage, index, flags
  <2>4. CallOK'
    BY <2>1, GotoType DEF CallOK, TypeOK
  <2> QED
    BY <2>3, <2>4
<1> QED
  BY <1>1, <1>2, <1>3, <1>4, <1>5, <1>6 DEF Application

(* Steps of a load.                                                        *)
LEMMA LoadType ==
    ASSUME TypeInv, NEW t \in Threads, LoadStep(t)
    PROVE  TypeInv'
<1> USE DEF TypeInv
<1>1. CASE Probe(t)
  <2> DEFINE n == call[t].name
             version == call[t].record.version
  <2>1. n \in Names /\ version \in Nat
    BY <1>1 DEF Probe, CallOK, TypeOK, Call, RootRecord
  <2>2. cache' \in [Names -> Entry]
    BY <1>1, <2>1, GetType DEF Probe, TypeOK
  <2>3. CASE Hit(cache, n, version)
    <3>1. Deliver(t, n, version, cache[n].payload, FALSE) /\ Leave(t)
      BY <1>1, <2>3 DEF Probe, Deliver
    <3>2. /\ tx' \in [Threads -> Transaction]
          /\ \A u \in Threads \ {t} : tx'[u] = tx[u]
      BY <2>1, <3>1, DeliverType
    <3>3. /\ mutex' \in Threads \cup {NoThread}
          /\ pc' \in [Threads -> Labels]
          /\ call' \in [Threads -> Call]
      BY <3>1, LeaveType
    <3>4. TypeOK'
      BY <1>1, <2>2, <3>2, <3>3 DEF Probe, TypeOK, storage, flags
    <3>5. CallOK'
      BY <3>1, <3>2, LeaveType DEF CallOK
    <3> QED
      BY <3>4, <3>5
  <2>4. CASE ~ Hit(cache, n, version)
    <3>1. Goto(t, "miss") /\ "miss" \in Labels /\ UNCHANGED <<mutex, call, tx>>
      BY <1>1, <2>4 DEF Probe, Labels
    <3>2. TypeOK'
      BY <1>1, <2>2, <3>1, GotoType DEF Probe, TypeOK, storage, flags
    <3>3. CallOK'
      BY <2>1, <3>1, GotoType DEF CallOK
    <3> QED
      BY <3>2, <3>3
  <2> QED
    BY <2>3, <2>4
<1>2. CASE Miss(t)
  <2>1. call[t].name \in Names
    BY <1>2 DEF Miss, CallOK
  <2>2. /\ Goto(t, "fetch") /\ "fetch" \in Labels /\ mutex' = t
        /\ call' = [call EXCEPT ![t].record = roots[call[t].name]]
        /\ UNCHANGED <<storage, index, flags, tx, hist>>
    BY <1>2 DEF Miss, Acquire, Labels, HoldsCommitMutex
  <2>3. call' \in [Threads -> Call] /\ call'[t].name = call[t].name
        /\ \A u \in Threads \ {t} : call'[u] = call[u]
    BY <2>1, <2>2 DEF TypeOK, Call
  <2>4. TypeOK'
    BY <2>2, <2>3, GotoType DEF TypeOK, storage, index, flags
  <2>5. CallOK'
    BY <2>1, <2>2, <2>3, GotoType DEF CallOK
  <2> QED
    BY <2>4, <2>5
<1>3. CASE Fetch(t)
  <2> DEFINE n == call[t].name
             version == call[t].record.version
             bytes == PayloadBytes(call[t].record.payload)
  <2>1. /\ n \in Names /\ version \in Nat
        /\ call[t].record.payload \in Loc
    BY <1>3 DEF Fetch, CallOK, TypeOK, Call, RootRecord
  <2>2. bytes \in Seq(Nat)
    BY <1>3, <2>1, PayloadBytesType DEF Fetch, PayloadLoads
  <2>3. /\ cache' \in AfterPut(cache, n, version, bytes)
        /\ Deliver(t, n, version, bytes, FALSE) /\ Leave(t)
        /\ UNCHANGED <<storage, roots, lastSeq, flags, hist>>
    BY <1>3 DEF Fetch, Deliver
  <2> HIDE DEF n, version, bytes
  <2>4. cache' \in [Names -> Entry]
    BY <2>1, <2>2, <2>3, PutType DEF TypeOK
  <2>5. /\ tx' \in [Threads -> Transaction]
        /\ \A u \in Threads \ {t} : tx'[u] = tx[u]
    BY <2>1, <2>3, DeliverType
  <2>6. /\ mutex' \in Threads \cup {NoThread}
        /\ pc' \in [Threads -> Labels]
        /\ call' \in [Threads -> Call]
    BY <2>3, LeaveType
  <2>7. TypeOK'
    BY <2>3, <2>4, <2>5, <2>6 DEF TypeOK, storage, flags
  <2>8. CallOK'
    BY <2>3, <2>5, LeaveType DEF CallOK
  <2> QED
    BY <2>7, <2>8
<1>4. CASE FetchFails(t)
  BY <1>4, ThrowType DEF FetchFails
<1> QED
  BY <1>1, <1>2, <1>3, <1>4 DEF LoadStep

(* Steps that change nothing but the thread's control state.               *)
LEMMA ControlType ==
    ASSUME TypeInv, NEW t \in Threads, NEW label \in Labels,
           label \notin {"probe", "miss", "fetch", "commit", "barrier",
                         "publish"},
           label = "append" => Dirty(tx[t].work) # {},
           Goto(t, label), mutex' \in Threads \cup {NoThread}, call' = call,
           UNCHANGED <<index, flags, tx, hist>>,
           wal' \in Seq(Record), walDisk' \in Seq(Record),
           snap' \in File, snapDisk' \in File, tmp' \in File
    PROVE  TypeInv'
<1> USE DEF TypeInv
<1>1. TypeOK'
  BY GotoType DEF TypeOK, index, flags
<1>2. CallOK'
  BY GotoType DEF CallOK
<1> QED
  BY <1>1, <1>2

(* Steps of a commit.                                                      *)
LEMMA CommitType ==
    ASSUME TypeInv, NEW t \in Threads, CommitStep(t)
    PROVE  TypeInv'
<1> USE DEF TypeInv
<1>1. CASE CommitRefused(t)
  BY <1>1, ThrowType DEF CommitRefused
<1>2. CASE Validate(t)
  <2>1. /\ Goto(t, "append") /\ "append" \in Labels /\ mutex' = t
        /\ Dirty(tx[t].work) # {}
        /\ UNCHANGED <<storage, index, flags, call, tx, hist>>
    BY <1>2 DEF Validate, Acquire, Labels, HoldsCommitMutex, CallOK
  <2> QED
    BY <2>1, ControlType DEF TypeOK, storage
<1>3. CASE AppendBatch(t)
  <2>1. PICK order \in CommitOrder(tx[t].work) :
          /\ wal' = wal \o Batch(tx[t].id, lastSeq, order, tx[t].work)
          /\ lastSeq' = lastSeq + Len(order) + 2
          /\ call' = [call EXCEPT ![t].todo =
                                      Locations(wal, order, tx[t].work)]
    BY <1>3 DEF AppendBatch
  <2>2. /\ order \in Seq(Names) /\ Len(order) \in Nat
        /\ Len(order) = Cardinality(Dirty(tx[t].work))
    BY OrderType, WorkType
  <2>3. Len(order) # 0
    <3>1. Dirty(tx[t].work) # {} /\ IsFiniteSet(Dirty(tx[t].work))
      BY <1>3, NamesAssumption, FS_Subset DEF AppendBatch, CallOK, Dirty
    <3> QED
      BY <2>2, <3>1, FS_EmptySet
  <2>4. wal' \in Seq(Record) /\ lastSeq' \in Nat
    <3>1. Batch(tx[t].id, lastSeq, order, tx[t].work) \in Seq(Record)
      BY <2>2, BatchType, WorkType DEF TypeOK
    <3> QED
      BY <2>1, <2>2, <3>1 DEF TypeOK
  <2>5. /\ Locations(wal, order, tx[t].work) \in Seq(Update)
        /\ Locations(wal, order, tx[t].work) # << >>
    BY <2>2, <2>3, LocationsType, WorkType DEF TypeOK
  <2>6. /\ call' \in [Threads -> Call]
        /\ call'[t].todo # << >>
        /\ \A u \in Threads \ {t} : call'[u] = call[u]
    BY <2>1, <2>5 DEF TypeOK, Call
  <2>7. /\ \E label \in {"barrier", "publish"} : Goto(t, label)
        /\ {"barrier", "publish"} \subseteq Labels
        /\ UNCHANGED <<walDisk, snap, snapDisk, tmp, roots, cache, flags,
                       mutex, tx, hist>>
    BY <1>3 DEF AppendBatch, Labels, HoldsCommitMutex
  <2>8. TypeOK'
    BY <2>4, <2>6, <2>7, GotoType DEF TypeOK, flags
  <2>9. CallOK'
    BY <2>6, <2>7, GotoType DEF CallOK
  <2> QED
    BY <2>8, <2>9
<1>4. CASE AppendFails(t)
  <2>1. PICK order \in CommitOrder(tx[t].work) :
          /\ \E part \in PartialBatches(Batch(tx[t].id, lastSeq, order,
                                              tx[t].work)) :
                 wal' = wal \o part
          /\ lastSeq' = lastSeq + Len(order) + 2
    BY <1>4 DEF AppendFails
  <2>2. order \in Seq(Names) /\ Len(order) \in Nat
    BY OrderType, WorkType
  <2>3. Batch(tx[t].id, lastSeq, order, tx[t].work) \in Seq(Record)
    BY <2>2, BatchType, WorkType DEF TypeOK
  <2>4. wal' \in Seq(Record) /\ lastSeq' \in Nat
    BY <2>1, <2>2, <2>3, PartialType DEF TypeOK
  <2>5. /\ Leave(t) /\ poisoned' = TRUE
        /\ UNCHANGED <<walDisk, snap, snapDisk, tmp, roots, cache, closed,
                       nextTx, tx, hist>>
    BY <1>4 DEF AppendFails
  <2>6. TypeOK'
    BY <2>4, <2>5, LeaveType DEF TypeOK
  <2>7. CallOK'
    BY <2>5, LeaveType DEF CallOK
  <2> QED
    BY <2>6, <2>7
<1>5. CASE Barrier(t)
  <2>1. /\ Goto(t, "publish") /\ "publish" \in Labels
        /\ walDisk' = wal
        /\ UNCHANGED <<wal, snap, snapDisk, tmp, index, flags, mutex, call,
                       tx, hist>>
    BY <1>5 DEF Barrier, Labels, HoldsCommitMutex
  <2>2. TypeOK'
    BY <2>1, GotoType DEF TypeOK, index, flags
  <2>3. call[t].todo # << >>
    BY <1>5 DEF Barrier, CallOK
  <2>4. CallOK'
    BY <2>1, <2>3, GotoType DEF CallOK
  <2> QED
    BY <2>2, <2>4
<1>6. CASE BarrierFails(t)
  <2>1. /\ Leave(t) /\ poisoned' = TRUE
        /\ UNCHANGED <<storage, index, closed, nextTx, tx, hist>>
    BY <1>6 DEF BarrierFails
  <2>2. TypeOK'
    BY <2>1, LeaveType DEF TypeOK, storage, index
  <2>3. CallOK'
    BY <2>1, LeaveType DEF CallOK
  <2> QED
    BY <2>2, <2>3
<1>7. CASE Publish(t)
  <2> DEFINE todo == call[t].todo
             n == Head(todo).name
             work == tx[t].work[n]
             version == work.expected + 1
  <2>1. /\ todo \in Seq(Update) /\ todo # << >>
    BY <1>7 DEF Publish, CallOK, TypeOK, Call
  <2>2. Head(todo) \in Update /\ Tail(todo) \in Seq(Update)
        /\ (Len(todo) # 1 => Tail(todo) # << >>)
    <3> HIDE DEF todo
    <3>1. /\ Head(todo) \in Update
          /\ Tail(todo) \in Seq(Update)
          /\ Len(Tail(todo)) = Len(todo) - 1
      BY <2>1, HeadTailProperties
    <3>2. Len(todo) \in Nat
      BY <2>1
    <3>3. Len(todo) # 1 => Tail(todo) # << >>
      <4> DEFINE rest == Tail(todo)
      <4> HIDE DEF rest
      <4>1. rest = << >> => Len(rest) = 0
        OBVIOUS
      <4> QED
        BY <3>1, <3>2, <4>1 DEF rest
    <3> QED
      BY <3>1, <3>3
  <2>3. n \in Names /\ work \in Work
    BY <2>2, WorkType DEF Update
  <2>4. version \in Nat /\ work.data \in Seq(Nat)
    BY <2>3 DEF Work, Bytes
  <2>5. /\ roots' = [roots EXCEPT ![n] = [version |-> version,
                                          payload |-> Head(todo).loc]]
        /\ cache' \in AfterPut(cache, n, version, work.data)
        /\ hist' = [hist EXCEPT ![n] =
                       Append(@, [tx |-> tx[t].id, data |-> work.data])]
        /\ call' = [call EXCEPT ![t].todo = Tail(@)]
        /\ Goto(t, IF Len(todo) = 1 THEN "threshold" ELSE "publish")
        /\ UNCHANGED <<storage, lastSeq, flags, mutex, tx>>
    BY <1>7 DEF Publish
  <2> HIDE DEF n, work, version
  <2>6. roots' \in [Names -> RootRecord]
    BY <2>2, <2>3, <2>4, <2>5 DEF TypeOK, RootRecord, Update
  <2>7. cache' \in [Names -> Entry]
    BY <2>3, <2>4, <2>5, PutType DEF TypeOK
  <2>8. hist' \in [Names -> Seq(Version)]
    <3>1. [tx |-> tx[t].id, data |-> work.data] \in Version
      BY <2>4, WorkType DEF Version, Bytes
    <3> QED
      BY <2>3, <2>5, <3>1 DEF TypeOK
  <2>9. /\ call' \in [Threads -> Call]
        /\ call'[t].todo = Tail(todo)
        /\ \A u \in Threads \ {t} : call'[u] = call[u]
    BY <2>2, <2>5 DEF TypeOK, Call
  <2>10. /\ pc' \in [Threads -> Labels]
         /\ pc'[t] = IF Len(todo) = 1 THEN "threshold" ELSE "publish"
         /\ \A u \in Threads \ {t} : pc'[u] = pc[u]
    BY <2>5, GotoType DEF Labels, HoldsCommitMutex
  <2>11. TypeOK'
    BY <2>5, <2>6, <2>7, <2>8, <2>9, <2>10 DEF TypeOK, storage, flags
  <2>12. CallOK'
    BY <2>2, <2>5, <2>9, <2>10 DEF CallOK
  <2> QED
    BY <2>11, <2>12
<1>8. CASE Threshold(t)
  <2>1. CASE Len(wal) >= CheckpointRecords
    <3>1. /\ Goto(t, "save") /\ "save" \in Labels
          /\ UNCHANGED <<storage, index, flags, mutex, call, tx, hist>>
      BY <1>8, <2>1 DEF Threshold, Labels, HoldsCommitMutex
    <3> QED
      BY <3>1, ControlType DEF TypeOK, storage
  <2>2. CASE ~ (Len(wal) >= CheckpointRecords)
    <3>1. Return(t) /\ UNCHANGED <<storage, index, flags, hist>>
      BY <1>8, <2>2 DEF Threshold
    <3>2. TypeOK'
      BY <3>1, ReturnType DEF TypeOK, storage, index, flags
    <3>3. CallOK'
      BY <3>1, ReturnType DEF CallOK
    <3> QED
      BY <3>2, <3>3
  <2> QED
    BY <2>1, <2>2
<1> QED
  BY <1>1, <1>2, <1>3, <1>4, <1>5, <1>6, <1>7, <1>8 DEF CommitStep

(* Steps of a checkpoint.                                                  *)
LEMMA CheckpointType ==
    ASSUME TypeInv, NEW t \in Threads, CheckpointStep(t)
    PROVE  TypeInv'
<1> USE DEF TypeInv
<1>1. CASE \/ CheckpointRefused(t) \/ SaveFails(t) \/ FlushTmpFails(t)
           \/ AtomicReplaceFails(t) \/ SyncDirectoryFails(t)
           \/ TruncateFails(t) \/ SyncWalFails(t)
  BY <1>1, ThrowType
  DEF CheckpointRefused, SaveFails, FlushTmpFails, AtomicReplaceFails,
      SyncDirectoryFails, TruncateFails, SyncWalFails
<1>2. CASE CheckpointLocked(t)
  <2>1. /\ Goto(t, "save") /\ "save" \in Labels /\ mutex' = t
        /\ UNCHANGED <<storage, index, flags, call, tx, hist>>
    BY <1>2 DEF CheckpointLocked, Acquire, Labels, HoldsCommitMutex
  <2> QED
    BY <2>1, ControlType DEF TypeOK, storage
<1>3. CASE Save(t)
  <2> DEFINE copy == [n \in Present(roots) |->
                         PayloadBytes(roots[n].payload)]
  <2>1. ASSUME NEW n \in Present(roots)
        PROVE  /\ copy[n] \in Seq(Nat)
               /\ Len(copy[n]) = roots[n].payload.size
    <3>1. n \in Names /\ roots[n].payload \in Loc
      BY PresentFinite DEF TypeOK, RootRecord
    <3>2. PayloadReadable(roots[n].payload)
      BY <1>3 DEF Save, SaveReadable
    <3> QED
      BY <3>1, <3>2, PayloadBytesType
  <2>2. /\ tmp' = SavedFile(roots, lastSeq, copy)
        /\ \E label \in {"flush_tmp", "replace"} : Goto(t, label)
        /\ {"flush_tmp", "replace"} \subseteq Labels
        /\ UNCHANGED <<wal, walDisk, snap, snapDisk, index, flags, mutex,
                       call, tx, hist>>
    BY <1>3 DEF Save, Labels, HoldsCommitMutex
  <2> HIDE DEF copy
  <2>3. tmp' \in File
    BY <2>1, <2>2, SavedFileType DEF TypeOK
  <2> QED
    BY <2>2, <2>3, ControlType DEF TypeOK
<1>4. CASE FlushTmp(t)
  <2>1. /\ tmp' = [tmp EXCEPT !.flushed = TRUE]
        /\ Goto(t, "replace") /\ "replace" \in Labels
        /\ UNCHANGED <<wal, walDisk, snap, snapDisk, index, flags, mutex,
                       call, tx, hist>>
    BY <1>4 DEF FlushTmp, Labels, HoldsCommitMutex
  <2>2. tmp' \in File
    BY <2>1 DEF TypeOK, File
  <2> QED
    BY <2>1, <2>2, ControlType DEF TypeOK
<1>5. CASE AtomicReplace(t)
  <2>1. /\ snap' = tmp /\ tmp' = EmptyFile
        /\ \E label \in {"sync_dir", "install"} : Goto(t, label)
        /\ {"sync_dir", "install"} \subseteq Labels
        /\ UNCHANGED <<wal, walDisk, snapDisk, index, flags, mutex, call, tx,
                       hist>>
    BY <1>5 DEF AtomicReplace, Labels, HoldsCommitMutex
  <2> QED
    BY <2>1, Initials, ControlType DEF TypeOK
<1>6. CASE SyncDirectory(t)
  <2>1. /\ snapDisk' = snap
        /\ Goto(t, "install") /\ "install" \in Labels
        /\ UNCHANGED <<wal, walDisk, snap, tmp, index, flags, mutex, call, tx,
                       hist>>
    BY <1>6 DEF SyncDirectory, Labels, HoldsCommitMutex
  <2> QED
    BY <2>1, ControlType DEF TypeOK
<1>7. CASE Install(t)
  <2>1. /\ roots' = SavedRoots(roots)
        /\ Goto(t, "truncate") /\ "truncate" \in Labels
        /\ UNCHANGED <<storage, lastSeq, cache, flags, mutex, call, tx, hist>>
    BY <1>7 DEF Install, Labels, HoldsCommitMutex
  <2>2. TypeOK'
    BY <2>1, SavedRootsType, GotoType DEF TypeOK, storage, flags
  <2>3. CallOK'
    BY <2>1, GotoType DEF CallOK
  <2> QED
    BY <2>2, <2>3
<1>8. CASE Truncate(t)
  <2>1. CASE Strict
    <3>1. /\ wal' = << >> /\ Goto(t, "sync_wal") /\ "sync_wal" \in Labels
          /\ UNCHANGED <<walDisk, snap, snapDisk, tmp, index, flags, mutex,
                         call, tx, hist>>
      BY <1>8, <2>1 DEF Truncate, Labels, HoldsCommitMutex
    <3>2. wal' \in Seq(Record)
      BY <3>1
    <3> QED
      BY <3>1, <3>2, ControlType DEF TypeOK
  <2>2. CASE ~ Strict
    <3>1. /\ wal' = << >> /\ Return(t)
          /\ UNCHANGED <<walDisk, snap, snapDisk, tmp, index, flags, hist>>
      BY <1>8, <2>2 DEF Truncate
    <3>2. TypeOK'
      BY <3>1, ReturnType DEF TypeOK, index, flags
    <3>3. CallOK'
      BY <3>1, ReturnType DEF CallOK
    <3> QED
      BY <3>2, <3>3
  <2> QED
    BY <2>1, <2>2
<1>9. CASE SyncWal(t)
  <2>1. /\ walDisk' = wal /\ Return(t)
        /\ UNCHANGED <<wal, snap, snapDisk, tmp, index, flags, hist>>
    BY <1>9 DEF SyncWal
  <2>2. TypeOK'
    BY <2>1, ReturnType DEF TypeOK, index, flags
  <2>3. CallOK'
    BY <2>1, ReturnType DEF CallOK
  <2> QED
    BY <2>2, <2>3
<1> QED
  BY <1>1, <1>2, <1>3, <1>4, <1>5, <1>6, <1>7, <1>8, <1>9 DEF CheckpointStep

LEMMA TypeNext == TypeInv /\ [Next]_vars => TypeInv'
<1> SUFFICES ASSUME TypeInv, [Next]_vars
             PROVE  TypeInv'
  OBVIOUS
<1>1. CASE Close
  <2>1. TypeOK'
    BY <1>1 DEF Close, TypeInv, TypeOK, storage, index, control
  <2>2. CallOK'
    BY <1>1 DEF Close, TypeInv, CallOK, control
  <2> QED
    BY <2>1, <2>2 DEF TypeInv
<1>2. ASSUME NEW t \in Threads, Application(t) \/ CallStep(t)
      PROVE  TypeInv'
  BY <1>2, ApplicationType, LoadType, CommitType, CheckpointType DEF CallStep
<1>3. CASE UNCHANGED vars
  BY <1>3 DEF vars, TypeInv, TypeOK, CallOK, storage, index, flags, control
<1> QED
  BY <1>1, <1>2, <1>3 DEF Next

(* Every variable keeps its type in every behaviour of the heap, whatever  *)
(* the names, the threads, the durability mode and the failing calls.      *)
THEOREM TypeCorrect == Spec => []TypeOK
<1>1. TypeInv => TypeOK
  BY DEF TypeInv
<1> QED
  BY <1>1, TypeInit, TypeNext, PTL DEF Spec
=============================================================================

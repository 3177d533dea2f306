------------------------------ MODULE Journal -------------------------------
(***************************************************************************)
(* The write-ahead log (detail/journal.hpp): the records of a transaction, *)
(* payload reads through a journal locator, and one step of the recovery   *)
(* scan.  The file is a sequence of records; a record whose bytes are      *)
(* incomplete can only be the last one and is written Torn.                *)
(***************************************************************************)
EXTENDS Layout

BeginRecord == [type : {"begin"}, seq : Nat, tx : Nat]
UpdateRecord == [type : {"root_update"}, seq : Nat, tx : Nat, name : Names,
                 expected : Nat, version : Nat, payload : Bytes]
CommitRecord == [type : {"commit"}, seq : Nat, tx : Nat, count : Nat]
Torn == [type |-> "torn"]

Record == BeginRecord \cup UpdateRecord \cup CommitRecord \cup {Torn}

(* journal::append, up to the write: BEGIN, one ROOT_UPDATE for each name  *)
(* of `order`, COMMIT with the number of updates, numbered from seq + 1.   *)
(* `work` gives each name its expected version and serialized value.       *)
Batch(id, seq, order, work) ==
    [i \in 1 .. Len(order) + 2 |->
        IF i = 1 THEN [type |-> "begin", seq |-> seq + 1, tx |-> id]
        ELSE IF i = Len(order) + 2
             THEN [type |-> "commit", seq |-> seq + i, tx |-> id,
                   count |-> Len(order)]
             ELSE [type |-> "root_update", seq |-> seq + i, tx |-> id,
                   name |-> order[i - 1],
                   expected |-> work[order[i - 1]].expected,
                   version |-> work[order[i - 1]].expected + 1,
                   payload |-> work[order[i - 1]].data]]

(* Seeded fault for JournalLoc: the size leaves out two bytes.             *)
JournalLocShort(at, payload) ==
    [kind |-> "journal", at |-> at, size |-> Len(payload) - 2,
     sum |-> Crc32c(payload)]

(* A locator with the size and the checksum of the payload.                *)
JournalLoc(at, payload) ==
    [kind |-> "journal", at |-> at, size |-> Len(payload),
     sum |-> Crc32c(payload)]

(* Seeded fault for Locations: the BEGIN record is forgotten.              *)
LocationsShifted(wal, order, work) ==
    [i \in 1 .. Len(order) |->
        [name |-> order[i],
         loc |-> JournalLoc(Len(wal) + i, work[order[i]].data)]]

(* The locators append returns: update i of the batch is the record        *)
(* append_offset + 1 + i of the file.                                      *)
Locations(wal, order, work) ==
    [i \in 1 .. Len(order) |->
        [name |-> order[i],
         loc |-> JournalLoc(Len(wal) + 1 + i, work[order[i]].data)]]

(* journal::read: the bytes a journal locator designates; past the end of  *)
(* the file, or inside a record of another kind, there is no payload.      *)
JournalHas(wal, where) ==
    /\ where.at \in 1 .. Len(wal)
    /\ wal[where.at].type = "root_update"
    /\ Len(wal[where.at].payload) = where.size

JournalRead(wal, where) == wal[where.at].payload

-----------------------------------------------------------------------------
(* journal::recover, one record at a time.  `pos` is the next record,      *)
(* `base` the snapshot's sequence number and `last` the highest sequence   *)
(* number so far; pending[id] is the pending_transaction of an id, with    *)
(* the positions of its updates.                                           *)

NoPending == [began |-> FALSE, updates |-> << >>]

ScanStart(baseRoots, seq, ids) ==
    [pos |-> 1, roots |-> baseRoots, base |-> seq, last |-> seq,
     pending |-> [id \in ids |-> NoPending]]

(* The loop goes on until the end of the file or an incomplete record.     *)
AtRecord(scan, wal) ==
    /\ scan.pos <= Len(wal)
    /\ wal[scan.pos] # Torn

(* An update whose version the index already has is skipped.               *)
Pending(scan, wal, id) ==
    {wal[i] : i \in {scan.pending[id].updates[k] :
                        k \in DOMAIN scan.pending[id].updates}}

Fresh(scan, wal, id) ==
    {u \in Pending(scan, wal, id) : u.version > scan.roots[u.name].version}

(* Seeded fault for OutOfSequence: records the snapshot already covers are *)
(* not excepted.                                                           *)
OutOfSequenceStrictly(scan, record) == record.seq <= scan.last

(* corruption_error, by record type.                                       *)
OutOfSequence(scan, record) ==
    record.seq <= scan.last /\ record.seq > scan.base

Rejected(scan, wal) ==
    LET record == wal[scan.pos]
    IN  \/ OutOfSequence(scan, record)
        \/ /\ record.type = "root_update"
           /\ ~ scan.pending[record.tx].began
        \/ /\ record.type = "commit"
           /\ \/ ~ scan.pending[record.tx].began
              \/ record.count # Len(scan.pending[record.tx].updates)
              \/ \E u \in Fresh(scan, wal, record.tx) :
                     u.expected # scan.roots[u.name].version

(* Seeded fault for Applied: locators one record too far.                  *)
AppliedShifted(scan, wal, id) ==
    [n \in Names |->
        IF \E u \in Fresh(scan, wal, id) : u.name = n
        THEN LET k == CHOOSE k \in DOMAIN scan.pending[id].updates :
                          LET u == wal[scan.pending[id].updates[k]]
                          IN  u.name = n /\ u \in Fresh(scan, wal, id)
                 at == scan.pending[id].updates[k]
             IN  [version |-> wal[at].version,
                  payload |-> JournalLoc(at + 1, wal[at].payload)]
        ELSE scan.roots[n]]

(* COMMIT: the root index takes each fresh update, with its locator.       *)
Applied(scan, wal, id) ==
    [n \in Names |->
        IF \E u \in Fresh(scan, wal, id) : u.name = n
        THEN LET k == CHOOSE k \in DOMAIN scan.pending[id].updates :
                          LET u == wal[scan.pending[id].updates[k]]
                          IN  u.name = n /\ u \in Fresh(scan, wal, id)
                 at == scan.pending[id].updates[k]
             IN  [version |-> wal[at].version,
                  payload |-> JournalLoc(at, wal[at].payload)]
        ELSE scan.roots[n]]

(* Seeded fault for Scanned: a ROOT_UPDATE takes effect without its COMMIT.*)
ScannedEagerly(scan, wal) ==
    LET record == wal[scan.pos]
        counted == [scan EXCEPT !.pos = @ + 1, !.last = record.seq]
    IN  IF record.type = "root_update"
        THEN [counted EXCEPT !.roots[record.name] =
                 [version |-> record.version,
                  payload |-> JournalLoc(scan.pos, record.payload)]]
        ELSE [counted EXCEPT !.pending[record.tx].began = TRUE]

Scanned(scan, wal) ==
    LET record == wal[scan.pos]
        id == record.tx
        counted == [scan EXCEPT !.pos = @ + 1,
                                !.last = IF record.seq > @ THEN record.seq
                                                           ELSE @]
    IN  CASE record.type = "begin" ->
               [counted EXCEPT !.pending[id].began = TRUE]
          [] record.type = "root_update" ->
               [counted EXCEPT !.pending[id].updates = Append(@, scan.pos)]
          [] record.type = "commit" ->
               [counted EXCEPT !.roots = Applied(scan, wal, id),
                               !.pending[id] = NoPending]
=============================================================================

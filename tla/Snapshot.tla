------------------------------ MODULE Snapshot ------------------------------
(***************************************************************************)
(* The snapshot file (detail/snapshot.hpp): a header, an index with one    *)
(* entry per root in name order, and the payload area.  A file is modelled *)
(* byte by byte, because a locator of one snapshot generation may be used  *)
(* on the file of another; the bytes of header and index are IndexByte.    *)
(* A missing file and an empty one load the same way: no roots, sequence 0.*)
(***************************************************************************)
EXTENDS Layout

CONSTANTS HeaderSize,   \* bytes of the snapshot header
          EntrySize     \* bytes of one index entry

ASSUME LayoutAssumption == HeaderSize \in Nat /\ EntrySize \in Nat

IndexByte == 0

(* `flushed` says whether the contents have reached the device.            *)
File == [seq : Nat, index : [Names -> RootRecord], data : Bytes,
         flushed : BOOLEAN]

EmptyFile == [seq |-> 0, index |-> NoRoots, data |-> << >>, flushed |-> TRUE]

(* ordered_roots: a payload starts where the payloads of the present roots *)
(* with smaller names end.                                                 *)
PayloadCells(roots, names) ==
    UNION {{n} \X (1 .. roots[n].payload.size) : n \in names}

RelativeOffset(roots, n) ==
    Cardinality(PayloadCells(roots, {m \in Present(roots) : m < n}))

DataBase(roots) == HeaderSize + EntrySize * Cardinality(Present(roots))

SavedAt(roots, n) == DataBase(roots) + RelativeOffset(roots, n)

(* The roots save() returns, which is also what load() builds from the     *)
(* index: the same versions, sizes and checksums, relocated.               *)
SavedRoots(roots) ==
    [n \in Names |->
        IF n \in Present(roots)
        THEN [version |-> roots[n].version,
              payload |-> [kind |-> "snapshot", at |-> SavedAt(roots, n),
                           size |-> roots[n].payload.size,
                           sum |-> roots[n].payload.sum]]
        ELSE NoRoot]

(* The file save() writes: `copy` are the payload bytes it read through    *)
(* the old locators.                                                       *)
SavedData(roots, copy) ==
    [o \in 1 .. DataBase(roots)
                  + Cardinality(PayloadCells(roots, Present(roots))) |->
        LET owners == {n \in Present(roots) :
                          /\ SavedAt(roots, n) < o
                          /\ o <= SavedAt(roots, n) + roots[n].payload.size}
        IN  IF owners = {}
            THEN IndexByte
            ELSE LET n == CHOOSE m \in owners : TRUE
                 IN  copy[n][o - SavedAt(roots, n)]]

SavedFile(roots, seq, copy) ==
    [seq |-> seq, index |-> SavedRoots(roots),
     data |-> SavedData(roots, copy), flushed |-> FALSE]

(* snapshot_store::read, by offset in whatever file now has the name.      *)
SnapshotHas(file, where) == where.at + where.size <= Len(file.data)

SnapshotRead(file, where) ==
    SubSeq(file.data, where.at + 1, where.at + where.size)
=============================================================================

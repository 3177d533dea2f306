----------------------------- MODULE Integrity ------------------------------
(***************************************************************************)
(* heap::check_integrity beside a running heap (heap_state::integrity).    *)
(* The check takes no lock: it loads the snapshot index, opens the journal *)
(* a second time, scans the records that were there when the scan began,   *)
(* and reads every payload the scanned index designates.  Commits,         *)
(* failing appends and checkpoints go on between any two of its reads.     *)
(***************************************************************************)
EXTENDS HeapState

VARIABLES
    chk,      \* locals of integrity()
    report    \* the last integrity_report; "none" before the first one

ivars == <<vars, chk, report>>

(* `seen` are the records read so far, `size` the journal's length when    *)
(* the scan began, `todo` the roots whose payload is still to be read.     *)
(* History: `roots0` is the root index at the start of the check, and      *)
(* `moved` is set when a checkpoint replaces the snapshot or truncates     *)
(* the journal during the check.                                           *)
NoCheck == [step |-> "idle", scan |-> ScanStart(NoRoots, 0, {}),
            seen |-> << >>, size |-> 0, todo |-> {},
            roots0 |-> NoRoots, moved |-> FALSE]

(* A report has the number of roots found.  History: whether the check was *)
(* disturbed, and the roots it should have found at a higher version.      *)
NoReport == [verdict |-> "none", roots |-> 0, moved |-> FALSE, missed |-> {}]

Finish(verdict) ==
    /\ report' = [verdict |-> verdict,
                  roots |-> Cardinality(Present(chk.scan.roots)),
                  moved |-> chk.moved,
                  missed |-> {n \in Names : chk.scan.roots[n].version
                                               < chk.roots0[n].version}]
    /\ chk' = NoCheck

IInit == Init /\ chk = NoCheck /\ report = NoReport

(* snapshot->load(): one open file, so one generation of the snapshot.     *)
(* Bound: one check in a behaviour; checks keep nothing for the next one.  *)
LoadIndex ==
    /\ chk.step = "idle"
    /\ report = NoReport
    /\ chk' = [NoCheck EXCEPT
                  !.step = "open",
                  !.scan = ScanStart(snap.index, snap.seq, 1 .. MaxTx),
                  !.roots0 = roots]
    /\ UNCHANGED <<vars, report>>

(* The verifier opens heap.wal; recover() asks for its size once.          *)
OpenVerifier ==
    /\ chk.step = "open"
    /\ chk' = [chk EXCEPT !.step = "scan", !.size = Len(wal)]
    /\ UNCHANGED <<vars, report>>

Scanning == chk.step = "scan" /\ Len(chk.seen) < chk.size

(* A read past the end of a truncated file throws.  In a journal that was  *)
(* truncated and has grown again the offset may also be inside a record.   *)
ReadRecord ==
    /\ Scanning
    /\ Len(chk.seen) < Len(wal)
    /\ wal[Len(chk.seen) + 1] # Torn
    /\ LET seen == Append(chk.seen, wal[Len(chk.seen) + 1])
       IN  IF Rejected(chk.scan, seen)
           THEN Finish("failed")
           ELSE /\ chk' = [chk EXCEPT !.seen = seen,
                                      !.scan = Scanned(chk.scan, seen)]
                /\ UNCHANGED report
    /\ UNCHANGED vars

ReadFails ==
    /\ Scanning
    /\ Len(chk.seen) >= Len(wal) \/ chk.moved
    /\ Finish("failed")
    /\ UNCHANGED vars

(* Seeded fault for EndScan: the last record is not read.                  *)
EndScanEarly ==
    /\ chk.step = "scan"
    /\ Len(chk.seen) + 1 >= chk.size
    /\ chk' = [chk EXCEPT !.step = "payloads",
                          !.todo = Present(chk.scan.roots)]
    /\ UNCHANGED <<vars, report>>

(* The end of the journal, or a torn tail, which stays in the file.        *)
EndScan ==
    /\ chk.step = "scan"
    /\ \/ Len(chk.seen) = chk.size
       \/ /\ Len(chk.seen) < Len(wal)
          /\ wal[Len(chk.seen) + 1] = Torn
    /\ chk' = [chk EXCEPT !.step = "payloads",
                          !.todo = Present(chk.scan.roots)]
    /\ UNCHANGED <<vars, report>>

(* The payloads are read in the order of an unordered_map.                 *)
ReadPayload(n) ==
    /\ chk.step = "payloads"
    /\ n \in chk.todo
    /\ IF PayloadLoads(chk.scan.roots[n].payload)
       THEN /\ chk' = [chk EXCEPT !.todo = @ \ {n}]
            /\ UNCHANGED report
       ELSE Finish("failed")
    /\ UNCHANGED vars

ReportSound ==
    /\ chk.step = "payloads"
    /\ chk.todo = {}
    /\ Finish("ok")
    /\ UNCHANGED vars

Check ==
    \/ LoadIndex \/ OpenVerifier
    \/ ReadRecord \/ ReadFails \/ EndScan
    \/ \E n \in Names : ReadPayload(n)
    \/ ReportSound

(* A step of the heap, during a check or not.                              *)
HeapStep ==
    /\ Next
    /\ chk' = IF chk.step # "idle" /\ (snap' # snap \/ Len(wal') < Len(wal))
              THEN [chk EXCEPT !.moved = TRUE] ELSE chk
    /\ UNCHANGED report

INext == HeapStep \/ Check

ISpec == IInit /\ [][INext]_ivars

-----------------------------------------------------------------------------
(* Only a checkpoint can make the check of sound files fail: commits, torn *)
(* and unpublished batches, and journals left behind by a failed reset     *)
(* never do, wherever they fall between the reads of integrity().          *)
FailsOnlyByCheckpoint == report.verdict = "failed" => report.moved

(* Unless a checkpoint came between its reads, a check that reports ok has *)
(* verified every root that was published when it began, at that version   *)
(* or a later one.                                                         *)
ReportComplete ==
    report.verdict = "ok" /\ ~ report.moved => report.missed = {}
=============================================================================

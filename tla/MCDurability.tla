---------------------------- MODULE MCDurability ----------------------------
(***************************************************************************)
(* Recovery and the integrity check for TLC, in four scenarios: one crash  *)
(* in the middle of a batch of two roots, cut anywhere (the constants of   *)
(* the configuration); process crashes and power losses in turn, one       *)
(* during the recovery from the other, with a journal whose reset fails;   *)
(* process crashes in relaxed mode; and a check of a heap that is being    *)
(* used.  The last three use one root.                                     *)
(***************************************************************************)
EXTENDS MCRecovery

VARIABLES scenario, chk, report
dvars == <<scenario, chk, report, rvars>>

M == INSTANCE Recovery WITH Faults <- {"truncate", "flush_all"},
                            TornAppends <- FALSE, MaxCrashes <- 2
P == INSTANCE Recovery WITH Faults <- {"truncate"},
                            TornAppends <- FALSE, MaxCrashes <- 2,
                            Strict <- FALSE, CrashKinds <- {"process"}
I == INSTANCE Integrity WITH Faults <- {"append", "flush_data", "truncate"},
                             CheckpointRecords <- 100, MaxTx <- 2

(* Bound: outside the batch scenario no transaction opens the second root. *)
OneRoot == \A t \in Threads : call[t].name # 2 /\ tx[t].work[2] = NoWork

DInit == /\ chk = I!NoCheck /\ report = I!NoReport
         /\ \/ scenario = "batch" /\ RInit
            \/ scenario = "mixed" /\ M!RInit
            \/ scenario = "process" /\ P!RInit
            \/ /\ scenario = "check" /\ I!Init
               /\ mode = "up" /\ scan = NoScan /\ crashes = 0
               /\ acked = << >> /\ doubt = << >>

Cut == scenario = "batch" /\ RNext /\ UNCHANGED <<scenario, chk, report>>
Mixed == scenario = "mixed" /\ M!RNext /\ OneRoot'
         /\ UNCHANGED <<scenario, chk, report>>
Process == scenario = "process" /\ P!RNext /\ OneRoot'
           /\ UNCHANGED <<scenario, chk, report>>
Check == /\ scenario = "check" /\ I!INext /\ OneRoot'
         /\ UNCHANGED <<scenario, mode, scan, crashes, acked, doubt>>

DNext == Cut \/ Mixed \/ Process \/ Check
DSpec == DInit /\ [][DNext]_dvars

-----------------------------------------------------------------------------
(* Every version whose commit returned is there after every restart, in    *)
(* strict mode after any crashes, in relaxed mode after process crashes.   *)
CommitsSurvive == /\ scenario = "batch" => AckedDurable
                  /\ scenario = "mixed" => M!AckedDurable
                  /\ scenario = "process" => P!AckedDurable

(* After a restart each root's locator designates the bytes of the version *)
(* it carries.                                                             *)
ContentSurvives == /\ scenario = "batch" => RecoveredContent
                   /\ scenario = "mixed" => M!RecoveredContent
                   /\ scenario = "process" => P!RecoveredContent

(* Only a checkpoint during a check can make it fail on sound files.       *)
ChecksFailByCheckpoint == scenario = "check" => I!FailsOnlyByCheckpoint

(* Undisturbed by a checkpoint, a check that reports ok has verified every *)
(* root published when it began, at that version or a later one.           *)
ChecksAreComplete == scenario = "check" => I!ReportComplete
=============================================================================

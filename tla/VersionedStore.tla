--------------------------- MODULE VersionedStore ---------------------------
(***************************************************************************)
(* What a heap promises its transactions, without files, locators, cache   *)
(* or locks: each root has a history of versions; a read returns a version *)
(* that was current at some moment of the call, with that version's bytes; *)
(* a commit installs all its roots in one step, and only if none of them   *)
(* has changed since it was read; success is reported only after that.     *)
(* HeapRefinement shows that HeapState implements this specification.      *)
(***************************************************************************)
EXTENDS Integers, Sequences, FiniteSets

CONSTANTS Names, Payloads, NullPayload, Threads,
          Ids    \* transaction ids

VARIABLES hist,     \* per name: the installed versions with their writers
          txn,      \* per thread: id, activity and working copies
          phase,    \* per thread: "idle", "reading", "committing", "installed"
          reading   \* per thread: name and oldest version of a read

svars == <<hist, txn, phase, reading>>

NoCopy == [token |-> 0, expected |-> 0, dirty |-> FALSE, data |-> << >>]
NoTxn == [id |-> 0, active |-> FALSE, work |-> [n \in Names |-> NoCopy]]
NoRead == [name |-> 0, from |-> 0]

Copies(t) == {n \in Names : txn[t].work[n].token > 0}
WriteSet(t) == {n \in Copies(t) : txn[t].work[n].dirty}
Used == UNION {{hist[n][v].tx : v \in DOMAIN hist[n]} : n \in Names}

SInit ==
    /\ hist = [n \in Names |-> << >>]
    /\ txn = [t \in Threads |-> NoTxn]
    /\ phase = [t \in Threads |-> "idle"]
    /\ reading = [t \in Threads |-> NoRead]

Idle(t) == phase[t] = "idle" /\ txn[t].active

Start(t) ==
    /\ phase[t] = "idle" /\ ~ txn[t].active
    /\ \E id \in Ids :
        /\ id \notin Used
        /\ \A u \in Threads : txn[u].id # id
        /\ txn' = [txn EXCEPT ![t] = [id |-> id, active |-> TRUE,
                                      work |-> NoTxn.work]]
    /\ UNCHANGED <<hist, phase, reading>>

Keep(t, n, version, data, isNew) ==
    txn' = [txn EXCEPT ![t].work[n] =
              [token |-> Cardinality(Copies(t)) + 1, expected |-> version,
               dirty |-> isNew, data |-> data]]

Create(t, n) ==
    /\ Idle(t)
    /\ n \notin Copies(t)
    /\ hist[n] = << >>
    /\ Keep(t, n, 0, NullPayload, TRUE)
    /\ UNCHANGED <<hist, phase, reading>>

StartRead(t, n) ==
    /\ Idle(t)
    /\ n \notin Copies(t)
    /\ hist[n] # << >>
    /\ phase' = [phase EXCEPT ![t] = "reading"]
    /\ reading' = [reading EXCEPT ![t] = [name |-> n, from |-> Len(hist[n])]]
    /\ UNCHANGED <<hist, txn>>

Reread(t) ==
    /\ phase[t] = "reading"
    /\ reading' = [reading EXCEPT ![t].from = Len(hist[reading[t].name])]
    /\ UNCHANGED <<hist, txn, phase>>

FinishRead(t) ==
    /\ phase[t] = "reading"
    /\ LET n == reading[t].name
       IN  \E v \in reading[t].from .. Len(hist[n]) :
               Keep(t, n, v, hist[n][v].data, FALSE)
    /\ phase' = [phase EXCEPT ![t] = "idle"]
    /\ reading' = [reading EXCEPT ![t] = NoRead]
    /\ UNCHANGED hist

FailRead(t) ==
    /\ phase[t] = "reading"
    /\ phase' = [phase EXCEPT ![t] = "idle"]
    /\ reading' = [reading EXCEPT ![t] = NoRead]
    /\ UNCHANGED <<hist, txn>>

Write(t, n, payload) ==
    /\ Idle(t)
    /\ n \in Copies(t)
    /\ txn' = [txn EXCEPT ![t].work[n].data = payload,
                          ![t].work[n].dirty = TRUE]
    /\ UNCHANGED <<hist, phase, reading>>

(* Abort, and the commit of a transaction that wrote nothing.              *)
End(t) ==
    /\ Idle(t)
    /\ txn' = [txn EXCEPT ![t] = NoTxn]
    /\ UNCHANGED <<hist, phase, reading>>

StartCommit(t) ==
    /\ Idle(t)
    /\ WriteSet(t) # {}
    /\ phase' = [phase EXCEPT ![t] = "committing"]
    /\ UNCHANGED <<hist, txn, reading>>

RefuseCommit(t) ==
    /\ phase[t] = "committing"
    /\ phase' = [phase EXCEPT ![t] = "idle"]
    /\ UNCHANGED <<hist, txn, reading>>

InstallCommit(t) ==
    /\ phase[t] = "committing"
    /\ \A n \in WriteSet(t) : txn[t].work[n].expected = Len(hist[n])
    /\ hist' = [n \in Names |->
                   IF n \in WriteSet(t)
                   THEN Append(hist[n], [tx |-> txn[t].id,
                                         data |-> txn[t].work[n].data])
                   ELSE hist[n]]
    /\ phase' = [phase EXCEPT ![t] = "installed"]
    /\ UNCHANGED <<txn, reading>>

ReportSuccess(t) ==
    /\ phase[t] = "installed"
    /\ phase' = [phase EXCEPT ![t] = "idle"]
    /\ txn' = [txn EXCEPT ![t] = NoTxn]
    /\ UNCHANGED <<hist, reading>>

(* The commit is installed but the caller gets an exception.               *)
ReportFailure(t) ==
    /\ phase[t] = "installed"
    /\ phase' = [phase EXCEPT ![t] = "idle"]
    /\ UNCHANGED <<hist, txn, reading>>

SNext ==
    \E t \in Threads :
        \/ Start(t)
        \/ \E n \in Names : Create(t, n) \/ StartRead(t, n)
        \/ Reread(t) \/ FinishRead(t) \/ FailRead(t)
        \/ \E n \in Names, p \in Payloads : Write(t, n, p)
        \/ End(t)
        \/ StartCommit(t) \/ RefuseCommit(t)
        \/ InstallCommit(t) \/ ReportSuccess(t) \/ ReportFailure(t)

SSpec == SInit /\ [][SNext]_svars
=============================================================================

--------------------------- MODULE HeapRefinement ---------------------------
(***************************************************************************)
(* HeapState implements VersionedStore.  A commit takes effect at its      *)
(* barrier (in relaxed mode at its write): the roots still to be published *)
(* count as installed, because no lookup can run before the publication    *)
(* loop ends.                                                              *)
(***************************************************************************)
EXTENDS HeapState

Unpublished(n) ==
    {t \in Threads : /\ pc[t] = "publish"
                     /\ \E i \in DOMAIN call[t].todo :
                            call[t].todo[i].name = n}

StoreHist ==
    [n \in Names |->
        IF Unpublished(n) = {}
        THEN hist[n]
        ELSE LET t == CHOOSE t \in Unpublished(n) : TRUE
             IN  Append(hist[n], [tx |-> tx[t].id,
                                  data |-> tx[t].work[n].data])]

StorePhase ==
    [t \in Threads |->
        CASE call[t].op = "root" -> "reading"
          [] call[t].op = "commit" ->
                IF pc[t] \in {"commit", "append", "barrier"}
                THEN "committing" ELSE "installed"
          [] OTHER -> "idle"]

StoreReading ==
    [t \in Threads |->
        IF call[t].op = "root"
        THEN [name |-> call[t].name, from |-> call[t].record.version]
        ELSE [name |-> 0, from |-> 0]]

Store == INSTANCE VersionedStore
             WITH Ids <- 1 .. MaxTx, hist <- StoreHist, txn <- tx,
                  phase <- StorePhase, reading <- StoreReading

(* Every behaviour of the heap is a behaviour of the versioned store.      *)
ImplementsStore == Store!SSpec
=============================================================================

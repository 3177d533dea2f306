---------------------------- MODULE Credentials ----------------------------
(***************************************************************************)
(* The credentials service of examples/beast_credentials: one detached     *)
(* thread per connection (main.cpp) routes requests (http_router.cpp) to   *)
(* credential_service, whose operations are short transactions on one root *)
(* of a heap.  The heap is used through what VersionedStore promises: a    *)
(* read returns the current version, a commit is refused if that version   *)
(* has changed.  No code between a transaction and the thread's entry      *)
(* catches conflict_error, so a refused commit ends the process.           *)
(***************************************************************************)
EXTENDS Integers, FiniteSets, Functions, TLC

CONSTANTS None,            \* no record, digest, request or status
          Sessions,        \* connection threads
          Clients,         \* client addresses
          Principals, BadPrincipal,  \* names; one that is empty or too long
          Secrets, ShortSecret,      \* secrets; one below min_secret_length
          Configs,         \* service_config a (re)start may have: the cost of
                           \* kdf_parameters, max_attempts of rate_limit_policy
          Window, PruneThreshold,    \* the other limits of rate_limit_policy
          MaxTime,         \* bound: clock ticks
          MaxRestarts      \* bound: restarts of the process

(* The durations and limits of rate_limit_policy are not negative.         *)
ASSUME LimitsAssumption ==
    /\ Window \in Nat /\ MaxTime \in Nat
    /\ \A c \in Configs : c.attempts \in Nat

VARIABLES up, config, restarts,  \* the process and its configuration
          now,                 \* steady_clock and system_clock
          decoy,               \* decoy_encoded has been computed
          rate,                \* rate_state_
          version, stored,     \* the root: its version, its records by name
          sess,                \* per session: the request being served
          admin,               \* history: what the administrator last set
          granted,             \* history: per bucket and time, attempts that
                               \* the running process let in
          past                 \* history: limit and attempts of ended processes

cvars == <<up, config, restarts, now, decoy, rate, version, stored, sess,
           admin, granted, past>>

Times == 0 .. MaxTime
Buckets == {"admin", "public"} \X Clients
Requests ==
    [kind : {"provision"}, authorized : BOOLEAN, parsed : BOOLEAN,
     principal : Principals \cup {BadPrincipal},
     secret : Secrets \cup {ShortSecret}, disabled : BOOLEAN]
    \cup [kind : {"verify"}, parsed : BOOLEAN, principal : Principals,
          secret : Secrets]
    \cup [kind : {"remove"}, authorized : BOOLEAN,
          principal : Principals \cup {BadPrincipal}]
    \cup [kind : {"healthz", "elsewhere"}]
Digests == [secret : Secrets \cup {ShortSecret},
            cost : {c.cost : c \in Configs}]
Records == [digest : Digests, disabled : BOOLEAN, version : Nat,
            created : Times]

(* None is nothing else.                                                   *)
ASSUME NoneAssumption ==
    /\ None \notin Digests /\ None \notin Records
    /\ None \notin {"provision", "verify", "remove", "ok",
                    "too_many_requests", "unauthorized", "bad_request",
                    "not_found"}
NoRequest == [kind |-> None]
Idle == [pc |-> "read", client |-> None, req |-> NoRequest, status |-> None,
         digest |-> None, base |-> 0, edit |-> << >>]

CredInit ==
    /\ up = TRUE /\ restarts = 0 /\ config \in Configs
    /\ now \in Times /\ decoy = FALSE
    /\ rate = << >>
    /\ version = 0 /\ stored = [p \in Principals |-> None]
    /\ sess = [s \in Sessions |-> Idle]
    /\ admin = [p \in Principals |-> None]
    /\ granted = [b \in Buckets |-> [t \in Times |-> 0]] /\ past = {}

-----------------------------------------------------------------------------
(* Helpers: moving on, answering, and the end of the process.              *)

heapVars == <<version, stored>>
processVars == <<up, config, restarts, now, decoy>>
history == <<admin, granted, past>>

Goto(s, pc) == sess' = [sess EXCEPT ![s].pc = pc]
Reply(s, status) ==
    sess' = [sess EXCEPT ![s].pc = "write", ![s].status = status]

(* An exception that leaves a detached thread: std::terminate.  The next   *)
(* process starts with an empty rate_state_, and its own count.            *)
Terminate ==
    /\ up' = FALSE /\ decoy' = FALSE
    /\ rate' = << >>
    /\ sess' = [s \in Sessions |-> Idle]
    /\ past' = past \cup {[limit |-> config.attempts, granted |-> granted]}
    /\ granted' = [b \in Buckets |-> [t \in Times |-> 0]]
    /\ UNCHANGED <<config, restarts, now, version, stored, admin>>

(* Seeded fault for Conflict: the expected version is not compared.        *)
NoConflict(s) == FALSE

Conflict(s) == sess[s].base # version

(* Seeded fault for Bucket: administrators share the bucket of the public. *)
OneBucket(s) == <<"public", sess[s].client>>

Bucket(s) == <<IF sess[s].req.kind = "verify" THEN "public" ELSE "admin",
               sess[s].client>>

-----------------------------------------------------------------------------
(* http_router: handle_request and the checks made before the service.     *)

(* The answer given without calling the service, or None.                  *)
Routed(r) ==
    CASE r.kind = "healthz" -> "ok"
      [] r.kind = "elsewhere" -> "not_found"
      [] r.kind \in {"provision", "remove"} /\ ~ r.authorized -> "unauthorized"
      [] r.kind \in {"provision", "verify"} /\ ~ r.parsed -> "bad_request"
      [] r.kind = "remove" /\ r.principal = BadPrincipal -> "bad_request"
      [] OTHER -> None

(* run_session: one request is read and handed to handle_request.          *)
Receive(s, c, r) ==
    /\ up /\ sess[s].pc = "read"
    /\ sess' = [sess EXCEPT ![s] =
          IF Routed(r) = None
          THEN [Idle EXCEPT !.pc = "rate", !.client = c, !.req = r]
          ELSE [Idle EXCEPT !.pc = "write", !.status = Routed(r)]]
    /\ UNCHANGED <<processVars, rate, heapVars, history>>

(* The response is written or lost; the connection goes on or another one  *)
(* is accepted.                                                            *)
Write(s) ==
    /\ sess[s].pc = "write"
    /\ sess' = [sess EXCEPT ![s] = Idle]
    /\ UNCHANGED <<processVars, rate, heapVars, history>>

-----------------------------------------------------------------------------
(* credential_service                                                      *)

(* Seeded fault for Live: pruning forgets windows that are still running.  *)
PruneAll(b) == FALSE

Live(b) == now - rate[b].start <= Window
Opened(w) == IF now - w.start > Window THEN [start |-> now, count |-> 0] ELSE w

Admits(w) == w.count < config.attempts

(* allow_attempt, under rate_mutex_.                                       *)
AllowAttempt(s) ==
    LET b == Bucket(s)
        kept == IF Cardinality(DOMAIN rate) > PruneThreshold
                THEN Restrict(rate, {k \in DOMAIN rate : Live(k)}) ELSE rate
        window == Opened(IF b \in DOMAIN kept THEN kept[b]
                         ELSE [start |-> 0, count |-> 0])
        allowed == Admits(window)
    IN  /\ sess[s].pc = "rate"
        /\ rate' = [k \in DOMAIN kept \cup {b} |->
                      IF k # b THEN kept[k]
                      ELSE IF allowed THEN [window EXCEPT !.count = @ + 1]
                      ELSE window]
        /\ IF allowed
           THEN /\ Goto(s, CASE sess[s].req.kind = "provision" -> "hash"
                             [] sess[s].req.kind = "verify" -> "lookup"
                             [] OTHER -> "find")
                /\ granted' = [granted EXCEPT ![b][now] = @ + 1]
           ELSE /\ Reply(s, "too_many_requests")
                /\ UNCHANGED granted
        /\ UNCHANGED <<processVars, heapVars, admin, past>>

(* provision_locked up to its transaction: validation, then the KDF.  The  *)
(* caller may be verify(), which ignores the status and answers ok.        *)
Valid(r) == r.principal # BadPrincipal /\ r.secret # ShortSecret
HashSecret(s) ==
    LET r == sess[s].req
    IN  /\ sess[s].pc = "hash"
        /\ IF Valid(r)
           THEN sess' = [sess EXCEPT ![s].pc = "edit",
                             ![s].digest = [secret |-> r.secret,
                                            cost |-> config.cost]]
           ELSE Reply(s, IF r.kind = "verify" THEN "ok" ELSE "bad_request")
        /\ UNCHANGED <<processVars, rate, heapVars, history>>

(* crypto_pwhash_str runs out of memory, for a valid secret or for the     *)
(* decoy, which is hashed at its first use.                                *)
HashFails(s) ==
    /\ \/ sess[s].pc = "hash" /\ Valid(sess[s].req)
       \/ sess[s].pc = "check" /\ sess[s].digest = None /\ ~ decoy
    /\ Terminate

(* Seeded fault for NextRecord: every record starts again at version one.  *)
RestartedRecord(old, digest, disabled) ==
    [digest |-> digest, disabled |-> disabled, version |-> 1,
     created |-> IF old = None THEN now ELSE old.created]

NextRecord(old, digest, disabled) ==
    [digest |-> digest, disabled |-> disabled,
     version |-> IF old = None THEN 1 ELSE old.version + 1,
     created |-> IF old = None THEN now ELSE old.created]

(* provision_locked: begin() and the edits of the working copy.  verify()  *)
(* passes disabled = false.                                                *)
EditRecord(s) ==
    LET r == sess[s].req
        disabled == r.kind = "provision" /\ r.disabled
    IN  /\ sess[s].pc = "edit"
        /\ sess' = [sess EXCEPT ![s].pc = "commit", ![s].base = version,
              ![s].edit = [stored EXCEPT ![r.principal] =
                              NextRecord(@, sess[s].digest, disabled)]]
        /\ UNCHANGED <<processVars, rate, heapVars, history>>

(* remove: begin(), the lookup, and the edit if there is a record.         *)
FindRecord(s) ==
    LET p == sess[s].req.principal
    IN  /\ sess[s].pc = "find"
        /\ IF stored[p] = None
           THEN Reply(s, "ok")
           ELSE sess' = [sess EXCEPT ![s].pc = "commit", ![s].base = version,
                            ![s].edit = [stored EXCEPT ![p].disabled = TRUE]]
        /\ UNCHANGED <<processVars, rate, heapVars, history>>

(* What the administrator asked for, when the request is his.              *)
AdminWants(r) ==
    CASE r.kind = "provision" -> [secret |-> r.secret, disabled |-> r.disabled]
      [] r.kind = "remove" -> [admin[r.principal] EXCEPT !.disabled = TRUE]
      [] OTHER -> admin[r.principal]

(* tx.commit() of provision_locked and remove.                             *)
Commit(s) ==
    /\ sess[s].pc = "commit"
    /\ IF Conflict(s)
       THEN Terminate
       ELSE /\ version' = version + 1
            /\ stored' = sess[s].edit
            /\ admin' = [admin EXCEPT ![sess[s].req.principal] =
                             AdminWants(sess[s].req)]
            /\ Reply(s, "ok")
            /\ UNCHANGED <<processVars, rate, granted, past>>

(* verify: the read-only transaction.                                      *)
LookUp(s) ==
    LET record == stored[sess[s].req.principal]
    IN  /\ sess[s].pc = "lookup"
        /\ sess' = [sess EXCEPT ![s].pc = "check",
              ![s].digest = IF record = None THEN None
                            ELSE IF record.disabled THEN None
                            ELSE record.digest]
        /\ UNCHANGED <<processVars, rate, heapVars, history>>

NeedsRehash(digest) == digest.cost # config.cost

Matches(digest, secret) == digest # None /\ digest.secret = secret

(* verify: decoy or real verification, then the opportunistic upgrade.     *)
CheckSecret(s) ==
    /\ sess[s].pc = "check"
    /\ IF ~ Matches(sess[s].digest, sess[s].req.secret)
       THEN Reply(s, "unauthorized")
       ELSE IF sess[s].digest # None /\ NeedsRehash(sess[s].digest)
            THEN Goto(s, "hash")
            ELSE Reply(s, "ok")
    /\ decoy' = (decoy \/ sess[s].digest = None)
    /\ UNCHANGED <<up, config, restarts, now, rate, heapVars, history>>

(* The process is started again on the same storage.                       *)
Restart ==
    /\ ~ up /\ restarts < MaxRestarts
    /\ up' = TRUE /\ restarts' = restarts + 1
    /\ config' \in Configs
    /\ UNCHANGED <<now, decoy, rate, version, stored, sess, history>>

Tick ==
    /\ now < MaxTime
    /\ now' = now + 1
    /\ UNCHANGED <<up, config, restarts, decoy, rate, heapVars, sess, history>>

Serve(s) ==
    \/ AllowAttempt(s) \/ HashSecret(s) \/ HashFails(s) \/ EditRecord(s)
    \/ FindRecord(s) \/ Commit(s) \/ LookUp(s) \/ CheckSecret(s) \/ Write(s)

CredNext ==
    \/ \E s \in Sessions : Serve(s)
    \/ \E s \in Sessions, c \in Clients, r \in Requests : Receive(s, c, r)
    \/ Restart \/ Tick

CredSpec == CredInit /\ [][CredNext]_cvars

-----------------------------------------------------------------------------
(* Who may authenticate, and with what, is what the last successful        *)
(* administrative request said (credential_service.hpp: remove "disables"  *)
(* a credential, provision replaces it).  It holds while verify() writes   *)
(* nothing, that is until the cost of hashing changes, and with a changed  *)
(* cost for requests served one at a time.  The rehash of a verify() that  *)
(* overlaps a remove() or provision() undoes it: provision_locked enables  *)
(* the record again, with the secret that was read before.                 *)
Decided ==
    \A p \in Principals : stored[p] # None =>
        /\ stored[p].disabled = admin[p].disabled
        /\ stored[p].digest.secret = admin[p].secret

(* A verify that answers ok presented the secret of a digest that was      *)
(* stored and enabled when it was read.                                    *)
VerifyJustified ==
    \A s \in DOMAIN sess :
        sess[s].pc = "write" /\ sess[s].status = "ok"
        /\ sess[s].req.kind = "verify" =>
           sess[s].digest # None /\ sess[s].digest.secret = sess[s].req.secret

(* Both together: authentication is decided by the administrator.          *)
AdminDecides == Decided /\ VerifyJustified

(* A record is never lost, keeps the time it was first provisioned, and    *)
(* each new digest gets the next credential_version, whichever requests    *)
(* ran at the same time (provision_locked, remove).                        *)
RecordAdvances ==
    \A p \in Principals : stored[p] # None =>
        /\ stored'[p] # None
        /\ stored'[p].created = stored[p].created
        /\ stored'[p].version - stored[p].version \in {0, 1}
        /\ stored'[p].digest # stored[p].digest =>
              stored'[p].version = stored[p].version + 1

(* ... in every step.                                                      *)
RecordsAdvance == [][RecordAdvances]_cvars

(* Attempts of a history g of one bucket in an interval of time, counted   *)
(* up to more than two windows' worth under a limit.                       *)
GrantedIn(g, limit, from, to) ==
    LET in == {c \in Times \X (1 .. 2 * limit + 1) :
                  c[1] \in from .. to /\ c[2] <= g[c[1]]}
    IN  Cardinality(in)

(* The abuse policy of one process: over any interval of a window's length *)
(* at most two windows' worth of attempts.                                 *)
WithinBudget(windows, limit) ==
    \A b \in Buckets, t \in Times :
        GrantedIn(windows[b], limit, t, t + Window) <= 2 * limit

(* It holds for every process, the ended ones too, pruning of rate_state_  *)
(* included.  rate_state_ is in memory: processes before and after a       *)
(* restart count separately, and together they may let in the sum.         *)
RateBudget ==
    /\ WithinBudget(granted, config.attempts)
    /\ \A life \in past : WithinBudget(life.granted, life.limit)

(* A request is refused only if its own kind of request used up the budget *)
(* within the last window: verify() traffic cannot starve an administrator *)
(* of the same address (comment in provision).                             *)
RefusesFairly ==
    \A s \in DOMAIN sess :
        sess[s].pc = "rate" /\ sess'[s].status = "too_many_requests" =>
            LET mine == <<IF sess[s].req.kind = "verify" THEN "public"
                          ELSE "admin", sess[s].client>>
            IN  GrantedIn(granted[mine], config.attempts, now - Window, now)
                    >= config.attempts

(* ... in every step.                                                      *)
RefusedFairly == [][RefusesFairly]_cvars
=============================================================================

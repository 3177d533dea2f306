------------------------- MODULE CredentialsProofs -------------------------
(***************************************************************************)
(* Theorems about Credentials, for every set of sessions, clients, names   *)
(* and secrets, every rate limit and every sequence of configurations.     *)
(*                                                                         *)
(* ServiceInv follows one request through its steps: what the session has  *)
(* read, and what its working copy is as long as nobody has committed.     *)
(* RateInv follows one bucket of the rate limiter through its windows.     *)
(***************************************************************************)
EXTENDS Credentials, FiniteSetTheorems, TLAPS

(* The requests that reach the service.                                    *)
Served == {r \in Requests : Routed(r) = None}

Statuses == {None, "ok", "not_found", "unauthorized", "bad_request",
             "too_many_requests"}
Stores == [Principals -> Records \cup {None}]
SessionType ==
    [pc : {"read", "rate", "hash", "lookup", "find", "edit", "commit",
           "check", "write"},
     client : Clients \cup {None}, req : Requests \cup {NoRequest},
     status : Statuses, digest : Digests \cup {None}, base : Nat,
     edit : Stores \cup {<< >>}]
Settings == [secret : Secrets \cup {ShortSecret}, disabled : BOOLEAN]

CredTypeOK ==
    /\ up \in BOOLEAN /\ decoy \in BOOLEAN
    /\ config \in Configs /\ now \in Times
    /\ version \in Nat /\ stored \in Stores
    /\ sess \in [Sessions -> SessionType]
    /\ granted \in [Buckets -> [Times -> Nat]]

(* A process that has ended has no sessions and no rate limiter.           *)
DownOK ==
    ~ up => /\ sess = [s \in Sessions |-> Idle]
            /\ rate = << >>
            /\ granted = [b \in Buckets |-> [t \in Times |-> 0]]

(* What a session has established when it is at a step.                    *)
Writes(u) == u.req.kind \in {"provision", "verify"}

StepOK(u) ==
    /\ u.pc \notin {"read", "write"} => u.client \in Clients /\ u.req \in Served
    /\ u.pc = "rate" => u.status = None
    /\ u.pc \in {"hash", "edit"} => Writes(u)
    /\ u.pc = "find" => u.req.kind = "remove"
    /\ u.pc \in {"lookup", "check"} => u.req.kind = "verify"
    /\ u.pc \in {"edit", "commit"} => u.req.principal \in Principals
    /\ u.pc \in {"edit", "commit"} /\ Writes(u) =>
          u.digest \in Digests /\ u.digest.secret = u.req.secret
    /\ u.pc = "commit" => u.edit \in Stores

(* The working copy of a session whose base is the current version.        *)
EditOK(u, st) ==
    LET p == u.req.principal
    IN  /\ \A q \in Principals \ {p} : u.edit[q] = st[q]
        /\ u.edit[p] # None
        /\ Writes(u) =>
              /\ u.edit[p].digest = u.digest
              /\ u.edit[p].disabled =
                    (u.req.kind = "provision" /\ u.req.disabled)
              /\ st[p] # None =>
                    /\ u.edit[p].created = st[p].created
                    /\ u.edit[p].version = st[p].version + 1
        /\ ~ Writes(u) =>
              /\ st[p] # None
              /\ u.edit[p] = [st[p] EXCEPT !.disabled = TRUE]

BaseOK(u, v, st) ==
    u.pc = "commit" => /\ u.base <= v
                       /\ u.base = v => EditOK(u, st)

SessionOK(u) == StepOK(u) /\ BaseOK(u, version, stored)

ServiceInv ==
    /\ CredTypeOK /\ DownOK
    /\ \A s \in Sessions : SessionOK(sess[s])

(* A verify that goes on to write, or has answered ok, saw its own secret. *)
JustifiedOK(u) ==
    /\ u.req.kind = "verify"
    /\ \/ u.pc \in {"hash", "edit", "commit"}
       \/ u.pc = "write" /\ u.status = "ok"
    => u.digest # None /\ u.digest.secret = u.req.secret

(* The conditions under which a rehash replaces what its verify has read:  *)
(* the cost of hashing never changes, so that there is no rehash, or the   *)
(* requests of one session only.                                           *)
OneCost == \A c, d \in Configs : c.cost = d.cost
OneSession == \A s, t \in Sessions : s = t

(* The record a verify has checked is enabled and has the given secret.    *)
Current(u, st, secret) ==
    LET record == st[u.req.principal]
    IN  record # None /\ ~ record.disabled /\ record.digest.secret = secret

CurrentOK(u, st) ==
    u.req.kind = "verify" =>
        /\ u.pc \in {"hash", "edit", "commit"} =>
              ~ OneCost /\ Current(u, st, u.req.secret)
        /\ OneSession /\ u.pc = "check" /\ u.digest # None =>
              Current(u, st, u.digest.secret)

AdminInv ==
    /\ Decided
    /\ admin \in [Principals -> Settings \cup {None}]
    /\ \A p \in Principals : stored[p] # None => admin[p] \in Settings
    /\ \A s \in Sessions : JustifiedOK(sess[s]) /\ CurrentOK(sess[s], stored)

(* The granted attempts of a bucket in an interval, as GrantedIn counts    *)
(* them, for a history g of the bucket and a limit a.                      *)
Cells(g, cap, from, to) ==
    {c \in Times \X (1 .. cap) : c[1] \in from .. to /\ c[2] <= g[c[1]]}

Count(g, a, from, to) == Cardinality(Cells(g, 2 * a + 1, from, to))

(* A window counts what was granted since its start, and the window before *)
(* it granted no more than a.                                              *)
WindowOK(g, w, n, a) ==
    /\ w \in [start : Times, count : 0 .. a]
    /\ w.start <= n
    /\ w.count = Count(g, a, w.start, MaxTime)
    /\ Count(g, a, w.start - Window, w.start - 1) <= a
    /\ \A t \in Times : t > w.start + Window \/ t > n => g[t] = 0
    /\ \A t \in Times : t >= w.start => g[t] <= w.count

(* A bucket without a window has been quiet long enough to be forgotten.   *)
AbsentOK(g, n, a) ==
    /\ Count(g, a, n - Window, MaxTime) <= a
    /\ \A t \in Times : n <= Window \/ t >= n => g[t] = 0

BudgetOK(g, a) == \A t \in Times : Count(g, a, t, t + Window) <= 2 * a

BucketOK(b) ==
    /\ BudgetOK(granted[b], config.attempts)
    /\ b \in DOMAIN rate => WindowOK(granted[b], rate[b], now, config.attempts)
    /\ b \notin DOMAIN rate => AbsentOK(granted[b], now, config.attempts)

RateInv == \A b \in Buckets : BucketOK(b)

(* The processes that have ended kept to their budgets.                    *)
PastInv == \A life \in past, b \in Buckets :
               BudgetOK(life.granted[b], life.limit)

-----------------------------------------------------------------------------
(* Counting granted attempts.                                              *)

(* What is counted is finite, so the count is a number.                    *)
LEMMA CellsFinite ==
    ASSUME NEW g, NEW cap \in Nat, NEW from \in Int, NEW to \in Int
    PROVE  IsFiniteSet(Cells(g, cap, from, to))
<1>1. IsFiniteSet(Times) /\ IsFiniteSet(1 .. cap)
  BY FS_Interval, LimitsAssumption DEF Times
<1>2. IsFiniteSet(Times \X (1 .. cap))
  BY <1>1, FS_Product
<1>3. Cells(g, cap, from, to) \subseteq Times \X (1 .. cap)
  BY DEF Cells
<1> QED BY <1>2, <1>3, FS_Subset

LEMMA CountType ==
    ASSUME NEW g, NEW a \in Nat, NEW from \in Int, NEW to \in Int
    PROVE  Count(g, a, from, to) \in Nat
<1>1. 2 * a + 1 \in Nat
  OBVIOUS
<1> QED BY <1>1, CellsFinite, FS_CardinalityType DEF Count

(* A history with more attempts, in an interval that has all of the        *)
(* other's, has the larger count.                                          *)
LEMMA CountMonotone ==
    ASSUME NEW g \in [Times -> Nat], NEW h \in [Times -> Nat], NEW a \in Nat,
           NEW f1 \in Int, NEW t1 \in Int, NEW f2 \in Int, NEW t2 \in Int,
           \A t \in Times : t \in f1 .. t1 =>
               g[t] = 0 \/ (t \in f2 .. t2 /\ g[t] <= h[t])
    PROVE  Count(g, a, f1, t1) <= Count(h, a, f2, t2)
<1>1. 2 * a + 1 \in Nat
  OBVIOUS
<1> DEFINE cap == 2 * a + 1
<1>2. Cells(g, cap, f1, t1) \subseteq Cells(h, cap, f2, t2)
  <2> HIDE DEF cap
  <2>1. SUFFICES ASSUME NEW t \in Times, NEW i \in 1 .. cap, t \in f1 .. t1,
                        i <= g[t]
                 PROVE  t \in f2 .. t2 /\ i <= h[t]
    BY DEF Cells
  <2>2. g[t] \in Nat /\ h[t] \in Nat /\ i \in Int /\ i >= 1
    BY <1>1 DEF cap
  <2> QED BY <2>1, <2>2
<1> QED BY <1>1, <1>2, CellsFinite, FS_Subset DEF Count

(* An interval counts at most what its two parts do.                       *)
LEMMA CountSplit ==
    ASSUME NEW g \in [Times -> Nat], NEW a \in Nat,
           NEW from \in Int, NEW mid \in Int, NEW to \in Int
    PROVE  Count(g, a, from, to)
             <= Count(g, a, from, mid - 1) + Count(g, a, mid, to)
<1> DEFINE cap == 2 * a + 1
           L == Cells(g, cap, from, mid - 1)
           R == Cells(g, cap, mid, to)
           W == Cells(g, cap, from, to)
<1>1. cap \in Nat /\ mid - 1 \in Int
  OBVIOUS
<1>2. IsFiniteSet(L) /\ IsFiniteSet(R) /\ IsFiniteSet(W)
  BY <1>1, CellsFinite
<1>3. W \subseteq L \cup R
  BY LimitsAssumption DEF Cells, Times
<1> HIDE DEF L, R, W
<1>4. IsFiniteSet(L \cup R)
      /\ Cardinality(L \cup R)
           = Cardinality(L) + Cardinality(R) - Cardinality(L \cap R)
  BY <1>2, FS_Union
<1>5. Cardinality(W) <= Cardinality(L \cup R)
  BY <1>3, <1>4, FS_Subset
<1>6. IsFiniteSet(L \cap R)
  BY <1>2, FS_Intersection
<1>7. /\ Cardinality(L \cap R) \in Nat /\ Cardinality(L) \in Nat
      /\ Cardinality(R) \in Nat /\ Cardinality(W) \in Nat
  BY <1>2, <1>6, FS_CardinalityType
<1>8. Cardinality(W) <= Cardinality(L) + Cardinality(R)
  BY <1>4, <1>5, <1>7
<1> QED BY <1>8 DEF Count, L, R, W

(* One more attempt below the cap counts as one in an interval around it.  *)
LEMMA CountGrant ==
    ASSUME NEW g \in [Times -> Nat], NEW a \in Nat, NEW n \in Times,
           NEW from \in Int, NEW to \in Int, n \in from .. to, g[n] <= 2 * a
    PROVE  Count([g EXCEPT ![n] = @ + 1], a, from, to)
             = Count(g, a, from, to) + 1
<1> DEFINE cap == 2 * a + 1
           h == [g EXCEPT ![n] = @ + 1]
           A == Cells(g, cap, from, to)
           B == Cells(h, cap, from, to)
           new == <<n, g[n] + 1>>
<1>1. cap \in Nat /\ g[n] \in Nat /\ g[n] + 1 \in 1 .. cap
  OBVIOUS
<1>2. \A t \in Times : h[t] = IF t = n THEN g[n] + 1 ELSE g[t]
  OBVIOUS
<1> HIDE DEF cap, h
<1>3. B = A \cup {new}
  <2>1. ASSUME NEW t \in Times, NEW i \in 1 .. cap
        PROVE  i <= h[t] <=> i <= g[t] \/ (t = n /\ i = g[n] + 1)
    <3>1. i \in Int /\ g[t] \in Nat
      BY <1>1
    <3>2. CASE t = n
      BY <1>1, <1>2, <3>1, <3>2
    <3>3. CASE t # n
      BY <1>2, <3>3, Zenon
    <3> QED BY <3>2, <3>3
  <2>2. ASSUME NEW c \in Times \X (1 .. cap)
        PROVE  c \in B <=> c \in A \/ c = new
    <3>1. c = <<c[1], c[2]>> /\ c[1] \in Times /\ c[2] \in 1 .. cap
      OBVIOUS
    <3>2. c[2] <= h[c[1]] <=>
              c[2] <= g[c[1]] \/ (c[1] = n /\ c[2] = g[n] + 1)
      BY <2>1, <3>1
    <3>3. c = new <=> c[1] = n /\ c[2] = g[n] + 1
      BY <3>1
    <3>4. c \in B <=> c[1] \in from .. to /\ c[2] <= h[c[1]]
      BY DEF Cells
    <3>5. c \in A <=> c[1] \in from .. to /\ c[2] <= g[c[1]]
      BY DEF Cells
    <3> HIDE DEF A, B, new
    <3> QED BY <3>2, <3>3, <3>4, <3>5, Zenon
  <2>3. new \in Times \X (1 .. cap)
    BY <1>1
  <2>4. A \subseteq Times \X (1 .. cap) /\ B \subseteq Times \X (1 .. cap)
    BY DEF Cells
  <2> HIDE DEF A, B, new
  <2> QED BY <2>2, <2>3, <2>4, Zenon
<1>4. new \notin A
  BY <1>1 DEF Cells
<1>5. IsFiniteSet(A)
  BY <1>1, CellsFinite
<1> HIDE DEF A, B, new
<1>6. Cardinality(B) = Cardinality(A) + 1
  BY <1>3, <1>4, <1>5, FS_AddElement
<1> QED BY <1>6 DEF Count, A, B, cap, h

(* An interval without attempts counts none.                               *)
LEMMA CountNone ==
    ASSUME NEW g \in [Times -> Nat], NEW a \in Nat,
           NEW from \in Int, NEW to \in Int,
           \A t \in Times : t \in from .. to => g[t] = 0
    PROVE  Count(g, a, from, to) = 0
<1>1. Cells(g, 2 * a + 1, from, to) = {}
  BY DEF Cells
<1> QED BY <1>1, FS_EmptySet DEF Count

-----------------------------------------------------------------------------
(* The windows of one bucket, with history g, at time n, under limit a.    *)

(* A window that has run out may be forgotten.                             *)
LEMMA Expired ==
    ASSUME NEW g \in [Times -> Nat], NEW a \in Nat, NEW n \in Times, NEW w,
           WindowOK(g, w, n, a), n - w.start > Window
    PROVE  AbsentOK(g, n, a)
<1>1. /\ n \in Nat /\ w.start \in Nat /\ w.count \in Nat /\ w.count <= a
      /\ Window \in Nat /\ MaxTime \in Nat /\ n - Window \in Int
  BY LimitsAssumption DEF WindowOK, Times
<1>2. Count(g, a, n - Window, MaxTime) <= Count(g, a, w.start, MaxTime)
  <2>1. \A t \in Times : t \in (n - Window) .. MaxTime =>
            t \in w.start .. MaxTime /\ g[t] <= g[t]
    BY <1>1 DEF Times
  <2> QED BY <1>1, <2>1, CountMonotone
<1>3. Count(g, a, n - Window, MaxTime) <= a
  BY <1>1, <1>2, CountType DEF WindowOK
<1>4. \A t \in Times : n <= Window \/ t >= n => g[t] = 0
  <2> SUFFICES ASSUME NEW t \in Times, n <= Window \/ t >= n
               PROVE  g[t] = 0
    OBVIOUS
  <2>1. t > w.start + Window
    BY <1>1 DEF Times
  <2> QED BY <2>1 DEF WindowOK
<1> QED BY <1>3, <1>4 DEF AbsentOK

(* The first window of a bucket that has none.                             *)
LEMMA Fresh ==
    ASSUME NEW g \in [Times -> Nat], NEW a \in Nat, NEW n \in Times,
           AbsentOK(g, n, a), NEW start \in Times,
           start = n \/ (start = 0 /\ n <= Window)
    PROVE  WindowOK(g, [start |-> start, count |-> 0], n, a)
<1> DEFINE w == [start |-> start, count |-> 0]
<1>1. /\ n \in Nat /\ start \in Nat /\ Window \in Nat /\ MaxTime \in Nat
      /\ start - Window \in Int /\ start - 1 \in Int /\ n - Window \in Int
      /\ start <= n
  BY LimitsAssumption DEF Times
<1>2. \A t \in Times : n <= Window \/ t >= n => g[t] = 0
  BY DEF AbsentOK
<1>3. Count(g, a, start, MaxTime) = 0
  <2>1. \A t \in Times : t \in start .. MaxTime => g[t] = 0
    BY <1>1, <1>2 DEF Times
  <2> QED BY <1>1, <2>1, CountNone
<1>4. Count(g, a, start - Window, start - 1) <= a
  <2>1. CASE start = n
    <3>1. \A t \in Times : t \in (start - Window) .. (start - 1) =>
              t \in (n - Window) .. MaxTime /\ g[t] <= g[t]
      BY <1>1, <2>1 DEF Times
    <3>2. Count(g, a, start - Window, start - 1)
            <= Count(g, a, n - Window, MaxTime)
      BY <1>1, <3>1, CountMonotone
    <3> QED BY <1>1, <3>2, CountType DEF AbsentOK
  <2>2. CASE start = 0 /\ n <= Window
    <3>1. Count(g, a, start - Window, start - 1) = 0
      BY <1>1, <1>2, <2>2, CountNone
    <3> QED BY <3>1
  <2> QED BY <2>1, <2>2
<1>5. \A t \in Times : t >= start => g[t] <= 0
  <2> SUFFICES ASSUME NEW t \in Times, t >= start
               PROVE  g[t] <= 0
    OBVIOUS
  <2>1. g[t] = 0
    BY <1>1, <1>2 DEF Times
  <2> QED BY <2>1
<1>6. \A t \in Times : t > start + Window \/ t > n => g[t] = 0
  BY <1>1, <1>2 DEF Times
<1>7. w \in [start : Times, count : 0 .. a] /\ w.start = start /\ w.count = 0
  OBVIOUS
<1> HIDE DEF w
<1> QED BY <1>1, <1>3, <1>4, <1>5, <1>6, <1>7 DEF WindowOK, w

(* An attempt let in by a running window.                                  *)
LEMMA Granted ==
    ASSUME NEW g \in [Times -> Nat], NEW a \in Nat, NEW n \in Times, NEW w,
           WindowOK(g, w, n, a), BudgetOK(g, a),
           n - w.start <= Window, w.count < a
    PROVE  LET h == [g EXCEPT ![n] = @ + 1]
           IN  /\ WindowOK(h, [w EXCEPT !.count = @ + 1], n, a)
               /\ BudgetOK(h, a)
<1> DEFINE h == [g EXCEPT ![n] = @ + 1]
           v == [w EXCEPT !.count = @ + 1]
<1>1. /\ n \in Nat /\ w.start \in Nat /\ w.count \in Nat /\ w.start \in Times
      /\ Window \in Nat /\ MaxTime \in Nat /\ n - Window \in Int
      /\ w.start - Window \in Int /\ w.start - 1 \in Int
      /\ n <= MaxTime /\ w.start <= n
  BY LimitsAssumption DEF WindowOK, Times
<1>2. g[n] <= w.count /\ g[n] \in Nat
  BY <1>1 DEF WindowOK
<1>3. h \in [Times -> Nat]
  BY <1>2
<1>4. \A t \in Times : h[t] = IF t = n THEN g[n] + 1 ELSE g[t]
  OBVIOUS
<1>5. g[n] <= 2 * a
  BY <1>1, <1>2
<1>6. \A from \in Int, to \in Int : n \in from .. to =>
          Count(h, a, from, to) = Count(g, a, from, to) + 1
  BY <1>5, CountGrant
<1>7. v \in [start : Times, count : 0 .. a] /\ v.start = w.start
      /\ v.count = w.count + 1
  BY <1>1 DEF WindowOK
<1> HIDE DEF h, v
<1>8. Count(h, a, w.start, MaxTime) = w.count + 1
  <2>1. n \in w.start .. MaxTime
    BY <1>1
  <2> QED BY <1>1, <1>6, <2>1 DEF WindowOK
<1>9. Count(h, a, w.start - Window, w.start - 1) <= a
  <2>1. \A t \in Times : t \in (w.start - Window) .. (w.start - 1) =>
            t \in (w.start - Window) .. (w.start - 1) /\ h[t] <= g[t]
    <3> SUFFICES ASSUME NEW t \in Times,
                        t \in (w.start - Window) .. (w.start - 1)
                 PROVE  h[t] <= g[t]
      OBVIOUS
    <3>1. t # n
      BY <1>1
    <3>2. h[t] = g[t] /\ g[t] \in Nat
      BY <1>4, <3>1
    <3> QED BY <3>2
  <2>2. Count(h, a, w.start - Window, w.start - 1)
          <= Count(g, a, w.start - Window, w.start - 1)
    BY <1>1, <1>3, <2>1, CountMonotone
  <2> QED BY <1>1, <2>2, CountType DEF WindowOK
<1>10. \A t \in Times : t > w.start + Window \/ t > n => h[t] = 0
  <2> SUFFICES ASSUME NEW t \in Times, t > w.start + Window \/ t > n
               PROVE  h[t] = 0
    OBVIOUS
  <2>1. t # n
    BY <1>1
  <2>2. g[t] = 0
    BY DEF WindowOK
  <2> QED BY <1>4, <2>1, <2>2
<1>11. \A t \in Times : t >= w.start => h[t] <= w.count + 1
  <2> SUFFICES ASSUME NEW t \in Times, t >= w.start
               PROVE  h[t] <= w.count + 1
    OBVIOUS
  <2>1. g[t] <= w.count /\ g[t] \in Nat
    BY DEF WindowOK
  <2> QED BY <1>1, <1>2, <1>4, <2>1
<1>12. WindowOK(h, v, n, a)
  BY <1>1, <1>7, <1>8, <1>9, <1>10, <1>11 DEF WindowOK
<1>13. BudgetOK(h, a)
  <2> SUFFICES ASSUME NEW t \in Times
               PROVE  Count(h, a, t, t + Window) <= 2 * a
    BY DEF BudgetOK
  <2>1. t \in Nat /\ t + Window \in Int
    BY <1>1 DEF Times
  <2>2. CASE n \in t .. (t + Window)
    <3>1. Count(h, a, t, t + Window) <= Count(h, a, t, w.start - 1)
                                        + Count(h, a, w.start, t + Window)
      BY <1>1, <1>3, <2>1, CountSplit
    <3>2. Count(h, a, t, w.start - 1)
            <= Count(h, a, w.start - Window, w.start - 1)
      <4>1. \A u \in Times : u \in t .. (w.start - 1) =>
                u \in (w.start - Window) .. (w.start - 1) /\ h[u] <= h[u]
        <5>1. w.start - Window <= t
          BY <1>1, <2>1, <2>2
        <5>2. \A u \in Times : h[u] \in Nat /\ u \in Nat
          BY <1>1, <1>3 DEF Times
        <5> QED BY <1>1, <2>1, <5>1, <5>2
      <4> QED BY <1>1, <1>3, <2>1, <4>1, CountMonotone
    <3>3. Count(h, a, w.start, t + Window) <= Count(h, a, w.start, MaxTime)
      <4> DEFINE e == t + Window
      <4>1. \A u \in Times : u \in w.start .. e =>
                u \in w.start .. MaxTime /\ h[u] <= h[u]
        BY <1>1, <1>3, <2>1 DEF Times
      <4>2. w.start \in Int /\ e \in Int /\ MaxTime \in Int
        BY <1>1, <2>1
      <4> HIDE DEF e
      <4>3. Count(h, a, w.start, e) <= Count(h, a, w.start, MaxTime)
        BY <1>3, <4>1, <4>2, CountMonotone
      <4> QED BY <4>3 DEF e
    <3>4. /\ Count(h, a, t, t + Window) \in Nat
          /\ Count(h, a, t, w.start - 1) \in Nat
          /\ Count(h, a, w.start, t + Window) \in Nat
          /\ Count(h, a, w.start - Window, w.start - 1) \in Nat
      BY <1>1, <2>1, CountType
    <3> QED BY <1>1, <1>8, <1>9, <3>1, <3>2, <3>3, <3>4
  <2>3. CASE n \notin t .. (t + Window)
    <3>1. \A u \in Times : u \in t .. (t + Window) =>
              u \in t .. (t + Window) /\ h[u] <= g[u]
      <4> SUFFICES ASSUME NEW u \in Times, u \in t .. (t + Window)
                   PROVE  h[u] <= g[u]
        OBVIOUS
      <4>1. h[u] = g[u] /\ g[u] \in Nat
        BY <1>4, <2>3
      <4> QED BY <4>1
    <3>2. Count(h, a, t, t + Window) <= Count(g, a, t, t + Window)
      BY <1>3, <2>1, <3>1, CountMonotone
    <3>3. Count(g, a, t, t + Window) <= 2 * a
      BY DEF BudgetOK
    <3> QED BY <2>1, <3>2, <3>3, CountType
  <2> QED BY <2>2, <2>3
<1> QED BY <1>12, <1>13 DEF h, v

(* An attempt refused by a running window.                                 *)
LEMMA Refused ==
    ASSUME NEW g \in [Times -> Nat], NEW a \in Nat, NEW n \in Times, NEW w,
           WindowOK(g, w, n, a), n - w.start <= Window, ~ (w.count < a)
    PROVE  Count(g, a, n - Window, n) >= a
<1>1. /\ n \in Nat /\ w.start \in Nat /\ Window \in Nat /\ MaxTime \in Nat
      /\ n - Window \in Int /\ w.count \in Nat /\ w.count >= a
  BY LimitsAssumption DEF WindowOK, Times
<1>2. Count(g, a, w.start, MaxTime) <= Count(g, a, n - Window, n)
  <2>1. \A t \in Times : t \in w.start .. MaxTime =>
            g[t] = 0 \/ (t \in (n - Window) .. n /\ g[t] <= g[t])
    BY <1>1 DEF WindowOK, Times
  <2> QED BY <1>1, <2>1, CountMonotone
<1> QED BY <1>1, <1>2, CountType DEF WindowOK

(* Time passes.                                                            *)
LEMMA Later ==
    ASSUME NEW g \in [Times -> Nat], NEW a \in Nat, NEW n \in Times,
           n + 1 \in Times
    PROVE  /\ \A w : WindowOK(g, w, n, a) => WindowOK(g, w, n + 1, a)
           /\ AbsentOK(g, n, a) => AbsentOK(g, n + 1, a)
<1>1. /\ n \in Nat /\ Window \in Nat /\ MaxTime \in Nat
      /\ n - Window \in Int /\ n + 1 - Window \in Int
  BY LimitsAssumption DEF Times
<1>2. ASSUME NEW w, WindowOK(g, w, n, a)
      PROVE  WindowOK(g, w, n + 1, a)
  BY <1>1, <1>2 DEF WindowOK, Times
<1>3. ASSUME AbsentOK(g, n, a)
      PROVE  AbsentOK(g, n + 1, a)
  <2>1. Count(g, a, n + 1 - Window, MaxTime) <= Count(g, a, n - Window, MaxTime)
    <3>1. \A t \in Times : t \in (n + 1 - Window) .. MaxTime =>
              t \in (n - Window) .. MaxTime /\ g[t] <= g[t]
      BY <1>1 DEF Times
    <3> QED BY <1>1, <3>1, CountMonotone
  <2>2. \A t \in Times : n + 1 <= Window \/ t >= n + 1 => g[t] = 0
    BY <1>1, <1>3 DEF AbsentOK, Times
  <2> QED BY <1>1, <1>3, <2>1, <2>2, CountType DEF AbsentOK
<1> QED BY <1>2, <1>3

(* A bucket of a process that has just started.                            *)
LEMMA Unused ==
    ASSUME NEW a \in Nat, NEW n \in Times
    PROVE  LET g == [t \in Times |-> 0]
           IN  BudgetOK(g, a) /\ AbsentOK(g, n, a)
<1> DEFINE g == [t \in Times |-> 0]
<1>1. /\ n \in Nat /\ Window \in Nat /\ MaxTime \in Nat
      /\ n - Window \in Int /\ Times \subseteq Nat
  BY LimitsAssumption DEF Times
<1>2. g \in [Times -> Nat] /\ \A t \in Times : g[t] = 0
  OBVIOUS
<1> HIDE DEF g
<1>3. \A from \in Int, to \in Int : Count(g, a, from, to) = 0
  BY <1>2, CountNone
<1>4. \A t \in Times : t \in Int /\ t + Window \in Int
  BY <1>1
<1>5. BudgetOK(g, a)
  BY <1>3, <1>4 DEF BudgetOK
<1>6. AbsentOK(g, n, a)
  BY <1>1, <1>2, <1>3 DEF AbsentOK
<1> QED BY <1>5, <1>6 DEF g

-----------------------------------------------------------------------------
(* The service: requests, sessions and the end of the process.             *)

(* What the router has established of a request it hands on.               *)
LEMMA ServedRequests ==
    ASSUME NEW r \in Served
    PROVE  /\ r \in Requests
           /\ r.kind \in {"provision", "verify", "remove"}
           /\ r.kind \in {"verify", "remove"} => r.principal \in Principals
           /\ r.kind = "provision" =>
                 r.principal \in Principals \cup {BadPrincipal}
           /\ r.kind \in {"provision", "verify"} =>
                 r.secret \in Secrets \cup {ShortSecret}
           /\ r.kind = "provision" => r.disabled \in BOOLEAN
<1>1. r \in Requests /\ Routed(r) = None
  BY DEF Served
<1>2. r.kind \in {"provision", "verify", "remove"}
  BY <1>1, NoneAssumption DEF Routed, Requests
<1>3. r.kind = "remove" => r.principal # BadPrincipal
  BY <1>1, NoneAssumption DEF Routed, Requests
<1> QED BY <1>1, <1>2, <1>3 DEF Requests

LEMMA IdleType ==
    /\ Idle \in SessionType
    /\ Idle.pc = "read" /\ Idle.client = None /\ Idle.req = NoRequest
    /\ Idle.status = None
    /\ \A v, st : StepOK(Idle) /\ BaseOK(Idle, v, st)
<1>1. Idle \in SessionType
  BY DEF Idle, SessionType, Statuses
<1> QED BY <1>1 DEF Idle, StepOK, BaseOK

(* A session that is past the reading of its request is one of a running   *)
(* process.                                                                *)
LEMMA Running ==
    ASSUME ServiceInv, NEW s \in Sessions, sess[s].pc # "read"
    PROVE  up
BY IdleType DEF ServiceInv, DownOK, CredTypeOK

(* Assignments to the fields of one session.                               *)
LEMMA Moves ==
    ASSUME CredTypeOK, NEW s \in Sessions
    PROVE  /\ \A pc : Goto(s, pc) =>
                 sess' = [sess EXCEPT ![s] = [sess[s] EXCEPT !.pc = pc]]
           /\ \A status : Reply(s, status) =>
                 sess' = [sess EXCEPT ![s] = [sess[s] EXCEPT
                             !.pc = "write", !.status = status]]
<1>1. sess[s] \in SessionType /\ sess = [t \in Sessions |-> sess[t]]
  BY DEF CredTypeOK
<1>2. ASSUME NEW pc, Goto(s, pc)
      PROVE  sess' = [sess EXCEPT ![s] = [sess[s] EXCEPT !.pc = pc]]
  BY <1>1, <1>2 DEF Goto
<1>3. ASSUME NEW status, Reply(s, status)
      PROVE  sess' = [sess EXCEPT ![s] = [sess[s] EXCEPT
                         !.pc = "write", !.status = status]]
  BY <1>1, <1>3 DEF Reply
<1> QED BY <1>2, <1>3

(* A step of one session that leaves the heap alone.                       *)
LEMMA SessionStep ==
    ASSUME ServiceInv, NEW s \in Sessions, NEW u \in SessionType,
           sess' = [sess EXCEPT ![s] = u],
           StepOK(u), BaseOK(u, version, stored), up,
           decoy' \in BOOLEAN, granted' \in [Buckets -> [Times -> Nat]],
           UNCHANGED <<up, config, now, heapVars>>
    PROVE  ServiceInv'
<1>1. CredTypeOK'
  BY DEF ServiceInv, CredTypeOK, heapVars
<1>2. DownOK'
  BY DEF DownOK
<1>3. ASSUME NEW t \in Sessions
      PROVE  SessionOK(sess[t])'
  <2>1. sess'[t] = IF t = s THEN u ELSE sess[t]
    BY DEF ServiceInv, CredTypeOK
  <2>2. SessionOK(sess[t])
    BY DEF ServiceInv
  <2>3. StepOK(sess'[t]) /\ BaseOK(sess'[t], version, stored)
    BY <2>1, <2>2 DEF SessionOK
  <2>4. version' = version /\ stored' = stored
    BY DEF heapVars
  <2> QED BY <2>3, <2>4 DEF SessionOK
<1> QED BY <1>1, <1>2, <1>3 DEF ServiceInv

LEMMA TerminateKeeps ==
    ASSUME ServiceInv, Terminate
    PROVE  ServiceInv'
<1>1. sess' = [s \in Sessions |-> Idle]
      /\ \A s \in Sessions : sess'[s] = Idle
  BY DEF Terminate
<1>2. CredTypeOK'
  <2>1. [s \in Sessions |-> Idle] \in [Sessions -> SessionType]
    BY IdleType
  <2>2. [b \in Buckets |-> [t \in Times |-> 0]] \in [Buckets -> [Times -> Nat]]
    OBVIOUS
  <2> QED BY <1>1, <2>1, <2>2 DEF Terminate, CredTypeOK, ServiceInv
<1>3. DownOK'
  BY DEF DownOK, Terminate
<1>4. \A s \in Sessions : SessionOK(sess[s])'
  BY <1>1, IdleType DEF SessionOK
<1> QED BY <1>2, <1>3, <1>4 DEF ServiceInv

LEMMA ReceiveKeeps ==
    ASSUME ServiceInv, NEW s \in Sessions, NEW c \in Clients,
           NEW r \in Requests, Receive(s, c, r)
    PROVE  ServiceInv'
<1> DEFINE u == IF Routed(r) = None
                THEN [Idle EXCEPT !.pc = "rate", !.client = c, !.req = r]
                ELSE [Idle EXCEPT !.pc = "write", !.status = Routed(r)]
<1>1. sess' = [sess EXCEPT ![s] = u] /\ up
  BY DEF Receive
<1>2. Routed(r) \in Statuses
  BY DEF Routed, Statuses
<1>3. u \in SessionType /\ StepOK(u) /\ u.pc # "commit"
  <2>1. CASE Routed(r) = None
    <3>1. u = [Idle EXCEPT !.pc = "rate", !.client = c, !.req = r]
      BY <2>1
    <3>2. r \in Served
      BY <2>1 DEF Served
    <3> QED BY <3>1, <3>2, IdleType DEF SessionType, StepOK
  <2>2. CASE Routed(r) # None
    <3>1. u = [Idle EXCEPT !.pc = "write", !.status = Routed(r)]
      BY <2>2
    <3> QED BY <1>2, <3>1, IdleType DEF SessionType, StepOK
  <2> QED BY <2>1, <2>2
<1>4. UNCHANGED <<processVars, rate, heapVars, history>>
  BY DEF Receive
<1> HIDE DEF u
<1>5. BaseOK(u, version, stored)
  BY <1>3 DEF BaseOK
<1>6. decoy' \in BOOLEAN /\ granted' \in [Buckets -> [Times -> Nat]]
      /\ UNCHANGED <<up, config, now, heapVars>>
  BY <1>4 DEF processVars, history, ServiceInv, CredTypeOK
<1> QED BY <1>1, <1>3, <1>5, <1>6, SessionStep

(* A step of one session that changes nothing else, but for the decoy.     *)
LEMMA QuietStep ==
    ASSUME ServiceInv, NEW s \in Sessions, NEW u \in SessionType,
           sess' = [sess EXCEPT ![s] = u], sess[s].pc # "read",
           StepOK(u), BaseOK(u, version, stored), decoy' \in BOOLEAN,
           UNCHANGED <<up, config, restarts, now, rate, heapVars, history>>
    PROVE  ServiceInv'
<1>1. up
  BY Running
<1>2. granted' \in [Buckets -> [Times -> Nat]]
      /\ UNCHANGED <<up, config, now, heapVars>>
  BY DEF history, ServiceInv, CredTypeOK
<1> QED BY <1>1, <1>2, SessionStep

LEMMA WriteKeeps ==
    ASSUME ServiceInv, NEW s \in Sessions, Write(s)
    PROVE  ServiceInv'
<1>1. decoy' \in BOOLEAN
      /\ UNCHANGED <<up, config, restarts, now, rate, heapVars, history>>
  BY DEF Write, processVars, ServiceInv, CredTypeOK
<1>2. sess' = [sess EXCEPT ![s] = Idle] /\ sess[s].pc # "read"
  BY DEF Write
<1> QED BY <1>1, <1>2, IdleType, QuietStep

(* What is known of a session that is served.                              *)
LEMMA AtStep ==
    ASSUME ServiceInv, NEW s \in Sessions,
           sess[s].pc \notin {"read", "write"}
    PROVE  /\ sess[s] \in SessionType /\ StepOK(sess[s])
           /\ BaseOK(sess[s], version, stored)
           /\ sess[s].client \in Clients /\ sess[s].req \in Served
BY DEF ServiceInv, CredTypeOK, SessionOK, StepOK

(* A served session that has its answer.                                   *)
LEMMA Answers ==
    ASSUME NEW u \in SessionType, NEW status \in Statuses
    PROVE  LET v == [u EXCEPT !.pc = "write", !.status = status]
           IN  v \in SessionType /\ StepOK(v)
               /\ \A n, st : BaseOK(v, n, st)
BY DEF SessionType, StepOK, BaseOK

LEMMA HashSecretKeeps ==
    ASSUME ServiceInv, NEW s \in Sessions, HashSecret(s)
    PROVE  ServiceInv'
<1> DEFINE r == sess[s].req
           d == [secret |-> r.secret, cost |-> config.cost]
           u == [sess[s] EXCEPT !.pc = "edit", !.digest = d]
           status == IF r.kind = "verify" THEN "ok" ELSE "bad_request"
           w == [sess[s] EXCEPT !.pc = "write", !.status = status]
<1>1. sess[s].pc = "hash"
  BY DEF HashSecret
<1>2. /\ sess[s] \in SessionType /\ StepOK(sess[s]) /\ r \in Served
      /\ sess[s].client \in Clients /\ Writes(sess[s])
  BY <1>1, AtStep DEF StepOK
<1>3. decoy' \in BOOLEAN
      /\ UNCHANGED <<up, config, restarts, now, rate, heapVars, history>>
  BY DEF HashSecret, processVars, ServiceInv, CredTypeOK
<1>4. CASE Valid(r)
  <2>1. sess' = [sess EXCEPT ![s] = u]
    <3>1. sess' = [sess EXCEPT ![s].pc = "edit", ![s].digest = d]
      BY <1>4 DEF HashSecret
    <3> HIDE DEF d
    <3> QED BY <1>2, <3>1 DEF ServiceInv, CredTypeOK
  <2>2. d \in Digests
    <3>1. config.cost \in {c.cost : c \in Configs}
      BY DEF ServiceInv, CredTypeOK
    <3>2. r.secret \in Secrets \cup {ShortSecret}
      BY <1>2, ServedRequests DEF Writes
    <3> QED BY <3>1, <3>2 DEF Digests
  <2>3. r.principal \in Principals
    <3>1. r.principal # BadPrincipal
      BY <1>4 DEF Valid
    <3> QED BY <1>2, <3>1, ServedRequests DEF Writes
  <2>4. d.secret = r.secret
    OBVIOUS
  <2> HIDE DEF d
  <2>5. u \in SessionType
    BY <1>2, <2>2 DEF SessionType
  <2>6. u.pc = "edit" /\ u.digest = d /\ u.req = r
        /\ u.client = sess[s].client
    BY <1>2 DEF SessionType
  <2> HIDE DEF u
  <2>7. StepOK(u) /\ BaseOK(u, version, stored)
    BY <1>2, <2>2, <2>3, <2>4, <2>6 DEF StepOK, BaseOK, Writes
  <2> QED BY <1>1, <1>3, <2>1, <2>5, <2>7, QuietStep
<1>5. CASE ~ Valid(r)
  <2>1. Reply(s, status)
    BY <1>5 DEF HashSecret
  <2>2. status \in Statuses
    BY DEF Statuses
  <2> HIDE DEF status
  <2>3. sess' = [sess EXCEPT ![s] = w]
    BY <2>1, Moves DEF ServiceInv
  <2>4. w \in SessionType /\ StepOK(w) /\ BaseOK(w, version, stored)
    BY <1>2, <2>2, Answers
  <2> HIDE DEF w
  <2> QED BY <1>1, <1>3, <2>3, <2>4, QuietStep
<1> QED BY <1>4, <1>5

LEMMA HashFailsKeeps ==
    ASSUME ServiceInv, NEW s \in Sessions, HashFails(s)
    PROVE  ServiceInv'
BY TerminateKeeps DEF HashFails

LEMMA LookUpKeeps ==
    ASSUME ServiceInv, NEW s \in Sessions, LookUp(s)
    PROVE  ServiceInv'
<1> DEFINE record == stored[sess[s].req.principal]
           d == IF record = None THEN None
                ELSE IF record.disabled THEN None ELSE record.digest
           u == [sess[s] EXCEPT !.pc = "check", !.digest = d]
<1>1. sess[s].pc = "lookup"
  BY DEF LookUp
<1>2. /\ sess[s] \in SessionType /\ StepOK(sess[s])
      /\ sess[s].req \in Served /\ sess[s].client \in Clients
      /\ sess[s].req.kind = "verify"
  BY <1>1, AtStep DEF StepOK
<1>3. decoy' \in BOOLEAN
      /\ UNCHANGED <<up, config, restarts, now, rate, heapVars, history>>
  BY DEF LookUp, processVars, ServiceInv, CredTypeOK
<1>4. sess' = [sess EXCEPT ![s].pc = "check", ![s].digest = d]
  BY DEF LookUp
<1>5. d \in Digests \cup {None}
  <2>1. record \in Records \cup {None}
    BY <1>2, ServedRequests DEF ServiceInv, CredTypeOK, Stores
  <2> QED BY <2>1 DEF Records
<1> HIDE DEF d
<1>6. sess' = [sess EXCEPT ![s] = u]
  BY <1>2, <1>4 DEF ServiceInv, CredTypeOK
<1>7. u \in SessionType
  BY <1>2, <1>5 DEF SessionType
<1>8. u.pc = "check" /\ u.req = sess[s].req /\ u.client = sess[s].client
  BY <1>2 DEF SessionType
<1> HIDE DEF u
<1>9. StepOK(u) /\ BaseOK(u, version, stored)
  BY <1>2, <1>8 DEF StepOK, BaseOK
<1> QED BY <1>1, <1>3, <1>6, <1>7, <1>9, QuietStep

LEMMA CheckSecretKeeps ==
    ASSUME ServiceInv, NEW s \in Sessions, CheckSecret(s)
    PROVE  ServiceInv'
<1>1. sess[s].pc = "check"
  BY DEF CheckSecret
<1>2. /\ sess[s] \in SessionType /\ StepOK(sess[s])
      /\ sess[s].req \in Served /\ sess[s].client \in Clients
      /\ sess[s].req.kind = "verify"
  BY <1>1, AtStep DEF StepOK
<1>3. decoy' \in BOOLEAN
      /\ UNCHANGED <<up, config, restarts, now, rate, heapVars, history>>
  BY DEF CheckSecret, processVars, ServiceInv, CredTypeOK
<1>4. CASE Goto(s, "hash")
  <2> DEFINE u == [sess[s] EXCEPT !.pc = "hash"]
  <2>1. sess' = [sess EXCEPT ![s] = u]
    BY <1>4, Moves DEF ServiceInv
  <2>2. u \in SessionType
    BY <1>2 DEF SessionType
  <2>3. u.pc = "hash" /\ u.req = sess[s].req /\ u.client = sess[s].client
    BY <1>2 DEF SessionType
  <2> HIDE DEF u
  <2>4. StepOK(u) /\ BaseOK(u, version, stored)
    BY <1>2, <2>3 DEF StepOK, BaseOK, Writes
  <2> QED BY <1>1, <1>3, <2>1, <2>2, <2>4, QuietStep
<1>5. ASSUME NEW status \in Statuses, Reply(s, status)
      PROVE  ServiceInv'
  <2> DEFINE w == [sess[s] EXCEPT !.pc = "write", !.status = status]
  <2>1. sess' = [sess EXCEPT ![s] = w]
    BY <1>5, Moves DEF ServiceInv
  <2>2. w \in SessionType /\ StepOK(w) /\ BaseOK(w, version, stored)
    BY <1>2, Answers
  <2> HIDE DEF w
  <2> QED BY <1>1, <1>3, <2>1, <2>2, QuietStep
<1>6. "ok" \in Statuses /\ "unauthorized" \in Statuses
  BY DEF Statuses
<1>7. Goto(s, "hash") \/ Reply(s, "ok") \/ Reply(s, "unauthorized")
  BY DEF CheckSecret
<1> QED BY <1>4, <1>5, <1>6, <1>7

(* A record made by provision_locked.                                      *)
LEMMA NextRecordType ==
    ASSUME NEW old \in Records \cup {None}, NEW d \in Digests,
           NEW b \in BOOLEAN, now \in Times
    PROVE  /\ NextRecord(old, d, b) \in Records
           /\ NextRecord(old, d, b).digest = d
           /\ NextRecord(old, d, b).disabled = b
           /\ old # None =>
                 /\ NextRecord(old, d, b).created = old.created
                 /\ NextRecord(old, d, b).version = old.version + 1
BY DEF NextRecord, Records

LEMMA EditRecordKeeps ==
    ASSUME ServiceInv, NEW s \in Sessions, EditRecord(s)
    PROVE  ServiceInv'
<1> DEFINE r == sess[s].req
           p == r.principal
           b == (r.kind = "provision" /\ r.disabled)
           x == NextRecord(stored[p], sess[s].digest, b)
           e == [stored EXCEPT ![p] = x]
           u == [sess[s] EXCEPT !.pc = "commit", !.base = version, !.edit = e]
<1>1. sess[s].pc = "edit"
  BY DEF EditRecord
<1>2. /\ sess[s] \in SessionType /\ StepOK(sess[s]) /\ r \in Served
      /\ sess[s].client \in Clients /\ Writes(sess[s]) /\ p \in Principals
      /\ sess[s].digest \in Digests /\ sess[s].digest.secret = r.secret
  BY <1>1, AtStep DEF StepOK
<1>3. decoy' \in BOOLEAN
      /\ UNCHANGED <<up, config, restarts, now, rate, heapVars, history>>
  BY DEF EditRecord, processVars, ServiceInv, CredTypeOK
<1>4. b \in BOOLEAN
  BY <1>2, ServedRequests
<1>5. /\ stored \in Stores /\ stored[p] \in Records \cup {None}
      /\ version \in Nat /\ now \in Times
  BY <1>2 DEF ServiceInv, CredTypeOK, Stores
<1>6. /\ x \in Records /\ x.digest = sess[s].digest /\ x.disabled = b
      /\ stored[p] # None => /\ x.created = stored[p].created
                             /\ x.version = stored[p].version + 1
  <2> HIDE DEF b
  <2> QED BY <1>2, <1>4, <1>5, NextRecordType
<1>7. sess' = [sess EXCEPT ![s].pc = "commit", ![s].base = version,
                           ![s].edit = e]
  BY DEF EditRecord
<1> HIDE DEF x
<1>8. /\ e \in Stores /\ e[p] = x
      /\ \A q \in Principals \ {p} : e[q] = stored[q]
  BY <1>2, <1>5, <1>6 DEF Stores
<1> HIDE DEF e
<1>9. sess' = [sess EXCEPT ![s] = u]
  BY <1>2, <1>7 DEF ServiceInv, CredTypeOK
<1>10. u \in SessionType
  BY <1>2, <1>5, <1>8 DEF SessionType
<1>11. /\ u.pc = "commit" /\ u.req = r /\ u.client = sess[s].client
       /\ u.base = version /\ u.edit = e /\ u.digest = sess[s].digest
  BY <1>2 DEF SessionType
<1> HIDE DEF u
<1>12. StepOK(u)
  BY <1>2, <1>8, <1>11 DEF StepOK, Writes
<1>13. EditOK(u, stored)
  <2>1. Writes(u) /\ x # None
    BY <1>2, <1>6, <1>11, NoneAssumption DEF Writes
  <2>2. u.req.principal = p /\ u.edit[p] = x
    BY <1>8, <1>11
  <2> QED BY <1>6, <1>8, <1>11, <2>1, <2>2 DEF EditOK
<1>14. BaseOK(u, version, stored)
  BY <1>5, <1>11, <1>13 DEF BaseOK
<1> QED BY <1>1, <1>3, <1>9, <1>10, <1>12, <1>14, QuietStep

LEMMA FindRecordKeeps ==
    ASSUME ServiceInv, NEW s \in Sessions, FindRecord(s)
    PROVE  ServiceInv'
<1> DEFINE r == sess[s].req
           p == r.principal
           x == [stored[p] EXCEPT !.disabled = TRUE]
           e == [stored EXCEPT ![p] = x]
           u == [sess[s] EXCEPT !.pc = "commit", !.base = version, !.edit = e]
           w == [sess[s] EXCEPT !.pc = "write", !.status = "ok"]
<1>1. sess[s].pc = "find"
  BY DEF FindRecord
<1>2. /\ sess[s] \in SessionType /\ StepOK(sess[s]) /\ r \in Served
      /\ sess[s].client \in Clients /\ r.kind = "remove"
  BY <1>1, AtStep DEF StepOK
<1>3. decoy' \in BOOLEAN
      /\ UNCHANGED <<up, config, restarts, now, rate, heapVars, history>>
  BY DEF FindRecord, processVars, ServiceInv, CredTypeOK
<1>4. p \in Principals
  BY <1>2, ServedRequests
<1>5. /\ stored \in Stores /\ stored[p] \in Records \cup {None}
      /\ version \in Nat
  BY <1>4 DEF ServiceInv, CredTypeOK, Stores
<1>6. CASE stored[p] = None
  <2>1. Reply(s, "ok") /\ "ok" \in Statuses
    BY <1>6 DEF FindRecord, Statuses
  <2>2. sess' = [sess EXCEPT ![s] = w]
    BY <2>1, Moves DEF ServiceInv
  <2>3. w \in SessionType /\ StepOK(w) /\ BaseOK(w, version, stored)
    BY <1>2, <2>1, Answers
  <2> HIDE DEF w
  <2> QED BY <1>1, <1>3, <2>2, <2>3, QuietStep
<1>7. CASE stored[p] # None
  <2>1. sess' = [sess EXCEPT ![s].pc = "commit", ![s].base = version,
                     ![s].edit = [stored EXCEPT ![p].disabled = TRUE]]
    BY <1>7 DEF FindRecord
  <2>2. [stored EXCEPT ![p].disabled = TRUE] = e
    BY <1>4, <1>5, <1>7 DEF Stores, Records
  <2>3. x \in Records
    BY <1>5, <1>7 DEF Records
  <2> HIDE DEF x
  <2>4. /\ e \in Stores /\ e[p] = x
        /\ \A q \in Principals \ {p} : e[q] = stored[q]
    BY <1>4, <1>5, <2>3 DEF Stores
  <2>5. sess' = [sess EXCEPT ![s].pc = "commit", ![s].base = version,
                     ![s].edit = e]
    BY <2>1, <2>2
  <2> HIDE DEF e
  <2>6. sess' = [sess EXCEPT ![s] = u]
    BY <1>2, <2>5 DEF ServiceInv, CredTypeOK
  <2>7. u \in SessionType
    BY <1>2, <1>5, <2>4 DEF SessionType
  <2>8. /\ u.pc = "commit" /\ u.req = r /\ u.client = sess[s].client
        /\ u.base = version /\ u.edit = e
    BY <1>2 DEF SessionType
  <2> HIDE DEF u
  <2>9. StepOK(u)
    BY <1>2, <1>4, <2>4, <2>8 DEF StepOK, Writes
  <2>10. EditOK(u, stored)
    <3>1. ~ Writes(u) /\ x # None
      BY <1>2, <2>3, <2>8, NoneAssumption DEF Writes
    <3>2. u.req.principal = p /\ u.edit[p] = x
      BY <2>4, <2>8
    <3>3. u.edit[p] = [stored[p] EXCEPT !.disabled = TRUE]
      BY <3>2 DEF x
    <3> QED BY <1>7, <2>4, <2>8, <3>1, <3>2, <3>3 DEF EditOK
  <2>11. BaseOK(u, version, stored)
    BY <1>5, <2>8, <2>10 DEF BaseOK
  <2> QED BY <1>1, <1>3, <2>6, <2>7, <2>9, <2>11, QuietStep
<1> QED BY <1>6, <1>7

(* tx.commit(): the working copies of the others are out of date now.      *)
LEMMA CommitKeeps ==
    ASSUME ServiceInv, NEW s \in Sessions, Commit(s)
    PROVE  ServiceInv'
<1>1. CASE Conflict(s)
  BY <1>1, TerminateKeeps DEF Commit
<1>2. CASE ~ Conflict(s)
  <2> DEFINE w == [sess[s] EXCEPT !.pc = "write", !.status = "ok"]
  <2>1. /\ sess[s].pc = "commit" /\ version' = version + 1
        /\ stored' = sess[s].edit /\ Reply(s, "ok")
        /\ UNCHANGED <<processVars, rate, granted>>
    BY <1>2 DEF Commit
  <2>2. sess[s] \in SessionType /\ sess[s].edit \in Stores /\ up
    BY <2>1, AtStep, Running DEF StepOK
  <2>3. sess' = [sess EXCEPT ![s] = w]
    BY <2>1, Moves DEF ServiceInv
  <2>4. /\ w \in SessionType /\ StepOK(w)
        /\ \A n, st : BaseOK(w, n, st)
    <3>1. "ok" \in Statuses
      BY DEF Statuses
    <3> QED BY <2>2, <3>1, Answers
  <2> HIDE DEF w
  <2>5. CredTypeOK'
    BY <2>1, <2>2, <2>3, <2>4 DEF ServiceInv, CredTypeOK, processVars
  <2>6. DownOK'
    BY <2>1, <2>2 DEF DownOK, processVars
  <2>7. ASSUME NEW t \in Sessions
        PROVE  SessionOK(sess[t])'
    <3>1. sess'[t] = IF t = s THEN w ELSE sess[t]
      BY <2>3 DEF ServiceInv, CredTypeOK
    <3>2. CASE t = s
      BY <2>4, <3>1, <3>2 DEF SessionOK
    <3>3. CASE t # s
      <4>1. StepOK(sess[t]) /\ BaseOK(sess[t], version, stored)
        BY DEF ServiceInv, SessionOK
      <4>2. sess[t].base \in Nat /\ version \in Nat
        BY DEF ServiceInv, CredTypeOK, SessionType
      <4>3. BaseOK(sess[t], version', stored')
        BY <2>1, <4>1, <4>2 DEF BaseOK
      <4> QED BY <3>1, <3>3, <4>1, <4>3 DEF SessionOK
    <3> QED BY <3>2, <3>3
  <2> QED BY <2>5, <2>6, <2>7 DEF ServiceInv
<1> QED BY <1>1, <1>2

-----------------------------------------------------------------------------
(* allow_attempt                                                           *)

(* The two parts of rate_state_ the step decides on: what pruning keeps,   *)
(* and the window of the caller's bucket.                                  *)
Kept == IF Cardinality(DOMAIN rate) > PruneThreshold
        THEN Restrict(rate, {k \in DOMAIN rate : Live(k)}) ELSE rate

CurrentWindow(b) == Opened(IF b \in DOMAIN Kept THEN Kept[b]
                     ELSE [start |-> 0, count |-> 0])

After(s) == CASE sess[s].req.kind = "provision" -> "hash"
              [] sess[s].req.kind = "verify" -> "lookup"
              [] OTHER -> "find"

LEMMA AttemptStep ==
    ASSUME NEW s \in Sessions, AllowAttempt(s)
    PROVE  LET b == Bucket(s)
               w == CurrentWindow(b)
           IN  /\ sess[s].pc = "rate"
               /\ rate' = [k \in DOMAIN Kept \cup {b} |->
                             IF k # b THEN Kept[k]
                             ELSE IF Admits(w)
                                  THEN [w EXCEPT !.count = @ + 1] ELSE w]
               /\ Admits(w) =>
                     /\ Goto(s, After(s))
                     /\ granted' = [granted EXCEPT ![b][now] = @ + 1]
               /\ ~ Admits(w) => /\ Reply(s, "too_many_requests")
                                 /\ UNCHANGED granted
               /\ UNCHANGED <<processVars, heapVars, admin>>
BY DEF AllowAttempt, Kept, CurrentWindow, After

LEMMA BucketType ==
    ASSUME ServiceInv, NEW s \in Sessions, sess[s].pc = "rate"
    PROVE  Bucket(s) \in Buckets
<1>1. sess[s].client \in Clients
  BY AtStep
<1> QED BY <1>1 DEF Bucket, Buckets

LEMMA AllowAttemptKeeps ==
    ASSUME ServiceInv, NEW s \in Sessions, AllowAttempt(s)
    PROVE  ServiceInv'
<1> DEFINE b == Bucket(s)
<1>1. sess[s].pc = "rate" /\ UNCHANGED <<processVars, heapVars, admin>>
  BY AttemptStep
<1>2. /\ sess[s] \in SessionType /\ StepOK(sess[s]) /\ up
      /\ sess[s].req \in Served /\ sess[s].client \in Clients
  BY <1>1, AtStep, Running
<1>3. decoy' \in BOOLEAN /\ UNCHANGED <<up, config, now, heapVars>>
  BY <1>1 DEF processVars, ServiceInv, CredTypeOK
<1>4. b \in Buckets /\ now \in Times
      /\ granted \in [Buckets -> [Times -> Nat]]
  BY <1>1, BucketType DEF ServiceInv, CredTypeOK
<1> HIDE DEF b
<1>5. CASE Goto(s, After(s)) /\ granted' = [granted EXCEPT ![b][now] = @ + 1]
  <2> DEFINE u == [sess[s] EXCEPT !.pc = After(s)]
  <2>1. sess' = [sess EXCEPT ![s] = u]
    BY <1>5, Moves DEF ServiceInv
  <2>2. /\ After(s) \in {"hash", "lookup", "find"}
        /\ After(s) = "hash" => sess[s].req.kind = "provision"
        /\ After(s) = "lookup" => sess[s].req.kind = "verify"
        /\ After(s) = "find" => sess[s].req.kind = "remove"
    BY <1>2, ServedRequests DEF After
  <2>3. u \in SessionType
    BY <1>2, <2>2 DEF SessionType
  <2>4. u.pc = After(s) /\ u.req = sess[s].req /\ u.client = sess[s].client
    BY <1>2 DEF SessionType
  <2> HIDE DEF u
  <2>5. StepOK(u) /\ BaseOK(u, version, stored)
    BY <1>2, <2>2, <2>4 DEF StepOK, BaseOK, Writes
  <2>6. granted' \in [Buckets -> [Times -> Nat]]
    BY <1>4, <1>5
  <2> QED BY <1>2, <1>3, <2>1, <2>3, <2>5, <2>6, SessionStep
<1>6. CASE Reply(s, "too_many_requests") /\ UNCHANGED granted
  <2> DEFINE w == [sess[s] EXCEPT !.pc = "write",
                                  !.status = "too_many_requests"]
  <2>1. "too_many_requests" \in Statuses
    BY DEF Statuses
  <2>2. sess' = [sess EXCEPT ![s] = w]
    BY <1>6, Moves DEF ServiceInv
  <2>3. w \in SessionType /\ StepOK(w) /\ BaseOK(w, version, stored)
    BY <1>2, <2>1, Answers
  <2> HIDE DEF w
  <2> QED BY <1>2, <1>3, <1>4, <1>6, <2>2, <2>3, SessionStep
<1> QED BY <1>5, <1>6, AttemptStep DEF b

-----------------------------------------------------------------------------
(* The service keeps its sessions and their working copies in order.       *)

LEMMA ServiceInit == CredInit => ServiceInv
<1> SUFFICES ASSUME CredInit
             PROVE  ServiceInv
  OBVIOUS
<1>1. \A s \in Sessions : sess[s] = Idle
  BY DEF CredInit
<1>2. CredTypeOK
  <2>1. sess \in [Sessions -> SessionType]
    BY IdleType DEF CredInit
  <2>2. granted \in [Buckets -> [Times -> Nat]]
    BY DEF CredInit
  <2>3. stored \in Stores
    BY DEF CredInit, Stores
  <2> QED BY <2>1, <2>2, <2>3 DEF CredInit, CredTypeOK
<1>3. DownOK
  BY DEF CredInit, DownOK
<1>4. \A s \in Sessions : SessionOK(sess[s])
  BY <1>1, IdleType DEF SessionOK
<1> QED BY <1>2, <1>3, <1>4 DEF ServiceInv

LEMMA ServiceNext ==
    ASSUME ServiceInv, [CredNext]_cvars
    PROVE  ServiceInv'
<1>1. ASSUME NEW s \in Sessions, Serve(s)
      PROVE  ServiceInv'
  BY <1>1, AllowAttemptKeeps, HashSecretKeeps, HashFailsKeeps,
     EditRecordKeeps, FindRecordKeeps, CommitKeeps, LookUpKeeps,
     CheckSecretKeeps, WriteKeeps
     DEF Serve
<1>2. ASSUME NEW s \in Sessions, NEW c \in Clients, NEW r \in Requests,
             Receive(s, c, r)
      PROVE  ServiceInv'
  BY <1>2, ReceiveKeeps
<1>3. CASE Restart
  <2>1. CredTypeOK'
    BY <1>3 DEF Restart, ServiceInv, CredTypeOK, history
  <2>2. DownOK'
    BY <1>3 DEF Restart, DownOK
  <2>3. \A s \in Sessions : SessionOK(sess[s])'
    BY <1>3 DEF Restart, ServiceInv, SessionOK
  <2> QED BY <2>1, <2>2, <2>3 DEF ServiceInv
<1>4. CASE Tick
  <2>1. now' \in Times
    BY <1>4, LimitsAssumption DEF Tick, ServiceInv, CredTypeOK, Times
  <2>2. CredTypeOK'
    BY <1>4, <2>1 DEF Tick, ServiceInv, CredTypeOK, history, heapVars
  <2>3. DownOK'
    BY <1>4 DEF Tick, DownOK, ServiceInv, history
  <2>4. \A s \in Sessions : SessionOK(sess[s])'
    BY <1>4 DEF Tick, ServiceInv, SessionOK, heapVars
  <2> QED BY <2>2, <2>3, <2>4 DEF ServiceInv
<1>5. CASE UNCHANGED cvars
  <2>1. CredTypeOK'
    BY <1>5 DEF cvars, ServiceInv, CredTypeOK
  <2>2. DownOK'
    BY <1>5 DEF cvars, DownOK, ServiceInv
  <2>3. \A s \in Sessions : SessionOK(sess[s])'
    BY <1>5 DEF cvars, ServiceInv, SessionOK
  <2> QED BY <2>1, <2>2, <2>3 DEF ServiceInv
<1> QED BY <1>1, <1>2, <1>3, <1>4, <1>5 DEF CredNext

LEMMA ServiceInvariant == CredSpec => []ServiceInv
BY ServiceInit, ServiceNext, PTL DEF CredSpec

(* Who changes the records: a commit whose base is the current version.    *)
LEMMA StoredChanges ==
    ASSUME ServiceInv, [CredNext]_cvars
    PROVE  \/ UNCHANGED <<version, stored, admin>>
           \/ \E s \in Sessions :
                 /\ Commit(s) /\ ~ Conflict(s)
                 /\ sess[s].pc = "commit" /\ stored' = sess[s].edit
                 /\ EditOK(sess[s], stored)
<1>1. ASSUME NEW s \in Sessions, Commit(s), ~ Conflict(s)
      PROVE  /\ sess[s].pc = "commit" /\ stored' = sess[s].edit
             /\ EditOK(sess[s], stored)
  <2>1. sess[s].pc = "commit" /\ stored' = sess[s].edit
    BY <1>1 DEF Commit
  <2>2. BaseOK(sess[s], version, stored) /\ sess[s].base = version
    BY <1>1, <2>1, AtStep DEF Conflict
  <2> QED BY <2>1, <2>2 DEF BaseOK
<1>2. ASSUME NEW s \in Sessions, Serve(s), ~ (Commit(s) /\ ~ Conflict(s))
      PROVE  UNCHANGED <<version, stored, admin>>
  <2>1. CASE AllowAttempt(s)
    BY <2>1 DEF AllowAttempt, heapVars
  <2>2. CASE HashSecret(s)
    BY <2>2 DEF HashSecret, heapVars, history
  <2>3. CASE HashFails(s)
    BY <2>3 DEF HashFails, Terminate
  <2>4. CASE EditRecord(s)
    BY <2>4 DEF EditRecord, heapVars, history
  <2>5. CASE FindRecord(s)
    BY <2>5 DEF FindRecord, heapVars, history
  <2>6. CASE Commit(s)
    BY <1>2, <2>6 DEF Commit, Terminate
  <2>7. CASE LookUp(s)
    BY <2>7 DEF LookUp, heapVars, history
  <2>8. CASE CheckSecret(s)
    BY <2>8 DEF CheckSecret, heapVars, history
  <2>9. CASE Write(s)
    BY <2>9 DEF Write, heapVars, history
  <2> QED BY <1>2, <2>1, <2>2, <2>3, <2>4, <2>5, <2>6, <2>7, <2>8, <2>9
          DEF Serve
<1>3. ASSUME NEW s \in Sessions, NEW c \in Clients, NEW r \in Requests,
             Receive(s, c, r)
      PROVE  UNCHANGED <<version, stored, admin>>
  BY <1>3 DEF Receive, heapVars, history
<1>4. CASE Restart \/ Tick \/ UNCHANGED cvars
  BY <1>4 DEF Restart, Tick, cvars, heapVars, history
<1> QED BY <1>1, <1>2, <1>3, <1>4 DEF CredNext

LEMMA RecordStep ==
    ASSUME ServiceInv, [CredNext]_cvars
    PROVE  RecordAdvances
<1>1. stored \in Stores
  BY DEF ServiceInv, CredTypeOK
<1>2. SUFFICES ASSUME NEW p \in Principals, stored[p] # None
               PROVE  /\ stored'[p] # None
                      /\ stored'[p].created = stored[p].created
                      /\ stored'[p].version - stored[p].version \in {0, 1}
                      /\ stored'[p].digest # stored[p].digest =>
                            stored'[p].version = stored[p].version + 1
  BY Zenon DEF RecordAdvances
<1>3. stored[p] \in Records /\ stored[p].version \in Nat
  BY <1>1, <1>2 DEF Stores, Records
<1>4. CASE stored'[p] = stored[p]
  BY <1>2, <1>3, <1>4
<1>5. ASSUME NEW s \in Sessions, stored' = sess[s].edit,
             EditOK(sess[s], stored), stored'[p] # stored[p]
      PROVE  /\ stored'[p] # None
             /\ stored'[p].created = stored[p].created
             /\ stored'[p].version - stored[p].version \in {0, 1}
             /\ stored'[p].digest # stored[p].digest =>
                   stored'[p].version = stored[p].version + 1
  <2>1. p = sess[s].req.principal
    BY <1>5 DEF EditOK
  <2>2. CASE Writes(sess[s])
    BY <1>2, <1>3, <1>5, <2>1, <2>2 DEF EditOK
  <2>3. CASE ~ Writes(sess[s])
    <3>1. stored'[p] = [stored[p] EXCEPT !.disabled = TRUE]
          /\ stored'[p] # None
      BY <1>5, <2>1, <2>3 DEF EditOK
    <3>2. /\ stored'[p].created = stored[p].created
          /\ stored'[p].version = stored[p].version
          /\ stored'[p].digest = stored[p].digest
      BY <1>3, <3>1 DEF Records
    <3> QED BY <1>3, <3>1, <3>2
  <2> QED BY <2>2, <2>3
<1> QED BY <1>4, <1>5, StoredChanges

(* No request loses a record or the time it was first provisioned, and     *)
(* each new digest has the next credential_version, whatever sessions run  *)
(* beside it, restarts and failing hashes included.                        *)
THEOREM RecordsOnlyAdvance == CredSpec => RecordsAdvance
<1>1. ServiceInv /\ [CredNext]_cvars => [RecordAdvances]_cvars
  BY RecordStep
<1> QED BY <1>1, ServiceInvariant, PTL DEF CredSpec, RecordsAdvance

-----------------------------------------------------------------------------
(* The rate limiter.                                                       *)

(* Pruning keeps windows as they are, and drops only those that have run   *)
(* out.                                                                    *)
LEMMA Pruning ==
    /\ DOMAIN Kept \subseteq DOMAIN rate
    /\ \A k \in DOMAIN Kept : Kept[k] = rate[k]
    /\ \A k \in DOMAIN rate \ DOMAIN Kept : ~ Live(k)
<1>1. CASE Cardinality(DOMAIN rate) > PruneThreshold
  <2>1. Kept = Restrict(rate, {k \in DOMAIN rate : Live(k)})
    BY <1>1 DEF Kept
  <2>2. Kept = [k \in {x \in DOMAIN rate : Live(x)} |-> rate[k]]
    BY <2>1, Zenon DEF Restrict
  <2> QED BY <2>2
<1>2. CASE ~ (Cardinality(DOMAIN rate) > PruneThreshold)
  <2>1. Kept = rate
    BY <1>2 DEF Kept
  <2> QED BY <2>1
<1> QED BY <1>1, <1>2

LEMMA HistoryType ==
    ASSUME ServiceInv, NEW b \in Buckets
    PROVE  /\ granted[b] \in [Times -> Nat] /\ config.attempts \in Nat
           /\ now \in Times /\ config \in Configs
BY LimitsAssumption DEF ServiceInv, CredTypeOK

(* A window that pruning has dropped was one to forget.                    *)
LEMMA PrunedAbsent ==
    ASSUME ServiceInv, RateInv, NEW b \in Buckets, b \notin DOMAIN Kept
    PROVE  AbsentOK(granted[b], now, config.attempts)
<1>1. BucketOK(b)
  BY DEF RateInv
<1>2. CASE b \in DOMAIN rate
  <2>1. ~ (now - rate[b].start <= Window)
    BY <1>2, Pruning DEF Live
  <2>2. WindowOK(granted[b], rate[b], now, config.attempts)
    BY <1>1, <1>2 DEF BucketOK
  <2>3. now - rate[b].start > Window
    BY <2>1, <2>2, HistoryType, LimitsAssumption DEF WindowOK, Times
  <2> QED BY <2>2, <2>3, HistoryType, Expired
<1>3. CASE b \notin DOMAIN rate
  BY <1>1, <1>3 DEF BucketOK
<1> QED BY <1>2, <1>3

(* The window an attempt is counted in, which is running.                  *)
LEMMA WindowOpened ==
    ASSUME ServiceInv, RateInv, NEW b \in Buckets
    PROVE  /\ WindowOK(granted[b], CurrentWindow(b), now, config.attempts)
           /\ now - CurrentWindow(b).start <= Window
<1> DEFINE g == granted[b]
           a == config.attempts
           old == IF b \in DOMAIN Kept THEN Kept[b]
                  ELSE [start |-> 0, count |-> 0]
           new == [start |-> now, count |-> 0]
<1>1. g \in [Times -> Nat] /\ a \in Nat /\ now \in Times /\ BucketOK(b)
  BY HistoryType DEF RateInv
<1>2. now \in Nat /\ Window \in Nat /\ 0 \in Times
  BY <1>1, LimitsAssumption DEF Times
<1>3. CurrentWindow(b) = IF now - old.start > Window THEN new ELSE old
  BY DEF CurrentWindow, Opened
<1>4. b \in DOMAIN Kept => old = rate[b] /\ WindowOK(g, old, now, a)
  BY <1>1, Pruning DEF BucketOK
<1>5. b \notin DOMAIN Kept =>
          AbsentOK(g, now, a) /\ old = [start |-> 0, count |-> 0]
  BY PrunedAbsent
<1>6. old.start \in Nat
  BY <1>2, <1>4, <1>5 DEF WindowOK, Times
<1>7. CASE now - old.start > Window
  <2>1. CurrentWindow(b) = new
    BY <1>3, <1>7
  <2>2. AbsentOK(g, now, a)
    <3> HIDE DEF g, a, old
    <3> QED BY <1>1, <1>4, <1>5, <1>7, Expired
  <2>3. WindowOK(g, new, now, a)
    <3> HIDE DEF g, a
    <3> QED BY <1>1, <2>2, Fresh
  <2> QED BY <1>2, <2>1, <2>3
<1>8. CASE ~ (now - old.start > Window)
  <2>1. CurrentWindow(b) = old
    BY <1>3, <1>8
  <2>2. now - old.start <= Window
    BY <1>2, <1>6, <1>8
  <2>3. CASE b \in DOMAIN Kept
    BY <1>4, <2>1, <2>2, <2>3
  <2>4. CASE b \notin DOMAIN Kept
    <3>1. now <= Window /\ old = [start |-> 0, count |-> 0]
      BY <1>2, <1>5, <2>2, <2>4
    <3>2. WindowOK(g, [start |-> 0, count |-> 0], now, a)
      <4> HIDE DEF g, a, old
      <4> QED BY <1>1, <1>2, <1>5, <2>4, <3>1, Fresh
    <3> QED BY <2>1, <2>2, <3>1, <3>2
  <2> QED BY <2>3, <2>4
<1> QED BY <1>7, <1>8

LEMMA AllowAttemptRate ==
    ASSUME ServiceInv, RateInv, NEW s \in Sessions, AllowAttempt(s)
    PROVE  RateInv'
<1>2. PICK b \in Buckets : b = Bucket(s)
  BY BucketType, AttemptStep
<1> DEFINE w == CurrentWindow(b)
           a == config.attempts
           v == [w EXCEPT !.count = @ + 1]
<1>1. /\ sess[s].pc = "rate"
      /\ rate' = [k \in DOMAIN Kept \cup {b} |->
                    IF k # b THEN Kept[k] ELSE IF Admits(w) THEN v ELSE w]
      /\ Admits(w) => granted' = [granted EXCEPT ![b][now] = @ + 1]
      /\ ~ Admits(w) => granted' = granted
      /\ now' = now /\ config' = config
  BY <1>2, AttemptStep DEF processVars
<1>3. /\ WindowOK(granted[b], w, now, a) /\ now - w.start <= Window
      /\ BudgetOK(granted[b], a)
  BY <1>2, WindowOpened DEF RateInv, BucketOK
<1>4. /\ granted \in [Buckets -> [Times -> Nat]] /\ now \in Times
      /\ granted[b] \in [Times -> Nat] /\ a \in Nat
  BY <1>2, HistoryType DEF ServiceInv, CredTypeOK
<1> HIDE DEF w, v
<1>5. ASSUME NEW k \in Buckets, k # b
      PROVE  BucketOK(k)'
  <2>1. granted'[k] = granted[k] /\ BucketOK(k)
    BY <1>1, <1>2, <1>4, <1>5 DEF RateInv
  <2>2. CASE k \in DOMAIN Kept
    <3>1. k \in DOMAIN rate /\ k \in DOMAIN rate' /\ rate'[k] = rate[k]
      BY <1>1, <1>5, <2>2, Pruning
    <3> QED BY <1>1, <2>1, <3>1 DEF BucketOK
  <2>3. CASE k \notin DOMAIN Kept
    <3>1. k \notin DOMAIN rate'
      BY <1>1, <1>5, <2>3
    <3> QED BY <1>1, <2>1, <2>3, <3>1, PrunedAbsent DEF BucketOK
  <2> QED BY <2>2, <2>3
<1>6. BucketOK(b)'
  <2>1. b \in DOMAIN rate'
    BY <1>1
  <2>2. CASE Admits(w)
    <3> DEFINE h == [granted[b] EXCEPT ![now] = @ + 1]
    <3>1. rate'[b] = v /\ granted'[b] = h
      BY <1>1, <1>2, <1>4, <2>2
    <3>2. w.count < a
      BY <2>2 DEF Admits
    <3>3. WindowOK(h, v, now, a) /\ BudgetOK(h, a)
      <4> HIDE DEF a
      <4> QED BY <1>3, <1>4, <3>2, Granted, Zenon DEF v, a
    <3> QED BY <1>1, <2>1, <3>1, <3>3 DEF BucketOK
  <2>3. CASE ~ Admits(w)
    <3>1. rate'[b] = w /\ granted'[b] = granted[b]
      BY <1>1, <2>3
    <3> QED BY <1>1, <1>3, <2>1, <3>1 DEF BucketOK
  <2> QED BY <2>2, <2>3
<1>7. ASSUME NEW k \in Buckets
      PROVE  BucketOK(k)'
  BY <1>5, <1>6
<1> QED BY <1>7 DEF RateInv

(* A process that starts has no windows and no history.                    *)
LEMMA RateUnused ==
    ASSUME rate = << >>, config \in Configs, now \in Times,
           granted = [b \in Buckets |-> [t \in Times |-> 0]]
    PROVE  RateInv
<1>1. config.attempts \in Nat
  BY LimitsAssumption
<1>2. ASSUME NEW b \in Buckets
      PROVE  BucketOK(b)
  <2>1. granted[b] = [t \in Times |-> 0]
    OBVIOUS
  <2>2. b \notin DOMAIN rate
    OBVIOUS
  <2> QED BY <1>1, <2>1, <2>2, Unused DEF BucketOK
<1> QED BY <1>2 DEF RateInv

LEMMA RateUnusedNext ==
    (rate = << >> /\ config \in Configs /\ now \in Times
     /\ granted = [b \in Buckets |-> [t \in Times |-> 0]])'
    => RateInv'
<1>1. rate = << >> /\ config \in Configs /\ now \in Times
      /\ granted = [b \in Buckets |-> [t \in Times |-> 0]] => RateInv
  BY RateUnused
<1> QED BY <1>1, PTL

LEMMA RateSame ==
    ASSUME RateInv, UNCHANGED <<config, now, rate, granted>>
    PROVE  RateInv'
BY DEF RateInv, BucketOK

LEMMA RateNext ==
    ASSUME ServiceInv, RateInv, [CredNext]_cvars
    PROVE  RateInv'
<1>1. ASSUME Terminate
      PROVE  RateInv'
  BY <1>1, RateUnusedNext DEF Terminate, ServiceInv, CredTypeOK
<1>2. ASSUME NEW s \in Sessions, Serve(s)
      PROVE  RateInv'
  <2>1. CASE AllowAttempt(s)
    BY <2>1, AllowAttemptRate
  <2>2. CASE HashSecret(s)
    BY <2>2, RateSame DEF HashSecret, processVars, history
  <2>3. CASE HashFails(s)
    BY <1>1, <2>3 DEF HashFails
  <2>4. CASE EditRecord(s)
    BY <2>4, RateSame DEF EditRecord, processVars, history
  <2>5. CASE FindRecord(s)
    BY <2>5, RateSame DEF FindRecord, processVars, history
  <2>6. CASE Commit(s)
    BY <1>1, <2>6, RateSame DEF Commit, processVars
  <2>7. CASE LookUp(s)
    BY <2>7, RateSame DEF LookUp, processVars, history
  <2>8. CASE CheckSecret(s)
    BY <2>8, RateSame DEF CheckSecret, history
  <2>9. CASE Write(s)
    BY <2>9, RateSame DEF Write, processVars, history
  <2> QED BY <1>2, <2>1, <2>2, <2>3, <2>4, <2>5, <2>6, <2>7, <2>8, <2>9
          DEF Serve
<1>3. ASSUME NEW s \in Sessions, NEW c \in Clients, NEW r \in Requests,
             Receive(s, c, r)
      PROVE  RateInv'
  BY <1>3, RateSame DEF Receive, processVars, history
<1>4. CASE Restart
  <2>1. rate' = << >> /\ granted' = [b \in Buckets |-> [t \in Times |-> 0]]
    BY <1>4 DEF Restart, ServiceInv, DownOK, history
  <2>2. config' \in Configs /\ now' \in Times
    BY <1>4 DEF Restart, ServiceInv, CredTypeOK
  <2> QED BY <2>1, <2>2, RateUnusedNext
<1>5. CASE Tick
  <2>1. /\ now' = now + 1 /\ config' = config /\ rate' = rate
        /\ granted' = granted /\ now + 1 \in Times
    BY <1>5, LimitsAssumption
       DEF Tick, history, ServiceInv, CredTypeOK, Times
  <2>2. ASSUME NEW b \in Buckets
        PROVE  BucketOK(b)'
    <3>1. BucketOK(b)
      BY DEF RateInv
    <3> QED BY <2>1, <3>1, HistoryType, Later DEF BucketOK
  <2> QED BY <2>2 DEF RateInv
<1>6. CASE UNCHANGED cvars
  BY <1>6, RateSame DEF cvars
<1> QED BY <1>2, <1>3, <1>4, <1>5, <1>6 DEF CredNext

LEMMA RateInvariant == CredSpec => []RateInv
<1>1. CredInit => RateInv
  BY RateUnused DEF CredInit
<1> QED BY <1>1, ServiceInvariant, RateNext, PTL DEF CredSpec

(* A process ends with the budgets that it kept; no other step changes     *)
(* the history of ended processes.                                         *)
LEMMA PastNext ==
    ASSUME RateInv, PastInv, [CredNext]_cvars
    PROVE  PastInv'
<1>1. ASSUME UNCHANGED past
      PROVE  PastInv'
  BY <1>1 DEF PastInv
<1>2. ASSUME Terminate
      PROVE  PastInv'
  <2> DEFINE ended == [limit |-> config.attempts, granted |-> granted]
  <2>1. past' = past \cup {ended}
    BY <1>2 DEF Terminate
  <2>2. \A b \in Buckets : BudgetOK(ended.granted[b], ended.limit)
    BY DEF RateInv, BucketOK
  <2> HIDE DEF ended
  <2> QED BY <2>1, <2>2 DEF PastInv
<1>3. ASSUME NEW s \in Sessions, Serve(s)
      PROVE  Terminate \/ UNCHANGED past
  BY <1>3 DEF Serve, AllowAttempt, HashSecret, HashFails, EditRecord,
     FindRecord, Commit, LookUp, CheckSecret, Write, history
<1>4. ASSUME ~ \E s \in Sessions : Serve(s)
      PROVE  UNCHANGED past
  BY <1>4 DEF CredNext, Receive, Restart, Tick, history, cvars
<1> QED BY <1>1, <1>2, <1>3, <1>4

(* At most two windows' worth of attempts in any interval of a window's    *)
(* length, for every limit, number of clients and pruning threshold, by    *)
(* the running process and by every process that ran before it, each under *)
(* its own limit (allow_attempt).  What processes before and after a       *)
(* restart let in is not bounded together: rate_state_ starts empty.       *)
THEOREM AttemptsAreLimited == CredSpec => []RateBudget
<1>1. RateInv /\ PastInv => RateBudget
  <2>1. ASSUME NEW g, NEW a, \A b \in Buckets : BudgetOK(g[b], a)
        PROVE  WithinBudget(g, a)
    BY <2>1 DEF BudgetOK, WithinBudget, GrantedIn, Count, Cells
  <2>2. RateInv => WithinBudget(granted, config.attempts)
    BY <2>1 DEF RateInv, BucketOK
  <2>3. PastInv => \A life \in past : WithinBudget(life.granted, life.limit)
    BY <2>1 DEF PastInv
  <2> QED BY <2>2, <2>3 DEF RateBudget
<1>2. CredInit => PastInv
  BY DEF CredInit, PastInv
<1> QED BY <1>1, <1>2, PastNext, RateInvariant, PTL DEF CredSpec


(* A step of a session leaves the others alone, unless it ends the         *)
(* process.                                                                *)
LEMMA OthersKept ==
    ASSUME ServiceInv, NEW s \in Sessions, ~ Terminate,
           Serve(s) \/ \E c \in Clients, r \in Requests : Receive(s, c, r)
    PROVE  \A t \in Sessions \ {s} : sess'[t] = sess[t]
<1>1. sess \in [Sessions -> SessionType]
  BY DEF ServiceInv, CredTypeOK
<1>2. ASSUME NEW pc, Goto(s, pc)
      PROVE  \A t \in Sessions \ {s} : sess'[t] = sess[t]
  BY <1>1, <1>2 DEF Goto
<1>3. ASSUME NEW status, Reply(s, status)
      PROVE  \A t \in Sessions \ {s} : sess'[t] = sess[t]
  BY <1>1, <1>3 DEF Reply
<1>4. ASSUME NEW c \in Clients, NEW r \in Requests, Receive(s, c, r)
      PROVE  \A t \in Sessions \ {s} : sess'[t] = sess[t]
  <2>1. PICK u : sess' = [sess EXCEPT ![s] = u]
    BY <1>4 DEF Receive
  <2> QED BY <1>1, <2>1
<1>5. CASE AllowAttempt(s)
  BY <1>2, <1>3, <1>5, AttemptStep
<1>6. CASE HashSecret(s)
  <2>1. \/ \E d : sess' = [sess EXCEPT ![s].pc = "edit", ![s].digest = d]
        \/ \E status : Reply(s, status)
    BY <1>6 DEF HashSecret
  <2> QED BY <1>1, <1>3, <2>1
<1>7. CASE EditRecord(s)
  <2>1. \E e : sess' = [sess EXCEPT ![s].pc = "commit", ![s].base = version,
                                    ![s].edit = e]
    BY <1>7 DEF EditRecord
  <2> QED BY <1>1, <2>1
<1>8. CASE FindRecord(s)
  <2>1. \/ \E e : sess' = [sess EXCEPT ![s].pc = "commit",
                                       ![s].base = version, ![s].edit = e]
        \/ Reply(s, "ok")
    BY <1>8 DEF FindRecord
  <2> QED BY <1>1, <1>3, <2>1
<1>9. CASE Commit(s)
  BY <1>3, <1>9 DEF Commit
<1>10. CASE LookUp(s)
  <2>1. \E d : sess' = [sess EXCEPT ![s].pc = "check", ![s].digest = d]
    BY <1>10 DEF LookUp
  <2> QED BY <1>1, <2>1
<1>11. CASE CheckSecret(s)
  BY <1>2, <1>3, <1>11 DEF CheckSecret
<1>12. CASE Write(s)
  BY <1>1, <1>12 DEF Write
<1>13. CASE HashFails(s)
  BY <1>13 DEF HashFails
<1> QED BY <1>4, <1>5, <1>6, <1>7, <1>8, <1>9, <1>10, <1>11, <1>12, <1>13
        DEF Serve

LEMMA RefusalStep ==
    ASSUME ServiceInv, RateInv, [CredNext]_cvars
    PROVE  RefusesFairly
<1> DEFINE mine(s) == <<IF sess[s].req.kind = "verify" THEN "public"
                        ELSE "admin", sess[s].client>>
<1> SUFFICES ASSUME NEW s \in Sessions, sess[s].pc = "rate",
                    sess'[s].status = "too_many_requests"
             PROVE  GrantedIn(granted[mine(s)], config.attempts,
                              now - Window, now) >= config.attempts
  BY DEF RefusesFairly, ServiceInv, CredTypeOK
<1>1. sess[s].status = None /\ None # "too_many_requests"
  BY AtStep, NoneAssumption DEF StepOK
<1>2. sess'[s] # sess[s]
  BY <1>1
<1>3. ~ Terminate
  BY <1>1, IdleType DEF Terminate
<1>4. AllowAttempt(s)
  <2>1. ASSUME NEW t \in Sessions, Serve(t)
        PROVE  AllowAttempt(s)
    <3>1. t = s
      BY <1>2, <1>3, <2>1, OthersKept
    <3> QED BY <2>1, <3>1
            DEF Serve, HashSecret, HashFails, EditRecord, FindRecord, Commit,
                LookUp, CheckSecret, Write
  <2>2. ASSUME NEW t \in Sessions, NEW c \in Clients, NEW r \in Requests,
               Receive(t, c, r)
        PROVE  FALSE
    <3>1. t = s
      BY <1>2, <1>3, <2>2, OthersKept
    <3> QED BY <2>2, <3>1 DEF Receive
  <2>3. ~ Restart /\ ~ Tick /\ ~ UNCHANGED cvars
    BY <1>2 DEF Restart, Tick, cvars
  <2> QED BY <2>1, <2>2, <2>3 DEF CredNext
<1> DEFINE b == Bucket(s)
           w == CurrentWindow(b)
<1>5. ~ Admits(w)
  <2>1. SUFFICES ASSUME Goto(s, After(s))
                 PROVE  FALSE
    BY <1>4, AttemptStep
  <2>2. sess'[s].status = sess[s].status
    BY <2>1 DEF Goto, ServiceInv, CredTypeOK, SessionType
  <2> QED BY <1>1, <2>2
<1>6. b \in Buckets /\ b = mine(s)
  BY BucketType DEF Bucket
<1>7. WindowOK(granted[b], w, now, config.attempts)
      /\ now - w.start <= Window /\ ~ (w.count < config.attempts)
  BY <1>5, <1>6, WindowOpened DEF Admits
<1>8. Count(granted[b], config.attempts, now - Window, now) >= config.attempts
  <2> HIDE DEF b, w
  <2> QED BY <1>6, <1>7, HistoryType, Refused
<1> HIDE DEF b, w, mine
<1>9. GrantedIn(granted[b], config.attempts, now - Window, now)
        >= config.attempts
  BY <1>8 DEF GrantedIn, Count, Cells
<1> QED BY <1>6, <1>9

(* A request is refused only when requests of its own kind and address     *)
(* have used up the limit within the last window, so the public traffic of *)
(* an address never locks its administrator out (provision, remove).       *)
THEOREM RefusalsAreFair == CredSpec => RefusedFairly
<1>1. ServiceInv /\ RateInv /\ [CredNext]_cvars => [RefusesFairly]_cvars
  BY RefusalStep
<1> QED BY <1>1, ServiceInvariant, RateInvariant, PTL
        DEF CredSpec, RefusedFairly

-----------------------------------------------------------------------------
(* What the administrator has decided.                                     *)

(* A session that is not a verify has nothing to justify.                  *)
LEMMA NotVerify ==
    ASSUME NEW u, u.req.kind # "verify"
    PROVE  JustifiedOK(u) /\ \A st : CurrentOK(u, st)
BY DEF JustifiedOK, CurrentOK

LEMMA IdleJustified == JustifiedOK(Idle) /\ \A st : CurrentOK(Idle, st)
<1>1. Idle.req.kind = None /\ None # "verify"
  BY IdleType, NoneAssumption DEF NoRequest
<1> QED BY <1>1, NotVerify

(* The fields of a session after an assignment to some of them.            *)
LEMMA Fields ==
    ASSUME CredTypeOK, NEW s \in Sessions
    PROVE  /\ \A pc : Goto(s, pc) =>
                 /\ sess'[s].pc = pc /\ sess'[s].req = sess[s].req
                 /\ sess'[s].digest = sess[s].digest
           /\ \A status : Reply(s, status) =>
                 /\ sess'[s].pc = "write" /\ sess'[s].status = status
                 /\ sess'[s].req = sess[s].req
                 /\ sess'[s].digest = sess[s].digest
           /\ \A pc, d :
                 sess' = [sess EXCEPT ![s].pc = pc, ![s].digest = d] =>
                 /\ sess'[s].pc = pc /\ sess'[s].digest = d
                 /\ sess'[s].req = sess[s].req
           /\ \A e :
                 sess' = [sess EXCEPT ![s].pc = "commit",
                             ![s].base = version, ![s].edit = e] =>
                 /\ sess'[s].pc = "commit" /\ sess'[s].req = sess[s].req
                 /\ sess'[s].digest = sess[s].digest
<1>1. sess[s] \in SessionType /\ sess \in [Sessions -> SessionType]
  BY DEF CredTypeOK
<1>2. ASSUME NEW pc, Goto(s, pc)
      PROVE  /\ sess'[s].pc = pc /\ sess'[s].req = sess[s].req
             /\ sess'[s].digest = sess[s].digest
  BY <1>1, <1>2 DEF Goto, SessionType
<1>3. ASSUME NEW status, Reply(s, status)
      PROVE  /\ sess'[s].pc = "write" /\ sess'[s].status = status
             /\ sess'[s].req = sess[s].req
             /\ sess'[s].digest = sess[s].digest
  BY <1>1, <1>3 DEF Reply, SessionType
<1>4. ASSUME NEW pc, NEW d,
             sess' = [sess EXCEPT ![s].pc = pc, ![s].digest = d]
      PROVE  /\ sess'[s].pc = pc /\ sess'[s].digest = d
             /\ sess'[s].req = sess[s].req
  BY <1>1, <1>4 DEF SessionType
<1>5. ASSUME NEW e, sess' = [sess EXCEPT ![s].pc = "commit",
                                ![s].base = version, ![s].edit = e]
      PROVE  /\ sess'[s].pc = "commit" /\ sess'[s].req = sess[s].req
             /\ sess'[s].digest = sess[s].digest
  BY <1>1, <1>5 DEF SessionType
<1> QED BY <1>2, <1>3, <1>4, <1>5

LEMMA ReplyFields ==
    ASSUME CredTypeOK, NEW s \in Sessions, NEW status, Reply(s, status)
    PROVE  sess'[s].pc = "write" /\ sess'[s].status = status
BY DEF CredTypeOK, Reply, SessionType

(* A verify goes on as it was justified.                                   *)
LEMMA ServeJustified ==
    ASSUME OneCost \/ OneSession, ServiceInv, AdminInv,
           NEW s \in Sessions, Serve(s), ~ Terminate
    PROVE  JustifiedOK(sess'[s])
           /\ (Commit(s) \/ CurrentOK(sess'[s], stored))
<1> DEFINE u == sess[s]
           v == sess'[s]
<1>1. JustifiedOK(u) /\ CurrentOK(u, stored) /\ u \in SessionType
      /\ CredTypeOK
  BY DEF AdminInv, ServiceInv, CredTypeOK
<1>2. CASE AllowAttempt(s)
  <2>1. CASE Goto(s, After(s))
    <3>1. v.pc = After(s) /\ v.req = u.req
      BY <1>1, <2>1, Fields
    <3>2. v.req.kind = "verify" => v.pc = "lookup"
      BY <3>1 DEF After
    <3> QED BY <3>2, NotVerify DEF JustifiedOK, CurrentOK
  <2>2. CASE Reply(s, "too_many_requests")
    <3>1. v.pc = "write" /\ v.status = "too_many_requests"
      BY <1>1, <2>2, ReplyFields
    <3> QED BY <3>1 DEF JustifiedOK, CurrentOK
  <2> QED BY <1>2, <2>1, <2>2, AttemptStep
<1>3. CASE HashSecret(s)
  <2> DEFINE d == [secret |-> u.req.secret, cost |-> config.cost]
  <2>1. u.pc = "hash"
    BY <1>3 DEF HashSecret
  <2>2. CASE Valid(u.req)
    <3>1. sess' = [sess EXCEPT ![s].pc = "edit", ![s].digest = d]
      BY <1>3, <2>2 DEF HashSecret
    <3>2. d \in Digests /\ d.secret = u.req.secret
      <4>1. config.cost \in {c.cost : c \in Configs}
        BY <1>1 DEF CredTypeOK
      <4>2. u.req \in Served /\ Writes(u)
        BY <2>1, AtStep DEF StepOK
      <4>3. u.req.secret \in Secrets \cup {ShortSecret}
        BY <4>2, ServedRequests DEF Writes
      <4> QED BY <4>1, <4>3 DEF Digests
    <3> HIDE DEF d
    <3>3. v.pc = "edit" /\ v.digest = d /\ v.req = u.req
      BY <1>1, <3>1, Fields
    <3> QED BY <1>1, <2>1, <3>2, <3>3, NoneAssumption
            DEF JustifiedOK, CurrentOK, Current
  <2>3. CASE ~ Valid(u.req)
    <3>1. Reply(s, IF u.req.kind = "verify" THEN "ok" ELSE "bad_request")
      BY <1>3, <2>3 DEF HashSecret
    <3>2. v.pc = "write" /\ v.req = u.req /\ v.digest = u.digest
      BY <1>1, <3>1, Fields
    <3> QED BY <1>1, <2>1, <3>2 DEF JustifiedOK, CurrentOK
  <2> QED BY <2>2, <2>3
<1>4. CASE EditRecord(s)
  <2>1. u.pc = "edit"
    BY <1>4 DEF EditRecord
  <2>2. PICK e : sess' = [sess EXCEPT ![s].pc = "commit",
                             ![s].base = version, ![s].edit = e]
    BY <1>4 DEF EditRecord
  <2>3. v.pc = "commit" /\ v.digest = u.digest /\ v.req = u.req
    BY <1>1, <2>2, Fields
  <2> QED BY <1>1, <2>1, <2>3 DEF JustifiedOK, CurrentOK, Current
<1>5. CASE FindRecord(s)
  <2>1. u.req.kind = "remove"
    BY <1>5, AtStep DEF FindRecord, StepOK
  <2>2. \/ \E e : sess' = [sess EXCEPT ![s].pc = "commit",
                                       ![s].base = version, ![s].edit = e]
        \/ Reply(s, "ok")
    BY <1>5 DEF FindRecord
  <2>3. v.req = u.req
    BY <1>1, <2>2, Fields
  <2> QED BY <2>1, <2>3, NotVerify
<1>6. CASE Commit(s)
  <2>1. u.pc = "commit" /\ Reply(s, "ok")
    BY <1>6 DEF Commit
  <2>2. v.pc = "write" /\ v.req = u.req /\ v.digest = u.digest
    BY <1>1, <2>1, Fields
  <2> QED BY <1>1, <1>6, <2>1, <2>2 DEF JustifiedOK
<1>7. CASE LookUp(s)
  <2> DEFINE record == stored[u.req.principal]
             d == IF record = None THEN None
                  ELSE IF record.disabled THEN None ELSE record.digest
  <2>1. sess' = [sess EXCEPT ![s].pc = "check", ![s].digest = d]
    BY <1>7 DEF LookUp
  <2>2. d # None => record # None /\ ~ record.disabled /\ d = record.digest
    OBVIOUS
  <2> HIDE DEF d
  <2>3. v.pc = "check" /\ v.digest = d /\ v.req = u.req
    BY <1>1, <2>1, Fields
  <2> QED BY <2>2, <2>3 DEF JustifiedOK, CurrentOK, Current
<1>8. CASE CheckSecret(s)
  <2>1. u.pc = "check"
    BY <1>8 DEF CheckSecret
  <2>2. CASE Reply(s, "unauthorized")
    <3>1. v.pc = "write" /\ v.status = "unauthorized"
      BY <1>1, <2>2, ReplyFields
    <3> QED BY <3>1 DEF JustifiedOK, CurrentOK
  <2>3. CASE Matches(u.digest, u.req.secret) /\ Reply(s, "ok")
    <3>1. v.pc = "write" /\ v.req = u.req /\ v.digest = u.digest
      BY <1>1, <2>3, Fields
    <3> QED BY <2>3, <3>1 DEF JustifiedOK, CurrentOK, Matches
  <2>4. CASE /\ Matches(u.digest, u.req.secret) /\ NeedsRehash(u.digest)
             /\ Goto(s, "hash")
    <3>1. v.pc = "hash" /\ v.req = u.req /\ v.digest = u.digest
      BY <1>1, <2>4, Fields
    <3>2. ~ OneCost
      <4>1. u.digest \in Digests
        BY <1>1, <2>4 DEF Matches, SessionType
      <4>2. PICK c \in Configs : u.digest.cost = c.cost
        BY <4>1 DEF Digests
      <4>3. config \in Configs /\ c.cost # config.cost
        BY <1>1, <2>4, <4>2 DEF CredTypeOK, NeedsRehash
      <4> QED BY <4>3 DEF OneCost
    <3> QED BY <1>1, <2>1, <2>4, <3>1, <3>2
            DEF JustifiedOK, CurrentOK, Current, Matches
  <2> QED BY <1>8, <2>2, <2>3, <2>4 DEF CheckSecret
<1>9. CASE Write(s)
  <2>1. v = Idle
    BY <1>1, <1>9 DEF Write, CredTypeOK
  <2> QED BY <2>1, IdleJustified
<1>10. CASE HashFails(s)
  BY <1>10 DEF HashFails
<1> QED BY <1>2, <1>3, <1>4, <1>5, <1>6, <1>7, <1>8, <1>9, <1>10 DEF Serve

(* What a commit does to the record and to what the administrator set.     *)
LEMMA CommitDecides ==
    ASSUME ServiceInv, AdminInv, NEW s \in Sessions, Commit(s), ~ Conflict(s)
    PROVE  /\ Decided' /\ admin' \in [Principals -> Settings \cup {None}]
           /\ \A p \in Principals : stored'[p] # None => admin'[p] \in Settings
<1> DEFINE u == sess[s]
           r == sess[s].req
           p == sess[s].req.principal
<1>1. /\ u.pc = "commit" /\ stored' = u.edit
      /\ admin' = [admin EXCEPT ![p] = AdminWants(r)]
      /\ u.base = version
  BY DEF Commit, Conflict
<1>2. /\ u \in SessionType /\ StepOK(u) /\ EditOK(u, stored)
      /\ r \in Served /\ p \in Principals
  BY <1>1, AtStep DEF BaseOK, StepOK
<1>3. /\ r.kind \in {"provision", "verify", "remove"}
      /\ r.kind = "provision" => /\ r.secret \in Secrets \cup {ShortSecret}
                                 /\ r.disabled \in BOOLEAN
  BY <1>2, ServedRequests
<1>4. /\ Decided /\ admin \in [Principals -> Settings \cup {None}]
      /\ \A q \in Principals : stored[q] # None => admin[q] \in Settings
      /\ CurrentOK(u, stored)
  BY DEF AdminInv
<1>5. stored[p] # None => admin[p] \in Settings
  BY <1>2, <1>4
<1> DEFINE x == AdminWants(r)
<1>7. /\ x \in Settings
      /\ u.edit[p].disabled = x.disabled
      /\ u.edit[p].digest.secret = x.secret
  <2>1. CASE r.kind = "provision"
    <3>1. x = [secret |-> r.secret, disabled |-> r.disabled]
      BY <2>1 DEF AdminWants
    <3>2. /\ u.edit[p].digest = u.digest /\ u.digest.secret = r.secret
          /\ u.edit[p].disabled = r.disabled
      BY <1>1, <1>2, <1>3, <2>1 DEF EditOK, StepOK, Writes
    <3> QED BY <1>3, <2>1, <3>1, <3>2 DEF Settings
  <2>2. CASE r.kind = "verify"
    <3>1. x = admin[p]
      BY <2>2 DEF AdminWants
    <3>2. /\ u.edit[p].digest = u.digest /\ u.digest.secret = r.secret
          /\ u.edit[p].disabled = FALSE
      BY <1>1, <1>2, <2>2 DEF EditOK, StepOK, Writes
    <3>3. /\ stored[p] # None /\ ~ stored[p].disabled
          /\ stored[p].digest.secret = r.secret
      BY <1>1, <1>4, <2>2 DEF CurrentOK, Current
    <3>4. /\ admin[p].disabled = stored[p].disabled
          /\ admin[p].secret = r.secret
      BY <1>2, <1>4, <3>3 DEF Decided
    <3>5. admin[p].disabled \in BOOLEAN /\ admin[p] \in Settings
      BY <1>5, <3>3 DEF Settings
    <3>6. admin[p].disabled = FALSE
      BY <3>3, <3>4, <3>5
    <3> QED BY <3>1, <3>2, <3>4, <3>5, <3>6
  <2>3. CASE r.kind = "remove"
    <3>1. x = [admin[p] EXCEPT !.disabled = TRUE]
      BY <2>3 DEF AdminWants
    <3>2. stored[p] # None
          /\ u.edit[p] = [stored[p] EXCEPT !.disabled = TRUE]
      BY <1>2, <2>3 DEF EditOK, Writes
    <3>3. stored[p] \in Records
      BY <1>2, <3>2 DEF ServiceInv, CredTypeOK, Stores
    <3>4. u.edit[p].disabled = TRUE
          /\ u.edit[p].digest = stored[p].digest
      BY <3>2, <3>3 DEF Records
    <3>5. admin[p] \in Settings /\ admin[p].secret = stored[p].digest.secret
      BY <1>2, <1>4, <1>5, <3>2 DEF Decided
    <3>6. x \in Settings /\ x.disabled = TRUE /\ x.secret = admin[p].secret
      BY <3>1, <3>5 DEF Settings
    <3> QED BY <3>4, <3>5, <3>6
  <2> QED BY <1>3, <2>1, <2>2, <2>3
<1> HIDE DEF x
<1>8. /\ admin' \in [Principals -> Settings \cup {None}]
      /\ admin'[p] = x
      /\ \A q \in Principals \ {p} : admin'[q] = admin[q]
  BY <1>1, <1>2, <1>4, <1>7 DEF x
<1>9. \A q \in Principals \ {p} : stored'[q] = stored[q]
  BY <1>1, <1>2 DEF EditOK
<1>11. stored'[p] = u.edit[p]
  BY <1>1
<1> HIDE DEF u, p
<1>12. ASSUME NEW q \in Principals, stored'[q] # None
       PROVE  /\ stored'[q].disabled = admin'[q].disabled
              /\ stored'[q].digest.secret = admin'[q].secret
              /\ admin'[q] \in Settings
  <2>1. CASE q = p
    BY <1>7, <1>8, <1>11, <2>1
  <2>2. CASE q # p
    <3>1. stored'[q] = stored[q] /\ admin'[q] = admin[q]
      BY <1>8, <1>9, <2>2
    <3> QED BY <1>4, <1>12, <3>1 DEF Decided
  <2> QED BY <2>1, <2>2
<1> QED BY <1>8, <1>12 DEF Decided

LEMMA AdminNext ==
    ASSUME OneCost \/ OneSession, ServiceInv, AdminInv, [CredNext]_cvars
    PROVE  AdminInv'
<1> DEFINE Good(u, st) == JustifiedOK(u) /\ CurrentOK(u, st)
<1>1. /\ \A s \in Sessions : Good(sess[s], stored)
      /\ Decided /\ admin \in [Principals -> Settings \cup {None}]
      /\ \A p \in Principals : stored[p] # None => admin[p] \in Settings
      /\ sess \in [Sessions -> SessionType]
  BY DEF AdminInv, ServiceInv, CredTypeOK
<1>2. ASSUME UNCHANGED <<version, stored, admin>>
      PROVE  /\ Decided' /\ admin' \in [Principals -> Settings \cup {None}]
             /\ \A p \in Principals :
                   stored'[p] # None => admin'[p] \in Settings
  BY <1>1, <1>2 DEF Decided
<1>3. /\ Decided' /\ admin' \in [Principals -> Settings \cup {None}]
      /\ \A p \in Principals : stored'[p] # None => admin'[p] \in Settings
  BY <1>2, CommitDecides, StoredChanges
<1>4. ASSUME NEW t \in Sessions
      PROVE  Good(sess'[t], stored')
  <2>1. CASE Terminate
    <3>1. sess'[t] = Idle
      BY <2>1 DEF Terminate
    <3> QED BY <3>1, IdleJustified
  <2>2. ASSUME NEW s \in Sessions, Serve(s), ~ Terminate, t = s
        PROVE  Good(sess'[t], stored')
    <3>1. JustifiedOK(sess'[t])
      BY <2>2, ServeJustified
    <3>2. CASE Commit(s)
      <4>1. Reply(s, "ok")
        BY <2>2, <3>2 DEF Commit
      <4>2. sess'[t].pc = "write"
        BY <2>2, <4>1, ReplyFields DEF ServiceInv
      <4>3. CurrentOK(sess'[t], stored')
        BY <4>2 DEF CurrentOK
      <4> QED BY <3>1, <4>3
    <3>3. CASE ~ Commit(s)
      <4>1. CurrentOK(sess'[t], stored)
        BY <2>2, <3>3, ServeJustified
      <4>2. stored' = stored
        BY <2>2, <3>3
           DEF Serve, AllowAttempt, HashSecret, HashFails, EditRecord,
               FindRecord, LookUp, CheckSecret, Write, heapVars
      <4> QED BY <3>1, <4>1, <4>2
    <3> QED BY <3>2, <3>3
  <2>3. ASSUME NEW s \in Sessions, Serve(s), ~ Terminate, t # s
        PROVE  Good(sess'[t], stored')
    <3>1. sess'[t] = sess[t]
      BY <2>3, OthersKept
    <3>2. OneCost /\ ~ OneSession
      BY <2>3 DEF OneSession
    <3>3. CurrentOK(sess[t], stored) => CurrentOK(sess[t], stored')
      BY <3>2 DEF CurrentOK
    <3> QED BY <1>1, <3>1, <3>3
  <2>4. ASSUME NEW s \in Sessions, NEW c \in Clients, NEW r \in Requests,
               Receive(s, c, r)
        PROVE  Good(sess'[t], stored')
    <3> DEFINE u == IF Routed(r) = None
                    THEN [Idle EXCEPT !.pc = "rate", !.client = c, !.req = r]
                    ELSE [Idle EXCEPT !.pc = "write", !.status = Routed(r)]
    <3>1. sess' = [sess EXCEPT ![s] = u] /\ stored' = stored
      BY <2>4 DEF Receive, heapVars
    <3>2. u.pc = "rate" \/ u.req.kind # "verify"
      <4>1. CASE Routed(r) = None
        BY <4>1, IdleType DEF SessionType
      <4>2. CASE Routed(r) # None
        <5>1. u.req = Idle.req
          BY <4>2, IdleType DEF SessionType
        <5>2. Idle.req.kind = None /\ None # "verify"
          BY IdleType, NoneAssumption DEF NoRequest
        <5> QED BY <5>1, <5>2
      <4> QED BY <4>1, <4>2
    <3> HIDE DEF u
    <3>3. Good(u, stored)
      BY <3>2, NotVerify DEF JustifiedOK, CurrentOK
    <3>4. sess'[t] = IF t = s THEN u ELSE sess[t]
      BY <1>1, <3>1
    <3> HIDE DEF Good
    <3> QED BY <1>1, <3>1, <3>3, <3>4
  <2>5. CASE Restart \/ Tick \/ UNCHANGED cvars
    <3>1. sess'[t] = sess[t] /\ stored' = stored
      BY <2>5 DEF Restart, Tick, cvars, heapVars
    <3> QED BY <1>1, <3>1
  <2> QED BY <2>1, <2>2, <2>3, <2>4, <2>5 DEF CredNext
<1>5. \A s \in Sessions : (JustifiedOK(sess[s]) /\ CurrentOK(sess[s], stored))'
  BY <1>4
<1> QED BY <1>3, <1>5 DEF AdminInv

(* Authentication is decided by the last successful administrative         *)
(* request, and a verify that succeeds has presented the secret of an      *)
(* enabled record.  The first part needs that rehashes replace what was    *)
(* read: no change of the cost of hashing, with any number of sessions, or *)
(* one session, with any change of cost (the rehash in verify).            *)
THEOREM AdministratorDecides ==
    ASSUME OneCost \/ OneSession
    PROVE  CredSpec => []AdminDecides
<1>1. CredInit => AdminInv
  <2> SUFFICES ASSUME CredInit
               PROVE  AdminInv
    OBVIOUS
  <2>1. \A s \in Sessions : sess[s] = Idle
    BY DEF CredInit
  <2>2. \A p \in Principals : stored[p] = None
    BY DEF CredInit
  <2>3. admin \in [Principals -> Settings \cup {None}]
    BY DEF CredInit
  <2> QED BY <2>1, <2>2, <2>3, IdleJustified DEF AdminInv, Decided
<1>2. ServiceInv /\ AdminInv /\ [CredNext]_cvars => AdminInv'
  BY AdminNext
<1>3. ServiceInv /\ AdminInv => AdminDecides
  <2> SUFFICES ASSUME ServiceInv, AdminInv
               PROVE  VerifyJustified
    BY DEF AdminDecides, AdminInv
  <2>1. DOMAIN sess = Sessions
    BY DEF ServiceInv, CredTypeOK
  <2> QED BY <2>1 DEF AdminInv, VerifyJustified, JustifiedOK
<1> QED BY <1>1, <1>2, <1>3, ServiceInvariant, PTL DEF CredSpec
=============================================================================

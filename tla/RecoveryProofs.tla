--------------------------- MODULE RecoveryProofs ---------------------------
(***************************************************************************)
(* A heap that was stopped by a crash opens again, and with whole          *)
(* batches.  The argument follows the files, not the memory: in every      *)
(* state of a running heap, each journal a crash may leave, together with  *)
(* each snapshot it may leave, is Recoverable.  That the recovery scan     *)
(* then accepts the journal and arrives at whole batches is a fact about   *)
(* these two files alone; so is that the locators it leaves in the index   *)
(* designate the bytes of the versions, once both files hold no others.    *)
(***************************************************************************)
EXTENDS Recovery, HeapDurabilityProofs, WellFoundedInduction

(* The versions that survive a crash for certain: the batch in doubt does  *)
(* not count.                                                              *)
Kept ==
    [n \in Names |-> IF n \in DOMAIN doubt THEN doubt[n].version - 1
                                           ELSE Len(hist[n])]

(* Record j of a journal makes version v of root n, and a COMMIT in front  *)
(* of position p has settled it.                                           *)
Makes(log, j, n, v) ==
    /\ log[j].type = "root_update"
    /\ log[j].name = n
    /\ log[j].version = v
MadeBefore(log, p, n, v) == \E j \in 1 .. p - 1 : Makes(log, j, n, v)
Settled(log, p, n, v) ==
    \E c \in 1 .. p - 1 : log[c].type = "commit" /\ MadeBefore(log, c, n, v)

(* The grammar of a journal: batches one behind the other, of which only   *)
(* the last may be cut off, with sequence numbers that increase.           *)
RecordOK(log, i) ==
    /\ log[i].type = "torn" => i = Len(log)
    /\ log[i].type = "begin" => i = 1 \/ log[i - 1].type = "commit"
    /\ log[i].type \in {"root_update", "commit"} =>
           /\ i > 1
           /\ log[i - 1].type \in {"begin", "root_update"}
           /\ log[i - 1].tx = log[i].tx
    /\ log[i].type = "commit" =>
           /\ log[i].count < i - 1
           /\ log[i - 1 - log[i].count].type = "begin"
           /\ \A k \in i - log[i].count .. i - 1 :
                  log[k].type = "root_update"
    /\ log[i].type # "torn" => log[i].tx \in 1 .. MaxTx
Ordered(log) ==
    \A i, j \in 1 .. Len(log) :
        i < j /\ log[j].type # "torn" => log[i].seq < log[j].seq
LogOK(log) ==
    /\ log \in Seq(Record)
    /\ \A i \in 1 .. Len(log) : RecordOK(log, i)
    /\ Ordered(log)

(* Each update continues a version of the snapshot or of an earlier batch. *)
Chained(log, base) ==
    \A i \in 1 .. Len(log) :
        log[i].type = "root_update" =>
            /\ log[i].version = log[i].expected + 1
            /\ \/ log[i].expected <= base[log[i].name].version
               \/ Settled(log, i, log[i].name, log[i].expected)

(* Snapshot and journal together have every kept version ...               *)
Complete(log, base, kept) ==
    \A n \in Names : \/ kept[n] <= base[n].version
                     \/ Settled(log, Len(log) + 1, n, kept[n])

(* ... and nothing newer, unless it is the whole batch in doubt, which     *)
(* updates the names D.                                                    *)
WithinDoubt(log, c, j, kept, D) ==
    /\ log[j].name \in D
    /\ log[j].version = kept[log[j].name] + 1
    /\ \A m \in D : MadeBefore(log, c, m, kept[m] + 1)
Bounded(log, base, kept, D) ==
    /\ \A n \in Names : base[n].version <= kept[n]
    /\ \A c \in 1 .. Len(log) : log[c].type = "commit" =>
           \A j \in 1 .. c - 1 : log[j].type = "root_update" =>
               \/ log[j].version <= kept[log[j].name]
               \/ WithinDoubt(log, c, j, kept, D)

Recoverable(log, base, kept, D) ==
    /\ LogOK(log)
    /\ Chained(log, base)
    /\ Complete(log, base, kept)
    /\ Bounded(log, base, kept, D)

-----------------------------------------------------------------------------
(* Facts about journals.                                                   *)

LEMMA RecordKind ==
    ASSUME NEW r \in Record
    PROVE  /\ r.type \in {"begin", "root_update", "commit", "torn"}
           /\ r = Torn <=> r.type = "torn"
           /\ r.type # "torn" => r.seq \in Nat
           /\ r.type = "root_update" =>
                  r.name \in Names /\ r.expected \in Nat /\ r.version \in Nat
           /\ r.type = "commit" => r.count \in Nat
  BY DEF Record, BeginRecord, UpdateRecord, CommitRecord, Torn

(* The beginning of a journal.                                             *)
Part(part, log) ==
    /\ part \in Seq(Record)
    /\ log \in Seq(Record)
    /\ Len(part) <= Len(log)
    /\ \A i \in 1 .. Len(part) : part[i] = log[i]

(* A prefix settles what the whole journal settles up to the same point.   *)
LEMMA PartSettles ==
    ASSUME NEW part, NEW log, Part(part, log),
           NEW p \in 1 .. Len(part) + 1, NEW n, NEW v
    PROVE  /\ MadeBefore(part, p, n, v) <=> MadeBefore(log, p, n, v)
           /\ Settled(part, p, n, v) <=> Settled(log, p, n, v)
<1>1. Len(part) \in Nat
  BY DEF Part
<1>2. ASSUME NEW q \in 1 .. Len(part) + 1
      PROVE  MadeBefore(part, q, n, v) <=> MadeBefore(log, q, n, v)
  <2>1. \A j \in 1 .. q - 1 : part[j] = log[j]
    BY <1>1 DEF Part
  <2> QED
    BY <2>1, Zenon DEF MadeBefore, Makes
<1>3. \A c \in 1 .. p - 1 : c \in 1 .. Len(part) + 1 /\ part[c] = log[c]
  BY <1>1 DEF Part
<1> QED
  BY <1>2, <1>3 DEF Settled

(* What is settled stays settled further on.                               *)
LEMMA SettledLater ==
    ASSUME NEW log, NEW p \in Int, NEW q \in Int, p <= q, NEW n, NEW v,
           Settled(log, p, n, v)
    PROVE  Settled(log, q, n, v)
  BY DEF Settled

(* The beginning of a well-formed journal is well-formed ...               *)
LEMMA PartOK ==
    ASSUME NEW part, NEW log, Part(part, log), LogOK(log)
    PROVE  LogOK(part)
<1>1. /\ Len(part) \in Nat /\ Len(log) \in Nat
      /\ Len(part) <= Len(log)
      /\ \A i \in 1 .. Len(part) : part[i] = log[i] /\ i \in 1 .. Len(log)
  BY DEF Part
<1>2. ASSUME NEW i \in 1 .. Len(part)
      PROVE  RecordOK(part, i)
  <2>1. RecordOK(log, i) /\ i \in 1 .. Len(log)
    BY <1>1 DEF LogOK
  <2>2. log[i].type = "torn" => i = Len(part)
    BY <1>1, <2>1 DEF RecordOK
  <2>3. i > 1 => i - 1 \in 1 .. Len(part)
    BY <1>1
  <2>4. log[i].type = "commit" =>
          /\ log[i].count \in Nat
          /\ i - 1 - log[i].count \in 1 .. Len(part)
          /\ \A k \in i - log[i].count .. i - 1 : k \in 1 .. Len(part)
    <3>1. log[i] \in Record
      BY <2>1 DEF LogOK
    <3>2. log[i].type = "commit" => log[i].count \in Nat
      BY <3>1, RecordKind
    <3> QED
      BY <1>1, <2>1, <3>2 DEF RecordOK
  <2>5. part[i] = log[i]
    BY <1>1
  <2> QED
    BY <1>1, <2>1, <2>2, <2>3, <2>4, <2>5, SMTT(40) DEF RecordOK
<1>3. Ordered(part)
  BY <1>1 DEF Ordered, LogOK
<1> QED
  BY <1>2, <1>3 DEF LogOK, Part

(* ... its updates continue what they continued ...                        *)
LEMMA PartChained ==
    ASSUME NEW part, NEW log, Part(part, log), NEW base, Chained(log, base)
    PROVE  Chained(part, base)
<1> SUFFICES ASSUME NEW i \in 1 .. Len(part), part[i].type = "root_update"
             PROVE  /\ part[i].version = part[i].expected + 1
                    /\ \/ part[i].expected <= base[part[i].name].version
                       \/ Settled(part, i, part[i].name, part[i].expected)
  BY DEF Chained
<1>1. part[i] = log[i] /\ i \in 1 .. Len(log) /\ i \in 1 .. Len(part) + 1
  BY DEF Part
<1>2. /\ log[i].version = log[i].expected + 1
      /\ \/ log[i].expected <= base[log[i].name].version
         \/ Settled(log, i, log[i].name, log[i].expected)
  BY <1>1 DEF Chained
<1> QED
  BY <1>1, <1>2, PartSettles

(* ... and it settles nothing that the whole did not.                      *)
LEMMA PartBounded ==
    ASSUME NEW part, NEW log, Part(part, log), NEW base, NEW kept, NEW D,
           Bounded(log, base, kept, D)
    PROVE  Bounded(part, base, kept, D)
<1> SUFFICES ASSUME NEW c \in 1 .. Len(part), part[c].type = "commit",
                    NEW j \in 1 .. c - 1, part[j].type = "root_update"
             PROVE  \/ part[j].version <= kept[part[j].name]
                    \/ WithinDoubt(part, c, j, kept, D)
  BY DEF Bounded
<1>1. /\ part[c] = log[c] /\ c \in 1 .. Len(log)
      /\ part[j] = log[j] /\ c \in 1 .. Len(part) + 1
  BY DEF Part
<1>2. \/ log[j].version <= kept[log[j].name]
      \/ WithinDoubt(log, c, j, kept, D)
  BY <1>1 DEF Bounded
<1>3. \A m \in D : MadeBefore(log, c, m, kept[m] + 1) =>
                       MadeBefore(part, c, m, kept[m] + 1)
  BY <1>1, PartSettles
<1> QED
  BY <1>1, <1>2, <1>3 DEF WithinDoubt

(* A journal that grows keeps what it had.                                 *)
LEMMA PartComplete ==
    ASSUME NEW part, NEW log, Part(part, log), NEW base, NEW kept,
           Complete(part, base, kept)
    PROVE  Complete(log, base, kept)
<1> SUFFICES ASSUME NEW n \in Names,
                    Settled(part, Len(part) + 1, n, kept[n])
             PROVE  Settled(log, Len(log) + 1, n, kept[n])
  BY DEF Complete
<1>1. /\ Len(part) \in Nat /\ Len(log) \in Nat
      /\ Len(part) + 1 <= Len(log) + 1
  BY DEF Part
<1>2. Settled(log, Len(part) + 1, n, kept[n])
  BY <1>1, PartSettles
<1> QED
  BY <1>1, <1>2, SettledLater

(* An incomplete record behind a journal changes nothing but its length.   *)
LEMMA TornBehind ==
    ASSUME NEW log, LogOK(log), NEW base, NEW kept, NEW D,
           Chained(log, base), Bounded(log, base, kept, D),
           \A i \in 1 .. Len(log) : log[i].type # "torn"
    PROVE  /\ Part(log, Append(log, Torn))
           /\ LogOK(Append(log, Torn))
           /\ Chained(Append(log, Torn), base)
           /\ Bounded(Append(log, Torn), base, kept, D)
<1> DEFINE more == Append(log, Torn)
<1>1. /\ log \in Seq(Record) /\ more \in Seq(Record)
      /\ Len(log) \in Nat /\ Len(more) = Len(log) + 1
      /\ \A i \in 1 .. Len(log) : more[i] = log[i]
      /\ more[Len(log) + 1].type = "torn"
  BY DEF LogOK, Record, Torn
<1> HIDE DEF more
<1>2. Part(log, more)
  BY <1>1 DEF Part
<1>3. \A i \in 1 .. Len(more) : more[i].type # "torn" => i \in 1 .. Len(log)
  BY <1>1
<1>4. LogOK(more)
  <2>1. ASSUME NEW i \in 1 .. Len(more)
        PROVE  RecordOK(more, i)
    <3>1. CASE more[i].type = "torn"
      BY <1>1, <3>1 DEF RecordOK
    <3>2. CASE more[i].type # "torn"
      <4>1. i \in 1 .. Len(log) /\ RecordOK(log, i) /\ more[i] = log[i]
        BY <1>1, <3>2, <1>3 DEF LogOK
      <4>2. i > 1 => i - 1 \in 1 .. Len(log) /\ more[i - 1] = log[i - 1]
        BY <1>1, <4>1
      <4>3. log[i].type = "commit" => log[i].count \in Nat
        BY <4>1, <1>1, RecordKind
      <4>4. log[i].type = "commit" =>
              /\ i - 1 - log[i].count \in 1 .. Len(log)
              /\ \A k \in i - log[i].count .. i - 1 : k \in 1 .. Len(log)
        BY <1>1, <4>1, <4>3 DEF RecordOK
      <4> QED
        BY <1>1, <3>2, <4>1, <4>2, <4>4 DEF RecordOK
    <3> QED
      BY <3>1, <3>2
  <2>2. Ordered(more)
    BY <1>1, <1>3 DEF Ordered, LogOK
  <2> QED
    BY <1>1, <2>1, <2>2 DEF LogOK
<1>5. ASSUME NEW p \in 1 .. Len(log) + 1, NEW n, NEW v
      PROVE  /\ MadeBefore(log, p, n, v) <=> MadeBefore(more, p, n, v)
             /\ Settled(log, p, n, v) <=> Settled(more, p, n, v)
  BY <1>2, PartSettles
<1>6. Chained(more, base)
  <2> SUFFICES ASSUME NEW i \in 1 .. Len(more), more[i].type = "root_update"
               PROVE  /\ more[i].version = more[i].expected + 1
                      /\ \/ more[i].expected <= base[more[i].name].version
                         \/ Settled(more, i, more[i].name, more[i].expected)
    BY DEF Chained
  <2>1. i \in 1 .. Len(log) /\ i \in 1 .. Len(log) + 1 /\ more[i] = log[i]
    BY <1>1, <1>3
  <2>2. /\ log[i].version = log[i].expected + 1
        /\ \/ log[i].expected <= base[log[i].name].version
           \/ Settled(log, i, log[i].name, log[i].expected)
    BY <2>1 DEF Chained
  <2> QED
    BY <2>1, <2>2, <1>5
<1>7. Bounded(more, base, kept, D)
  <2> SUFFICES ASSUME NEW c \in 1 .. Len(more), more[c].type = "commit",
                      NEW j \in 1 .. c - 1, more[j].type = "root_update"
               PROVE  \/ more[j].version <= kept[more[j].name]
                      \/ WithinDoubt(more, c, j, kept, D)
    BY DEF Bounded
  <2>1. /\ c \in 1 .. Len(log) /\ c \in 1 .. Len(log) + 1
        /\ more[c] = log[c] /\ more[j] = log[j]
    BY <1>1, <1>3
  <2>2. \/ log[j].version <= kept[log[j].name]
        \/ WithinDoubt(log, c, j, kept, D)
    BY <2>1 DEF Bounded
  <2>3. \A m \in D : MadeBefore(log, c, m, kept[m] + 1) =>
                         MadeBefore(more, c, m, kept[m] + 1)
    BY <2>1, <1>5
  <2> QED
    BY <2>1, <2>2, <2>3 DEF WithinDoubt
<1> QED
  BY <1>2, <1>4, <1>6, <1>7 DEF more

-----------------------------------------------------------------------------
(* A batch behind a journal of whole batches.                              *)

WholeBatches(log) == log # << >> => log[Len(log)].type = "commit"
Numbered(log, last) ==
    \A i \in 1 .. Len(log) : log[i].type # "torn" => log[i].seq <= last

(* The records of a batch: BEGIN, one update per dirty root, COMMIT.       *)
LEMMA BatchShape ==
    ASSUME NEW id, NEW seq \in Nat, NEW work, NEW order \in Seq(Names)
    PROVE  LET b == Batch(id, seq, order, work)
               k == Len(order)
           IN  /\ k \in Nat
               /\ b[1].type = "begin" /\ b[1].seq = seq + 1 /\ b[1].tx = id
               /\ \A i \in 2 .. k + 1 :
                     /\ b[i].type = "root_update"
                     /\ b[i].seq = seq + i /\ b[i].tx = id
                     /\ b[i].name = order[i - 1]
                     /\ b[i].expected = work[order[i - 1]].expected
                     /\ b[i].version = work[order[i - 1]].expected + 1
               /\ b[k + 2].type = "commit"
               /\ b[k + 2].seq = seq + k + 2 /\ b[k + 2].tx = id
               /\ b[k + 2].count = k
  BY DEF Batch

(* The situation of a thread that is about to append.                      *)
Appendable(log, last, base, kept, id, order, work) ==
    /\ LogOK(log) /\ WholeBatches(log) /\ last \in Nat /\ Numbered(log, last)
    /\ Chained(log, base)
    /\ Complete(log, base, kept)
    /\ id \in 1 .. MaxTx
    /\ work \in [Names -> Work]
    /\ order \in CommitOrder(work)
    /\ \A n \in Dirty(work) : kept[n] = work[n].expected

(* Where the records of the batch are.                                     *)
LEMMA BatchPlaces ==
    ASSUME NEW log \in Seq(Record), NEW id \in Nat, NEW seq \in Nat,
           NEW work \in [Names -> Work], NEW order \in CommitOrder(work)
    PROVE  LET b == Batch(id, seq, order, work)
               more == log \o b
               k == Len(order)
               l == Len(log)
           IN  /\ k \in Nat /\ l \in Nat /\ more \in Seq(Record)
               /\ Len(more) = l + k + 2
               /\ \A i \in 1 .. l : more[i] = log[i]
               /\ \A i \in l + 1 .. l + k + 2 : more[i] = b[i - l]
               /\ Part(log, more)
<1> DEFINE b == Batch(id, seq, order, work)
           more == log \o b
           k == Len(order)
           l == Len(log)
<1>1. order \in Seq(Names)
  BY OrderType
<1>2. b \in Seq(Record) /\ Len(b) = k + 2 /\ k \in Nat
  BY <1>1, BatchType
<1> HIDE DEF b
<1>3. /\ l \in Nat /\ more \in Seq(Record) /\ Len(more) = l + k + 2
      /\ \A i \in 1 .. l : more[i] = log[i]
      /\ \A i \in l + 1 .. l + k + 2 : more[i] = b[i - l]
  BY <1>2
<1>4. Part(log, more)
  BY <1>2, <1>3 DEF Part
<1> QED
  BY <1>2, <1>3, <1>4 DEF b

(* A journal with a whole batch behind it is well-formed and chained.      *)
LEMMA BatchBehind ==
    ASSUME NEW log, NEW last, NEW base, NEW kept, NEW id, NEW order, NEW work,
           Appendable(log, last, base, kept, id, order, work)
    PROVE  LET more == log \o Batch(id, last, order, work)
           IN  /\ LogOK(more)
               /\ Chained(more, base)
<1> DEFINE b == Batch(id, last, order, work)
           more == log \o b
           k == Len(order)
           l == Len(log)
<1>1. /\ log \in Seq(Record) /\ id \in Nat /\ last \in Nat
      /\ work \in [Names -> Work] /\ order \in CommitOrder(work)
      /\ order \in Seq(Names)
  BY HeapAssumption, OrderType DEF Appendable, LogOK
<1>2. /\ k \in Nat /\ l \in Nat /\ more \in Seq(Record)
      /\ Len(more) = l + k + 2
      /\ \A i \in 1 .. l : more[i] = log[i]
      /\ \A i \in l + 1 .. l + k + 2 : more[i] = b[i - l]
      /\ Part(log, more)
  BY <1>1, BatchPlaces
<1>3. /\ b[1].type = "begin" /\ b[1].seq = last + 1 /\ b[1].tx = id
      /\ \A i \in 2 .. k + 1 :
            /\ b[i].type = "root_update"
            /\ b[i].seq = last + i /\ b[i].tx = id
            /\ b[i].name = order[i - 1]
            /\ b[i].expected = work[order[i - 1]].expected
            /\ b[i].version = work[order[i - 1]].expected + 1
      /\ b[k + 2].type = "commit"
      /\ b[k + 2].seq = last + k + 2 /\ b[k + 2].tx = id
      /\ b[k + 2].count = k
  BY <1>1, BatchShape
<1>4. \A i \in 1 .. k : order[i] \in Dirty(work)
  BY <1>1, OrderType
<1>0. k = Len(order) /\ l = Len(log)
  OBVIOUS
<1> HIDE DEF b, more, k, l
<1>5. /\ \A i \in l + 1 .. l + k + 2 : more[i].seq = last + i - l
      /\ \A i \in l + 1 .. l + k + 2 : more[i].tx = id
      /\ more[l + 1].type = "begin"
      /\ \A i \in l + 2 .. l + k + 1 : more[i].type = "root_update"
      /\ more[l + k + 2].type = "commit"
      /\ more[l + k + 2].count = k
  <2>1. ASSUME NEW i \in l + 1 .. l + k + 2
        PROVE  more[i].seq = last + i - l /\ more[i].tx = id
    <3>1. PICK d \in 1 .. k + 2 : d = i - l
      BY <1>2
    <3>2. d = 1 \/ d \in 2 .. k + 1 \/ d = k + 2
      BY <1>2
    <3>3. b[d].seq = last + d /\ b[d].tx = id
      <4>1. CASE d = 1
        BY <1>3, <4>1
      <4>2. CASE d \in 2 .. k + 1
        BY <1>3, <4>2
      <4>3. CASE d = k + 2
        <5>1. last + d = last + k + 2
          BY <1>1, <1>2, <4>3
        <5> QED
          BY <1>3, <4>3, <5>1
      <4> QED
        BY <3>2, <4>1, <4>2, <4>3
    <3>4. more[i] = b[d] /\ last + d = last + i - l
      BY <1>1, <1>2, <3>1
    <3> QED
      BY <3>3, <3>4
  <2>2. more[l + 1] = b[1] /\ more[l + k + 2] = b[k + 2]
    BY <1>2
  <2>3. \A i \in l + 2 .. l + k + 1 :
           more[i] = b[i - l] /\ i - l \in 2 .. k + 1
    BY <1>2
  <2> QED
    BY <1>3, <2>1, <2>2, <2>3
<1>6. LogOK(more)
  <2>1. ASSUME NEW i \in 1 .. Len(more)
        PROVE  RecordOK(more, i)
    <3>1. CASE i \in 1 .. l
      <4>1. RecordOK(log, i) /\ more[i] = log[i] /\ log[i] \in Record
        BY <3>1, <1>0, <1>1, <1>2 DEF Appendable, LogOK
      <4>2. log[i].type # "torn"
        BY <1>0, <3>1, <4>1, <1>2 DEF RecordOK, Appendable, WholeBatches
      <4>3. i > 1 => i - 1 \in 1 .. l /\ more[i - 1] = log[i - 1]
        BY <1>2, <3>1
      <4>4. log[i].type = "commit" => log[i].count \in Nat
        BY <4>1, RecordKind
      <4>5. log[i].type = "commit" =>
              /\ i - 1 - log[i].count \in 1 .. l
              /\ \A j \in i - log[i].count .. i - 1 : j \in 1 .. l
        BY <1>2, <3>1, <4>1, <4>4 DEF RecordOK
      <4> QED
        BY <1>2, <4>1, <4>2, <4>3, <4>5 DEF RecordOK
    <3>2. CASE i = l + 1
      <4>1. i = 1 \/ more[i - 1].type = "commit"
        <5>1. CASE l = 0
          BY <5>1, <3>2
        <5>2. CASE l > 0
          BY <5>2, <3>2, <1>0, <1>1, <1>2 DEF Appendable, WholeBatches
        <5> QED
          BY <5>1, <5>2, <1>2
      <4> QED
        BY <1>2, <1>5, <3>2, <4>1 DEF RecordOK, Appendable
    <3>3. CASE i \in l + 2 .. l + k + 1
      <4>1. /\ more[i].type = "root_update" /\ i > 1
            /\ i - 1 = l + 1 \/ i - 1 \in l + 2 .. l + k + 1
            /\ more[i].tx = id /\ more[i - 1].tx = id
        BY <3>3, <1>2, <1>5
      <4>2. more[i - 1].type \in {"begin", "root_update"}
        BY <1>5, <4>1
      <4> QED
        BY <4>1, <4>2 DEF RecordOK, Appendable
    <3>4. CASE i = l + k + 2
      <4>1. /\ more[i].type = "commit" /\ i > 1 /\ more[i].count = k
            /\ i - 1 = l + 1 \/ i - 1 \in l + 2 .. l + k + 1
            /\ i - 1 - k = l + 1
            /\ more[i].tx = id /\ more[i - 1].tx = id
            /\ k < i - 1
        BY <3>4, <1>2, <1>5
      <4>2. more[i - 1].type \in {"begin", "root_update"}
        BY <1>5, <4>1
      <4>3. \A j \in i - k .. i - 1 : j \in l + 2 .. l + k + 1
        BY <1>2, <3>4
      <4> QED
        BY <1>5, <4>1, <4>2, <4>3 DEF RecordOK, Appendable
    <3> QED
      BY <1>2, <3>1, <3>2, <3>3, <3>4
  <2>2. Ordered(more)
    <3> SUFFICES ASSUME NEW i \in 1 .. Len(more), NEW j \in 1 .. Len(more),
                        i < j
                 PROVE  more[j].type # "torn" => more[i].seq < more[j].seq
      BY DEF Ordered
    <3>1. CASE j \in 1 .. l
      BY <1>0, <3>1, <1>2 DEF Appendable, LogOK, Ordered
    <3>2. CASE j \in l + 1 .. l + k + 2
      <4>1. more[j].seq = last + j - l
        BY <3>2, <1>5
      <4>2. CASE i \in 1 .. l
        <5>1. log[i] \in Record /\ RecordOK(log, i) /\ more[i] = log[i]
          BY <4>2, <1>0, <1>1, <1>2 DEF Appendable, LogOK
        <5>2. log[i].type # "torn"
          BY <1>0, <4>2, <5>1, <1>2 DEF RecordOK, Appendable, WholeBatches
        <5>3. log[i].seq \in Nat /\ log[i].seq <= last
          BY <1>0, <4>2, <5>1, <5>2, RecordKind DEF Appendable, Numbered
        <5> QED
          BY <1>1, <1>2, <3>2, <4>1, <5>1, <5>3
      <4>3. CASE i \in l + 1 .. l + k + 2
        BY <1>1, <1>2, <1>5, <3>2, <4>1, <4>3
      <4> QED
        BY <1>2, <4>2, <4>3
    <3> QED
      BY <1>2, <3>1, <3>2
  <2> QED
    BY <1>2, <2>1, <2>2 DEF LogOK
<1>7. Chained(more, base)
  <2> SUFFICES ASSUME NEW i \in 1 .. Len(more), more[i].type = "root_update"
               PROVE  /\ more[i].version = more[i].expected + 1
                      /\ \/ more[i].expected <= base[more[i].name].version
                         \/ Settled(more, i, more[i].name, more[i].expected)
    BY DEF Chained
  <2>1. CASE i \in 1 .. l
    <3>1. more[i] = log[i] /\ i \in 1 .. l + 1
      BY <2>1, <1>2
    <3>2. /\ log[i].version = log[i].expected + 1
          /\ \/ log[i].expected <= base[log[i].name].version
             \/ Settled(log, i, log[i].name, log[i].expected)
      BY <1>0, <2>1, <3>1 DEF Appendable, Chained
    <3> QED
      BY <1>0, <1>2, <3>1, <3>2, PartSettles
  <2>2. CASE i \in l + 2 .. l + k + 1
    <3>1. /\ more[i] = b[i - l] /\ i - l \in 2 .. k + 1
          /\ i - l - 1 \in 1 .. k
      BY <2>2, <1>2
    <3> DEFINE n == order[i - l - 1]
    <3>2. /\ more[i].name = n
          /\ more[i].expected = work[n].expected
          /\ more[i].version = work[n].expected + 1
      BY <1>3, <3>1
    <3>3. n \in Dirty(work) /\ n \in Names
      BY <1>4, <3>1 DEF Dirty
    <3> HIDE DEF n
    <3>4. \/ work[n].expected <= base[n].version
          \/ Settled(log, l + 1, n, work[n].expected)
      BY <1>0, <3>3 DEF Appendable, Complete
    <3>5. Settled(log, l + 1, n, work[n].expected) =>
              Settled(more, l + 1, n, work[n].expected)
      BY <1>0, <1>2, PartSettles
    <3>6. Settled(more, l + 1, n, work[n].expected) =>
              Settled(more, i, n, work[n].expected)
      BY <2>2, <1>2, SettledLater
    <3> QED
      BY <3>2, <3>4, <3>5, <3>6
  <2>3. i # l + 1 /\ i # l + k + 2
    BY <1>5
  <2> QED
    BY <1>2, <2>1, <2>2, <2>3
<1> QED
  BY <1>6, <1>7 DEF more, b

(* The whole batch is settled by its COMMIT, and is then the batch in      *)
(* doubt.                                                                  *)
LEMMA BatchBounded ==
    ASSUME NEW log, NEW last, NEW base, NEW kept, NEW id, NEW order, NEW work,
           Appendable(log, last, base, kept, id, order, work),
           Bounded(log, base, kept, {})
    PROVE  LET more == log \o Batch(id, last, order, work)
           IN  /\ Bounded(more, base, kept, Dirty(work))
               /\ \A n \in Dirty(work) :
                     Settled(more, Len(more) + 1, n, kept[n] + 1)
               /\ WholeBatches(more)
               /\ Numbered(more, last + Len(order) + 2)
<1> DEFINE b == Batch(id, last, order, work)
           more == log \o b
           k == Len(order)
           l == Len(log)
<1>1. /\ log \in Seq(Record) /\ id \in Nat /\ last \in Nat
      /\ work \in [Names -> Work] /\ order \in CommitOrder(work)
      /\ order \in Seq(Names)
  BY HeapAssumption, OrderType DEF Appendable, LogOK
<1>2. /\ k \in Nat /\ l \in Nat /\ more \in Seq(Record)
      /\ Len(more) = l + k + 2
      /\ \A i \in 1 .. l : more[i] = log[i]
      /\ \A i \in l + 1 .. l + k + 2 : more[i] = b[i - l]
      /\ Part(log, more)
  BY <1>1, BatchPlaces
<1>3. /\ b[1].type = "begin" /\ b[1].seq = last + 1 /\ b[1].tx = id
      /\ \A i \in 2 .. k + 1 :
            /\ b[i].type = "root_update"
            /\ b[i].seq = last + i
            /\ b[i].name = order[i - 1]
            /\ b[i].version = work[order[i - 1]].expected + 1
      /\ b[k + 2].type = "commit" /\ b[k + 2].seq = last + k + 2
  BY <1>1, BatchShape
<1>4. \A i \in 1 .. k : order[i] \in Dirty(work)
  BY <1>1, OrderType
<1>5. \A n \in Dirty(work) : \E i \in 1 .. k : order[i] = n
  BY <1>1, OrderOnto
<1>0. k = Len(order) /\ l = Len(log)
  OBVIOUS
<1> HIDE DEF b, more, k, l
<1>6. ASSUME NEW n \in Dirty(work)
      PROVE  MadeBefore(more, l + k + 2, n, kept[n] + 1)
  <2>1. PICK i \in 1 .. k : order[i] = n
    BY <1>5
  <2>2. /\ i + 1 \in 2 .. k + 1 /\ (i + 1) - 1 = i
        /\ l + i + 1 \in l + 1 .. l + k + 2 /\ (l + i + 1) - l = i + 1
    BY <1>2
  <2>4. more[l + i + 1] = b[i + 1]
    BY <1>2, <2>2
  <2>3. Makes(more, l + i + 1, n, kept[n] + 1)
    BY <1>3, <2>1, <2>2, <2>4 DEF Makes, Appendable
  <2> QED
    BY <1>2, <2>3 DEF MadeBefore
<1>7. more[l + k + 2].type = "commit"
  BY <1>2, <1>3
<1>8. Bounded(more, base, kept, Dirty(work))
  <2>1. \A n \in Names : base[n].version <= kept[n]
    BY DEF Bounded
  <2> SUFFICES ASSUME NEW c \in 1 .. Len(more), more[c].type = "commit",
                      NEW j \in 1 .. c - 1, more[j].type = "root_update"
               PROVE  \/ more[j].version <= kept[more[j].name]
                      \/ WithinDoubt(more, c, j, kept, Dirty(work))
    BY <2>1 DEF Bounded
  <2>2. CASE j \in 1 .. l
    <3>1. /\ l > 0 /\ more[j] = log[j] /\ j # l
          /\ l \in 1 .. l /\ log[l].type = "commit" /\ j \in 1 .. l - 1
      BY <2>2, <1>0, <1>1, <1>2 DEF Appendable, WholeBatches
    <3>2. ~ WithinDoubt(log, l, j, kept, {})
      BY DEF WithinDoubt
    <3> QED
      BY <1>0, <3>1, <3>2 DEF Bounded
  <2>3. CASE j \in l + 1 .. l + k + 2
    <3>1. PICK d \in 1 .. k + 2 : d = j - l
      BY <2>3, <1>2
    <3>2. more[j] = b[d]
      BY <3>1, <2>3, <1>2
    <3>6. d # 1 /\ d # k + 2
      BY <3>2, <1>3
    <3>7. d \in 2 .. k + 1 /\ d - 1 \in 1 .. k
      BY <3>6, <1>2
    <3> DEFINE n == order[d - 1]
    <3>3. n \in Dirty(work) /\ more[j].name = n
      BY <1>3, <1>4, <3>2, <3>7
    <3>4. more[j].version = kept[n] + 1
      BY <1>3, <3>2, <3>7, <3>3 DEF Appendable
    <3>5. c = l + k + 2
      <4>1. c \in l + 2 .. l + k + 2
        BY <2>3, <1>2
      <4>2. c \in l + 2 .. l + k + 1 => more[c].type = "root_update"
        <5> SUFFICES ASSUME c \in l + 2 .. l + k + 1
                     PROVE  more[c].type = "root_update"
          OBVIOUS
        <5>1. more[c] = b[c - l] /\ c - l \in 2 .. k + 1
          BY <1>2
        <5> QED
          BY <5>1, <1>3
      <4> QED
        BY <4>1, <4>2, <1>2
    <3> HIDE DEF n
    <3> QED
      BY <1>6, <3>3, <3>4, <3>5 DEF WithinDoubt
  <2> QED
    BY <1>2, <2>2, <2>3
<1>9. \A n \in Dirty(work) : Settled(more, Len(more) + 1, n, kept[n] + 1)
  BY <1>2, <1>6, <1>7 DEF Settled
<1>10. WholeBatches(more)
  BY <1>2, <1>7 DEF WholeBatches
<1>11. Numbered(more, last + k + 2)
  <2> SUFFICES ASSUME NEW i \in 1 .. Len(more), more[i].type # "torn"
               PROVE  more[i].seq <= last + k + 2
    BY DEF Numbered
  <2>1. CASE i \in 1 .. l
    <3>1. log[i] \in Record /\ more[i] = log[i] /\ log[i].seq <= last
      BY <2>1, <1>0, <1>1, <1>2 DEF Appendable, Numbered
    <3> QED
      BY <1>1, <1>2, <3>1, RecordKind
  <2>2. CASE i \in l + 1 .. l + k + 2
    <3>1. PICK d \in 1 .. k + 2 : d = i - l
      BY <1>2, <2>2
    <3>2. d = 1 \/ d \in 2 .. k + 1 \/ d = k + 2
      BY <1>2
    <3>3. b[d].seq = last + d
      <4>1. CASE d = 1
        BY <1>3, <4>1
      <4>2. CASE d \in 2 .. k + 1
        BY <1>3, <4>2
      <4>3. CASE d = k + 2
        <5>1. last + d = last + k + 2
          BY <1>1, <1>2, <4>3
        <5> QED
          BY <1>3, <4>3, <5>1
      <4> QED
        BY <3>2, <4>1, <4>2, <4>3
    <3>4. more[i] = b[d] /\ last + d <= last + k + 2
      BY <1>1, <1>2, <2>2, <3>1
    <3> QED
      BY <3>3, <3>4
  <2> QED
    BY <1>2, <2>1, <2>2
<1> QED
  BY <1>0, <1>8, <1>9, <1>10, <1>11 DEF more, b

(* A part of the batch settles nothing.                                    *)
LEMMA PartialBehind ==
    ASSUME NEW log, NEW last, NEW base, NEW kept, NEW id, NEW order, NEW work,
           Appendable(log, last, base, kept, id, order, work), NEW D,
           Bounded(log, base, kept, D),
           NEW part \in PartialBatches(Batch(id, last, order, work))
    PROVE  LET less == log \o part
           IN  /\ LogOK(less)
               /\ Chained(less, base)
               /\ Bounded(less, base, kept, D)
               /\ Complete(less, base, kept)
               /\ Numbered(less, last + Len(order) + 2)
               /\ Part(log, less)
<1> DEFINE b == Batch(id, last, order, work)
           more == log \o b
           k == Len(order)
           l == Len(log)
<1>1. /\ log \in Seq(Record) /\ id \in Nat /\ last \in Nat
      /\ work \in [Names -> Work] /\ order \in CommitOrder(work)
      /\ order \in Seq(Names)
  BY HeapAssumption, OrderType DEF Appendable, LogOK
<1>2. /\ k \in Nat /\ l \in Nat /\ more \in Seq(Record)
      /\ Len(more) = l + k + 2
      /\ \A i \in 1 .. l : more[i] = log[i]
      /\ \A i \in l + 1 .. l + k + 2 : more[i] = b[i - l]
      /\ Part(log, more)
  BY <1>1, BatchPlaces
<1>3. /\ b[1].type = "begin" /\ b[1].seq = last + 1
      /\ \A i \in 2 .. k + 1 :
            b[i].type = "root_update" /\ b[i].seq = last + i
  BY <1>1, BatchShape
<1>4. LogOK(more) /\ Chained(more, base)
  BY BatchBehind
<1>5. b \in Seq(Record) /\ Len(b) = k + 2
  BY <1>1, BatchType
<1>0. k = Len(order) /\ l = Len(log)
  OBVIOUS
<1> HIDE DEF b, more, k, l
<1>6. PICK m \in 0 .. k + 1 : \/ part = SubSeq(b, 1, m)
                              \/ part = Append(SubSeq(b, 1, m), Torn)
  <2>1. /\ Len(b) - 1 = k + 1
        /\ part \in PartialBatches(b)
    BY <1>2, <1>5 DEF b
  <2> QED
    BY <2>1 DEF PartialBatches
<1> DEFINE head == SubSeq(b, 1, m)
           cut == log \o head
<1>7. /\ head \in Seq(Record) /\ Len(head) = m
      /\ \A i \in 1 .. m : head[i] = b[i]
  BY <1>2, <1>5, <1>6
<1> HIDE DEF head
<1>8. /\ cut \in Seq(Record) /\ Len(cut) = l + m
      /\ \A i \in 1 .. l : cut[i] = log[i]
      /\ \A i \in l + 1 .. l + m : cut[i] = b[i - l]
  <2>1. /\ cut \in Seq(Record) /\ Len(cut) = l + m
        /\ \A i \in 1 .. l : cut[i] = log[i]
        /\ \A i \in l + 1 .. l + m : cut[i] = head[i - l]
    BY <1>0, <1>1, <1>7
  <2>2. \A i \in l + 1 .. l + m : i - l \in 1 .. m
    BY <1>2, <1>6
  <2> QED
    BY <1>7, <2>1, <2>2
<1> HIDE DEF cut
<1>9. Part(cut, more) /\ Part(log, cut)
  <2>1. ASSUME NEW i \in 1 .. l + m
        PROVE  cut[i] = more[i]
    <3>1. i \in 1 .. l \/ i \in l + 1 .. l + m
      BY <1>2, <1>6
    <3>2. i \in l + 1 .. l + m => i \in l + 1 .. l + k + 2
      BY <1>2, <1>6
    <3> QED
      BY <1>2, <1>8, <3>1, <3>2
  <2>2. l + m <= l + k + 2 /\ l <= l + m
    BY <1>2, <1>6
  <2>3. Part(cut, more)
    BY <1>2, <1>8, <2>1, <2>2 DEF Part
  <2>4. Part(log, cut)
    BY <1>0, <1>1, <1>2, <1>8, <2>2 DEF Part
  <2> QED
    BY <2>3, <2>4
<1>10. \A i \in l + 1 .. l + m : /\ cut[i].type \in {"begin", "root_update"}
                                /\ cut[i].seq = last + (i - l)
  <2> SUFFICES ASSUME NEW i \in l + 1 .. l + m
               PROVE  /\ cut[i].type \in {"begin", "root_update"}
                      /\ cut[i].seq = last + (i - l)
    OBVIOUS
  <2>1. cut[i] = b[i - l] /\ (i - l = 1 \/ i - l \in 2 .. k + 1)
    BY <1>2, <1>6, <1>8
  <2> QED
    BY <1>3, <2>1
<1>11. \A i \in 1 .. Len(cut) : cut[i].type # "torn"
  <2> SUFFICES ASSUME NEW i \in 1 .. Len(cut)
               PROVE  cut[i].type # "torn"
    OBVIOUS
  <2>1. CASE i \in 1 .. l
    <3>1. RecordOK(log, i) /\ cut[i] = log[i]
      BY <1>0, <2>1, <1>8 DEF Appendable, LogOK
    <3> QED
      BY <1>0, <2>1, <3>1, <1>2 DEF RecordOK, Appendable, WholeBatches
  <2>2. CASE i \in l + 1 .. l + m
    BY <2>2, <1>10
  <2> QED
    BY <1>2, <1>6, <1>8, <2>1, <2>2
<1>12. LogOK(cut) /\ Chained(cut, base)
  BY <1>4, <1>9, PartOK, PartChained
<1>13. Bounded(cut, base, kept, D)
  <2> SUFFICES ASSUME NEW c \in 1 .. Len(cut), cut[c].type = "commit",
                      NEW j \in 1 .. c - 1, cut[j].type = "root_update"
               PROVE  \/ cut[j].version <= kept[cut[j].name]
                      \/ WithinDoubt(cut, c, j, kept, D)
    BY DEF Bounded
  <2>1. c \in 1 .. l /\ c \in 1 .. l + 1
    <3>1. c \in 1 .. l \/ c \in l + 1 .. l + m
      BY <1>2, <1>6, <1>8
    <3>2. c \notin l + 1 .. l + m
      BY <1>10
    <3> QED
      BY <1>2, <3>1, <3>2
  <2>2. cut[c] = log[c] /\ cut[j] = log[j]
    BY <1>2, <1>8, <2>1
  <2>3. \/ log[j].version <= kept[log[j].name]
        \/ WithinDoubt(log, c, j, kept, D)
    BY <1>0, <2>1, <2>2 DEF Bounded
  <2>4. \A n \in D : MadeBefore(log, c, n, kept[n] + 1) =>
                         MadeBefore(cut, c, n, kept[n] + 1)
    BY <1>0, <1>9, <2>1, PartSettles
  <2> QED
    BY <2>2, <2>3, <2>4 DEF WithinDoubt
<1>14. Complete(cut, base, kept)
  BY <1>9, PartComplete DEF Appendable
<1>15. Numbered(cut, last + k + 2)
  <2> SUFFICES ASSUME NEW i \in 1 .. Len(cut)
               PROVE  cut[i].seq <= last + k + 2
    BY DEF Numbered
  <2>1. CASE i \in 1 .. l
    <3>1. log[i] \in Record /\ cut[i] = log[i] /\ cut[i].type # "torn"
      BY <1>0, <2>1, <1>1, <1>8, <1>11
    <3>2. log[i].seq \in Nat /\ log[i].seq <= last
      BY <1>0, <2>1, <3>1, RecordKind DEF Appendable, Numbered
    <3> QED
      BY <1>1, <1>2, <3>1, <3>2
  <2>2. CASE i \in l + 1 .. l + m
    BY <2>2, <1>1, <1>2, <1>6, <1>10
  <2> QED
    BY <1>2, <1>6, <1>8, <2>1, <2>2
<1>16. CASE part = head
  <2>1. log \o part = cut
    BY <1>16 DEF cut
  <2> QED
    BY <1>0, <2>1, <1>9, <1>12, <1>13, <1>14, <1>15
<1>17. CASE part = Append(head, Torn)
  <2>1. log \o part = Append(cut, Torn)
    <3>1. Torn \in Record
      BY DEF Record
    <3> QED
      BY <1>0, <1>1, <1>7, <1>17, <3>1 DEF cut
  <2>2. /\ Part(cut, Append(cut, Torn)) /\ LogOK(Append(cut, Torn))
        /\ Chained(Append(cut, Torn), base)
        /\ Bounded(Append(cut, Torn), base, kept, D)
    BY <1>0, <1>11, <1>12, <1>13, TornBehind
  <2>3. Complete(Append(cut, Torn), base, kept)
    BY <1>14, <2>2, PartComplete
  <2>4. Numbered(Append(cut, Torn), last + k + 2)
    <3>1. /\ Len(Append(cut, Torn)) = Len(cut) + 1
          /\ \A i \in 1 .. Len(cut) : Append(cut, Torn)[i] = cut[i]
          /\ Append(cut, Torn)[Len(cut) + 1] = Torn
          /\ Len(cut) \in Nat
      BY <1>8, <1>2, <1>6
    <3> QED
      BY <1>15, <3>1 DEF Numbered, Torn
  <2>5. Part(log, Append(cut, Torn))
    BY <1>9, <2>2 DEF Part
  <2> QED
    BY <1>0, <2>1, <2>2, <2>3, <2>4, <2>5
<1> QED
  BY <1>6, <1>16, <1>17 DEF head

-----------------------------------------------------------------------------
(* A running heap.  The files a crash may leave: in relaxed mode only a    *)
(* process can die, and the operating system keeps what was written.       *)

Logs == IF Strict THEN {wal, walDisk} ELSE {wal}
Files == IF Strict THEN {snap, snapDisk} ELSE {snap}

FilesOK ==
    \A log \in Logs, file \in Files :
        /\ Recoverable(log, file.index, Kept, DOMAIN doubt)
        /\ Numbered(log, lastSeq)
        /\ Strict => file.flushed

(* The journal on the device is the beginning of the written one, unless   *)
(* the snapshots make both of them superfluous.                            *)
Covers(file) == \A n \in Names : Kept[n] <= file.index[n].version
DeviceOK ==
    Strict => Part(walDisk, wal) \/ (Covers(snap) /\ Covers(snapDisk))

(* A batch is in doubt while its thread waits for the barrier or publishes *)
(* it, or after a failure that has poisoned the heap.                      *)
DoubtOK ==
    /\ DOMAIN doubt \subseteq Names
    /\ \A n \in DOMAIN doubt : doubt[n].version \in Nat \ {0}
    /\ DOMAIN doubt # {} =>
           poisoned \/ \E t \in Threads : pc[t] \in {"barrier", "publish"}
    /\ poisoned => \A n \in DOMAIN doubt : doubt[n].version = Len(hist[n]) + 1

(* What a thread in a commit or a checkpoint has already achieved.         *)
Todo(t) == {call[t].todo[i].name : i \in 1 .. Len(call[t].todo)}
BatchOK(t) ==
    /\ Todo(t) \subseteq DOMAIN doubt
    /\ \A n \in DOMAIN doubt :
          /\ n \in Todo(t) => Len(hist[n]) = doubt[n].version - 1
          /\ n \notin Todo(t) => Len(hist[n]) = doubt[n].version
          /\ Settled(wal, Len(wal) + 1, n, doubt[n].version)
StageOK(t) ==
    /\ pc[t] \in {"barrier", "publish"} => BatchOK(t)
    /\ pc[t] = "barrier" => DOMAIN doubt \subseteq Todo(t)
    /\ pc[t] = "publish" /\ Strict => walDisk = wal
    /\ pc[t] \in {"flush_tmp", "replace"} =>
           \A n \in Names : tmp.index[n].version = roots[n].version
    /\ pc[t] = "replace" /\ Strict => tmp.flushed
    /\ pc[t] \in {"sync_dir", "install", "truncate", "sync_wal"} =>
           Covers(snap)
    /\ pc[t] \in {"install", "truncate", "sync_wal"} /\ Strict =>
           Covers(snapDisk)

(* The ids of the transactions, which the recovery scan tells apart.       *)
NumbersOK ==
    /\ nextTx > 0
    /\ \A t \in Threads : tx[t].active => tx[t].id \in 1 .. MaxTx

CrashInv ==
    /\ FilesOK
    /\ DeviceOK
    /\ DoubtOK
    /\ ~ poisoned => WholeBatches(wal)
    /\ \A t \in Threads : StageOK(t)

HeapInv ==
    /\ SafeInv
    /\ PoisonInv
    /\ \A t \in Threads : CallTx(t)
    /\ NumbersOK

-----------------------------------------------------------------------------
(* How the batch in doubt changes.                                         *)

LEMMA CommitMoves ==
    ASSUME NEW t \in Threads, Application(t) \/ CallStep(t)
    PROVE  /\ pc[t] = "append" /\ pc'[t] # "append" =>
                  AppendBatch(t) \/ AppendFails(t)
           /\ pc[t] = "publish" /\ pc'[t] # "publish" => Publish(t)
           /\ pc[t] = "barrier" /\ pc'[t] # "barrier" =>
                  Barrier(t) \/ BarrierFails(t)
<1>1. CASE Application(t)
  BY <1>1 DEF Application, Begin, Lookup, Mutate, Abort, CommitClean,
              CommitCall, CheckpointCall
<1>2. CASE LoadStep(t)
  BY <1>2 DEF LoadStep, Probe, Miss, Fetch, FetchFails
<1>3. CASE CommitStep(t)
  BY <1>3 DEF CommitStep, CommitRefused, Validate, AppendBatch, AppendFails,
              Barrier, BarrierFails, Publish, Threshold
<1>4. CASE CheckpointStep(t)
  BY <1>4 DEF CheckpointStep, CheckpointRefused, CheckpointLocked, Save,
              SaveFails, FlushTmp, FlushTmpFails, AtomicReplace,
              AtomicReplaceFails, SyncDirectory, SyncDirectoryFails, Install,
              Truncate, TruncateFails, SyncWal, SyncWalFails
<1> QED
  BY <1>1, <1>2, <1>3, <1>4 DEF CallStep

(* A write puts the dirty roots of its transaction in doubt, whether it    *)
(* succeeds or fails ...                                                   *)
LEMMA DoubtAppend ==
    ASSUME TypeInv, NEW t \in Threads, AppendBatch(t) \/ AppendFails(t),
           TrackDoubt
    PROVE  doubt' = [n \in Dirty(tx[t].work) |->
                        [version |-> tx[t].work[n].expected + 1,
                         payload |-> tx[t].work[n].data]]
<1>1. CallStep(t)
  BY DEF CallStep, CommitStep
<1>2. \A u \in Threads \ {t} : pc'[u] = pc[u]
  BY <1>1, OthersKept
<1>3. pc[t] = "append" /\ pc'[t] # "append"
  <2>1. pc \in [Threads -> Labels]
    BY DEF TypeInv, TypeOK
  <2> QED
    BY <2>1 DEF AppendBatch, AppendFails, Goto, Leave
<1>4. \A u \in Threads : Writing(u) <=> u = t
  BY <1>2, <1>3 DEF Writing
<1>5. (CHOOSE u \in Threads : Writing(u)) = t
  BY <1>4
<1> QED
  BY <1>4, <1>5, Zenon DEF TrackDoubt

(* ... the end of the publication settles them ...                         *)
LEMMA DoubtDone ==
    ASSUME TypeInv, NEW t \in Threads, Publish(t), pc'[t] # "publish",
           TrackDoubt
    PROVE  doubt' = NoDoubt
<1>1. CallStep(t) /\ pc[t] = "publish"
  BY DEF CallStep, CommitStep, Publish
<1>2. \A u \in Threads \ {t} : pc'[u] = pc[u]
  BY <1>1, OthersKept
<1>3. Published(t) /\ \A u \in Threads : ~ Writing(u)
  BY <1>1, <1>2 DEF Writing, Published
<1> QED
  BY <1>3, Zenon DEF TrackDoubt

(* ... no other step of a thread touches the batch in doubt ...            *)
LEMMA DoubtKept ==
    ASSUME TypeInv, NEW t \in Threads, Application(t) \/ CallStep(t),
           ~ AppendBatch(t), ~ AppendFails(t),
           Publish(t) => pc'[t] = "publish", TrackDoubt
    PROVE  doubt' = doubt
<1>2. \A u \in Threads \ {t} : pc'[u] = pc[u]
  BY OthersKept
<1>3. \A u \in Threads : ~ Writing(u) /\ ~ Published(u)
  BY <1>2, CommitMoves DEF Writing, Published
<1> QED
  BY <1>3, Zenon DEF TrackDoubt

(* ... and neither does a step of no thread.                               *)
LEMMA DoubtIdle ==
    ASSUME pc' = pc, TrackDoubt
    PROVE  doubt' = doubt
<1>1. \A u \in Threads : ~ Writing(u) /\ ~ Published(u)
  BY DEF Writing, Published
<1> QED
  BY <1>1, Zenon DEF TrackDoubt

-----------------------------------------------------------------------------
(* What is kept.                                                           *)

LEMMA KeptType ==
    ASSUME TypeInv, DoubtOK
    PROVE  Kept \in [Names -> Nat]
<1>1. \A n \in Names : Len(hist[n]) \in Nat
  BY DEF TypeInv, TypeOK
<1>2. ASSUME NEW n \in Names
      PROVE  (IF n \in DOMAIN doubt THEN doubt[n].version - 1
                                    ELSE Len(hist[n])) \in Nat
  BY <1>1 DEF DoubtOK
<1> QED
  BY <1>2 DEF Kept

(* What is kept depends on the histories and the doubt only.               *)
LEMMA KeptSame ==
    ASSUME hist' = hist, doubt' = doubt
    PROVE  Kept' = Kept
  BY DEF Kept

(* While the lock's holder is not between the barrier and the end of a     *)
(* publication, the index has exactly the kept versions.                   *)
LEMMA KeptIndex ==
    ASSUME HeapInv, DoubtOK, NEW t \in Threads, pc[t] \in HoldsCommitMutex,
           pc[t] \notin {"barrier", "publish"}
    PROVE  /\ \A n \in Names : Kept[n] = roots[n].version
           /\ pc[t] = "append" => DOMAIN doubt = {} /\ ~ poisoned
<1>1. \A u \in Threads : pc[u] \notin {"barrier", "publish"}
  <2>1. \A u \in Threads \ {t} : pc[u] \notin HoldsCommitMutex
    BY Alone DEF HeapInv, SafeInv
  <2> QED
    BY <2>1 DEF HoldsCommitMutex
<1>2. DOMAIN doubt = {} \/ poisoned
  BY <1>1 DEF DoubtOK
<1>3. \A n \in Names : roots[n].version = Len(hist[n]) /\ Len(hist[n]) \in Nat
  BY DEF HeapInv, SafeInv, StoreInv, IndexOK, TypeInv, TypeOK
<1>4. ASSUME NEW n \in Names
      PROVE  Kept[n] = roots[n].version
  <2>1. CASE n \in DOMAIN doubt
    <3>1. doubt[n].version = Len(hist[n]) + 1
      BY <1>2, <2>1 DEF DoubtOK
    <3> QED
      BY <1>3, <2>1, <3>1 DEF Kept
  <2>2. CASE n \notin DOMAIN doubt
    BY <1>3, <2>2 DEF Kept
  <2> QED
    BY <2>1, <2>2
<1>5. pc[t] = "append" => ~ poisoned
  BY DEF HeapInv, PoisonInv, Committing
<1> QED
  BY <1>2, <1>4, <1>5

(* The types of the files and of the versions in their indexes.            *)
LEMMA FileTypes ==
    ASSUME TypeInv
    PROVE  /\ snap \in File /\ snapDisk \in File /\ tmp \in File
           /\ \A n \in Names : /\ snap.index[n].version \in Nat
                               /\ snapDisk.index[n].version \in Nat
                               /\ tmp.index[n].version \in Nat
                               /\ roots[n].version \in Nat
           /\ wal \in Seq(Record) /\ walDisk \in Seq(Record) /\ lastSeq \in Nat
<1>1. /\ snap \in File /\ snapDisk \in File /\ tmp \in File
      /\ roots \in [Names -> RootRecord] /\ lastSeq \in Nat
      /\ wal \in Seq(Record) /\ walDisk \in Seq(Record)
  BY DEF TypeInv, TypeOK
<1>2. \A f \in File, n \in Names : f.index[n].version \in Nat
  BY DEF File, RootRecord
<1>3. \A n \in Names : roots[n].version \in Nat
  BY <1>1 DEF RootRecord
<1> QED
  BY <1>1, <1>2, <1>3

-----------------------------------------------------------------------------
(* The invariant of the files, one lemma per step that matters.            *)

(* A step that leaves files, index and history alone.                      *)
LEMMA CrashQuiet ==
    ASSUME HeapInv, CrashInv, NEW t \in Threads,
           Application(t) \/ CallStep(t), ~ DurableStep(t), TrackDoubt
    PROVE  CrashInv'
<1>0. TypeInv
  BY DEF HeapInv, SafeInv
<1>1. UNCHANGED <<storage, roots>> /\ pc'[t] \notin Exposed
  BY <1>0, StorageKept
<1>2. hist' = hist
  BY <1>0, IndexKept DEF DurableStep
<1>3. doubt' = doubt
  BY <1>0, DoubtKept DEF DurableStep
<1>4. lastSeq' = lastSeq
  <2>1. CASE Application(t)
    BY <2>1 DEF Application, Begin, Lookup, Mutate, Abort, CommitClean,
                CommitCall, CheckpointCall, index
  <2>2. CASE LoadStep(t)
    BY <2>2 DEF LoadStep, Probe, Miss, Fetch, FetchFails, Throw, index
  <2>3. CASE CommitStep(t)
    BY <2>3 DEF CommitStep, CommitRefused, Validate, BarrierFails, Threshold,
                Throw, DurableStep, index
  <2>4. CASE CheckpointStep(t)
    BY <2>4 DEF CheckpointStep, CheckpointRefused, CheckpointLocked,
                SaveFails, FlushTmpFails, AtomicReplaceFails,
                SyncDirectoryFails, TruncateFails, SyncWalFails, Throw,
                DurableStep, index
  <2> QED
    BY <2>1, <2>2, <2>3, <2>4 DEF CallStep
<1>5. Kept' = Kept
  BY <1>2, <1>3, KeptSame
<1>6. \A u \in Threads \ {t} : pc'[u] = pc[u] /\ call'[u] = call[u]
  BY <1>0, OthersKept
<1>7. FilesOK'
  BY <1>1, <1>3, <1>4, <1>5 DEF CrashInv, FilesOK, Logs, Files, storage
<1>8. DeviceOK'
  BY <1>1, <1>5 DEF CrashInv, DeviceOK, Covers, storage
<1>9. ~ BarrierFails(t) => poisoned' = poisoned
  BY PoisonKept DEF DurableStep
<1>10. BarrierFails(t) => pc[t] = "barrier" /\ poisoned' = TRUE
  BY DEF BarrierFails
<1>11. DoubtOK'
  <2>1. DOMAIN doubt # {} => poisoned' \/
            \E u \in Threads : pc'[u] \in {"barrier", "publish"}
    <3> SUFFICES ASSUME NEW u \in Threads, pc[u] \in {"barrier", "publish"},
                        ~ poisoned'
                 PROVE  \E w \in Threads : pc'[w] \in {"barrier", "publish"}
      BY <1>9, <1>10 DEF CrashInv, DoubtOK
    <3>1. CASE u = t
      BY <3>1, <1>1, <1>10, CommitMoves DEF DurableStep, Exposed
    <3>2. CASE u # t
      BY <3>2, <1>6
    <3> QED
      BY <3>1, <3>2
  <2>2. poisoned' => \A n \in DOMAIN doubt : doubt[n].version = Len(hist[n]) + 1
    <3>1. CASE BarrierFails(t)
      <4>1. /\ DOMAIN doubt \subseteq Todo(t)
            /\ \A n \in DOMAIN doubt : doubt[n].version \in Nat
            /\ \A n \in DOMAIN doubt :
                 n \in Todo(t) => Len(hist[n]) = doubt[n].version - 1
        BY <1>10, <3>1 DEF CrashInv, StageOK, BatchOK, DoubtOK
      <4> QED
        BY <4>1
    <3>2. CASE ~ BarrierFails(t)
      BY <3>2, <1>9 DEF CrashInv, DoubtOK
    <3> QED
      BY <3>1, <3>2
  <2> QED
    BY <1>2, <1>3, <2>1, <2>2 DEF CrashInv, DoubtOK
<1>12. ~ poisoned' => WholeBatches(wal')
  BY <1>1, <1>9, <1>10 DEF CrashInv, storage
<1>13. ASSUME NEW u \in Threads
       PROVE  StageOK(u)'
  <2>1. CASE u = t
    BY <1>1, <2>1 DEF StageOK, Exposed
  <2>2. CASE u # t
    <3>1. StageOK(u) /\ pc'[u] = pc[u] /\ call'[u] = call[u]
      BY <1>6, <2>2 DEF CrashInv
    <3>2. /\ wal' = wal /\ walDisk' = walDisk /\ snap' = snap
          /\ snapDisk' = snapDisk /\ tmp' = tmp /\ roots' = roots
      BY <1>1 DEF storage
    <3> QED
      BY <3>1, <3>2, <1>2, <1>3, <1>5 DEF StageOK, BatchOK, Covers, Todo
  <2> QED
    BY <2>1, <2>2
<1> QED
  BY <1>7, <1>8, <1>11, <1>12, <1>13 DEF CrashInv

(* The steps that matter are made under commit_mutex.                      *)
LEMMA DurableLocked ==
    ASSUME NEW t \in Threads, DurableStep(t)
    PROVE  CallStep(t) /\ pc[t] \in HoldsCommitMutex
  BY DEF DurableStep, AppendBatch, AppendFails, Barrier, Publish, Save,
         FlushTmp, AtomicReplace, SyncDirectory, Install, Truncate, SyncWal,
         CallStep, CommitStep, CheckpointStep, HoldsCommitMutex

(* A step on the files leaves the stages of the other threads alone: it is *)
(* taken under the commit lock.                                            *)
LEMMA OthersStage ==
    ASSUME HeapInv, NEW t \in Threads, DurableStep(t), NEW u \in Threads \ {t}
    PROVE  StageOK(u)'
<1>1. CallStep(t) /\ pc[t] \in HoldsCommitMutex
  BY DurableLocked
<1>2. pc'[u] = pc[u] /\ pc[u] \notin HoldsCommitMutex
  BY <1>1, OthersKept, Alone DEF HeapInv, SafeInv
<1> QED
  BY <1>2 DEF StageOK, HoldsCommitMutex

(* The batch is about to be written.                                       *)
LEMMA BeforeAppend ==
    ASSUME HeapInv, CrashInv, NEW t \in Threads, pc[t] = "append",
           NEW order \in CommitOrder(tx[t].work), NEW file \in Files
    PROVE  /\ Appendable(wal, lastSeq, file.index, Kept, tx[t].id, order,
                         tx[t].work)
           /\ Bounded(wal, file.index, Kept, {})
           /\ DOMAIN doubt = {} /\ ~ poisoned
           /\ \A n \in Dirty(tx[t].work) :
                 /\ Kept[n] = tx[t].work[n].expected
                 /\ Len(hist[n]) = tx[t].work[n].expected
                 /\ tx[t].work[n].expected \in Nat
<1>0. TypeInv
  BY DEF HeapInv, SafeInv
<1>1. /\ \A n \in Names : Kept[n] = roots[n].version
      /\ DOMAIN doubt = {} /\ ~ poisoned
  <2>1. pc[t] \in HoldsCommitMutex /\ pc[t] \notin {"barrier", "publish"}
    BY DEF HoldsCommitMutex
  <2> QED
    BY <2>1, KeptIndex DEF CrashInv
<1>2. wal \in Logs
  BY DEF Logs
<1>3. Recoverable(wal, file.index, Kept, {}) /\ Numbered(wal, lastSeq)
  BY <1>1, <1>2 DEF CrashInv, FilesOK
<1>4. VersionsMatch(tx[t].work)
  BY DEF HeapInv, SafeInv, StoreInv, TodoOK
<1>5. \A n \in Names : roots[n].version = Len(hist[n])
  BY DEF HeapInv, SafeInv, StoreInv, IndexOK
<1>6. tx[t].work \in [Names -> Work] /\ tx[t].id \in 1 .. MaxTx
  <2>1. tx[t].active
    BY DEF HeapInv, CallTx, Committing
  <2> QED
    BY <1>0, <2>1, WorkType DEF HeapInv, NumbersOK
<1>7. \A n \in Dirty(tx[t].work) :
        /\ n \in Names
        /\ roots[n].version = tx[t].work[n].expected
        /\ tx[t].work[n].expected \in Nat
  BY <1>4, <1>6 DEF VersionsMatch, Dirty, Work
<1>8. \A n \in Dirty(tx[t].work) : Kept[n] = tx[t].work[n].expected
  BY <1>1, <1>7
<1>9. lastSeq \in Nat
  BY <1>0, FileTypes
<1>10. WholeBatches(wal)
  BY <1>1 DEF CrashInv
<1> QED
  BY <1>1, <1>3, <1>5, <1>6, <1>7, <1>8, <1>9, <1>10
     DEF Appendable, Recoverable

(* A batch in doubt has not been kept yet.                                 *)
LEMMA KeptAppend ==
    ASSUME HeapInv, CrashInv, NEW t \in Threads,
           AppendBatch(t) \/ AppendFails(t), TrackDoubt,
           NEW order \in CommitOrder(tx[t].work)
    PROVE  /\ Kept' = Kept
           /\ DOMAIN doubt' = Dirty(tx[t].work)
           /\ \A n \in Dirty(tx[t].work) :
                 /\ doubt'[n].version = tx[t].work[n].expected + 1
                 /\ doubt'[n].version = Kept[n] + 1
                 /\ doubt'[n].version = Len(hist[n]) + 1
                 /\ doubt'[n].version \in Nat \ {0}
<1>1. pc[t] = "append" /\ hist' = hist
  BY DEF AppendBatch, AppendFails
<1>2. doubt' = [n \in Dirty(tx[t].work) |->
                  [version |-> tx[t].work[n].expected + 1,
                   payload |-> tx[t].work[n].data]]
  BY DoubtAppend DEF HeapInv, SafeInv
<1>3. snap \in Files
  BY DEF Files
<1>4. /\ DOMAIN doubt = {}
      /\ \A n \in Dirty(tx[t].work) :
            /\ Kept[n] = tx[t].work[n].expected
            /\ Len(hist[n]) = tx[t].work[n].expected
            /\ tx[t].work[n].expected \in Nat
  BY <1>1, <1>3, BeforeAppend
<1>5. /\ DOMAIN doubt' = Dirty(tx[t].work)
      /\ \A n \in Dirty(tx[t].work) :
            doubt'[n].version = tx[t].work[n].expected + 1
  BY <1>2
<1>6. ASSUME NEW n \in Names
      PROVE  (IF n \in DOMAIN doubt' THEN doubt'[n].version - 1
                                     ELSE Len(hist[n]))
               = (IF n \in DOMAIN doubt THEN doubt[n].version - 1
                                        ELSE Len(hist[n]))
  BY <1>4, <1>5
<1>7. Kept' = Kept
  BY <1>1, <1>6 DEF Kept
<1> QED
  BY <1>4, <1>5, <1>7

(* Another name for the doubt, where there is none.                        *)
LEMMA NewDoubt ==
    ASSUME NEW log, NEW base, NEW kept, NEW D,
           Bounded(log, base, kept, {})
    PROVE  Bounded(log, base, kept, D)
  BY DEF Bounded, WithinDoubt

(* A journal numbered up to a sequence number is numbered up to a later    *)
(* one.                                                                    *)
LEMMA NumberedLater ==
    ASSUME NEW log \in Seq(Record), NEW last \in Nat, NEW later \in Nat,
           last <= later, Numbered(log, last)
    PROVE  Numbered(log, later)
<1> SUFFICES ASSUME NEW i \in 1 .. Len(log), log[i].type # "torn"
             PROVE  log[i].seq <= later
  BY DEF Numbered
<1>1. log[i] \in Record /\ log[i].seq <= last
  BY DEF Numbered
<1> QED
  BY <1>1, RecordKind

(* The device keeps its relation to a journal that grows.                  *)
LEMMA PartGrows ==
    ASSUME NEW a, NEW b, NEW c, Part(a, b), Part(b, c)
    PROVE  Part(a, c)
  BY DEF Part

(* The batch is written, as a whole or in part.                            *)
LEMMA CrashAppend ==
    ASSUME HeapInv, CrashInv, NEW t \in Threads, AppendBatch(t), TrackDoubt
    PROVE  CrashInv'
<1>0. TypeInv /\ DurableStep(t)
  BY DEF HeapInv, SafeInv, DurableStep
<1> DEFINE work == tx[t].work
           D == Dirty(work)
<1>1. /\ pc[t] = "append" /\ hist' = hist
      /\ UNCHANGED <<walDisk, snap, snapDisk, tmp, poisoned>>
      /\ pc' = [pc EXCEPT ![t] = IF Strict THEN "barrier" ELSE "publish"]
  BY DEF AppendBatch, Goto, flags
<1>2. PICK order \in CommitOrder(work) :
        /\ wal' = wal \o Batch(tx[t].id, lastSeq, order, work)
        /\ lastSeq' = lastSeq + Len(order) + 2
        /\ call' = [call EXCEPT ![t].todo = Locations(wal, order, work)]
  BY DEF AppendBatch
<1>3. /\ Kept' = Kept
      /\ DOMAIN doubt' = D
      /\ \A n \in D : /\ doubt'[n].version = Kept[n] + 1
                      /\ doubt'[n].version = Len(hist[n]) + 1
                      /\ doubt'[n].version \in Nat \ {0}
  BY KeptAppend
<1>4. work \in [Names -> Work] /\ D \subseteq Names
  BY <1>0, WorkType DEF Dirty
<1>5. order \in Seq(Names) /\ Len(order) \in Nat
  BY <1>4, OrderType
<1>6. /\ wal \in Seq(Record) /\ walDisk \in Seq(Record) /\ lastSeq \in Nat
      /\ lastSeq' \in Nat /\ lastSeq <= lastSeq'
  BY <1>0, <1>2, <1>5, FileTypes
<1>7. Part(wal, wal')
  <2>1. tx[t].id \in Nat
    BY <1>0, WorkType
  <2> QED
    BY <1>2, <1>4, <1>6, <2>1, BatchPlaces
<1>8. ASSUME NEW file \in Files
      PROVE  /\ Recoverable(wal', file.index, Kept, D)
             /\ Numbered(wal', lastSeq')
             /\ WholeBatches(wal')
             /\ \A n \in D : Settled(wal', Len(wal') + 1, n, Kept[n] + 1)
  <2>1. /\ Appendable(wal, lastSeq, file.index, Kept, tx[t].id, order, work)
        /\ Bounded(wal, file.index, Kept, {})
    BY <1>1, <1>2, BeforeAppend
  <2>2. LogOK(wal') /\ Chained(wal', file.index)
    BY <1>2, <2>1, BatchBehind
  <2>3. /\ Bounded(wal', file.index, Kept, D)
        /\ \A n \in D : Settled(wal', Len(wal') + 1, n, Kept[n] + 1)
        /\ WholeBatches(wal')
        /\ Numbered(wal', lastSeq')
    BY <1>2, <2>1, BatchBounded
  <2>4. Complete(wal', file.index, Kept)
    BY <1>7, <2>1, PartComplete DEF Appendable
  <2> QED
    BY <2>2, <2>3, <2>4 DEF Recoverable
<1>9. snap \in Files /\ Files' = Files
  BY <1>1 DEF Files
<1>10. FilesOK'
  <2> SUFFICES ASSUME NEW log \in Logs', NEW file \in Files
               PROVE  /\ Recoverable(log, file.index, Kept, D)
                      /\ Numbered(log, lastSeq')
                      /\ Strict => file.flushed
    BY <1>3, <1>9 DEF FilesOK
  <2>1. log = wal' \/ (log = walDisk /\ log \in Logs)
    BY <1>1 DEF Logs
  <2>2. Strict => file.flushed
    BY DEF CrashInv, FilesOK, Logs
  <2>3. CASE log = wal'
    BY <1>8, <2>2, <2>3
  <2>4. CASE log = walDisk /\ log \in Logs
    <3>1. DOMAIN doubt = {}
      BY <1>1, <1>2, BeforeAppend
    <3>2. Recoverable(log, file.index, Kept, {}) /\ Numbered(log, lastSeq)
      BY <2>4, <3>1 DEF CrashInv, FilesOK
    <3>3. Numbered(log, lastSeq')
      BY <1>6, <2>4, <3>2, NumberedLater
    <3> QED
      BY <2>2, <3>2, <3>3, NewDoubt DEF Recoverable
  <2> QED
    BY <2>1, <2>3, <2>4
<1>11. DeviceOK'
  <2>1. CASE ~ Strict
    BY <2>1 DEF DeviceOK
  <2>2. CASE Strict /\ Part(walDisk, wal)
    BY <1>1, <1>7, <2>2, PartGrows DEF DeviceOK
  <2>3. CASE Covers(snap) /\ Covers(snapDisk)
    BY <1>1, <1>3, <2>3 DEF DeviceOK, Covers
  <2> QED
    BY <2>1, <2>2, <2>3 DEF CrashInv, DeviceOK
<1>12. pc'[t] \in {"barrier", "publish"} /\ (pc'[t] = "publish" => ~ Strict)
  BY <1>0, <1>1 DEF TypeInv, TypeOK
<1>13. ~ poisoned'
  BY <1>1, <1>2, <1>9, BeforeAppend
<1>14. DoubtOK'
  BY <1>3, <1>4, <1>12, <1>13 DEF DoubtOK
<1>15. Todo(t)' = D
  <2>1. call'[t].todo = Locations(wal, order, work)
    BY <1>0, <1>2 DEF TypeInv, TypeOK, Call
  <2>2. /\ Len(Locations(wal, order, work)) = Len(order)
        /\ \A i \in 1 .. Len(order) :
              Locations(wal, order, work)[i].name = order[i]
    BY <1>4, <1>5, <1>6, LocationsType DEF Locations
  <2>3. \A i \in 1 .. Len(order) : order[i] \in D
    BY <1>4, OrderType
  <2>4. \A n \in D : \E i \in 1 .. Len(order) : order[i] = n
    BY <1>4, OrderOnto
  <2> HIDE DEF D, work
  <2> QED
    BY <2>1, <2>2, <2>3, <2>4 DEF Todo
<1>16. StageOK(t)'
  <2>1. BatchOK(t)'
    BY <1>1, <1>3, <1>8, <1>9, <1>15 DEF BatchOK
  <2> QED
    BY <2>1, <1>3, <1>12, <1>15 DEF StageOK
<1>17. \A u \in Threads : StageOK(u)'
  BY <1>0, <1>16, OthersStage
<1> QED
  BY <1>8, <1>9, <1>10, <1>11, <1>14, <1>17 DEF CrashInv

(* AppendFails: a part of the batch is in the journal and the heap is      *)
(* poisoned.                                                               *)
LEMMA CrashAppendFails ==
    ASSUME HeapInv, CrashInv, NEW t \in Threads, AppendFails(t), TrackDoubt
    PROVE  CrashInv'
<1>0. TypeInv /\ DurableStep(t)
  BY DEF HeapInv, SafeInv, DurableStep
<1> DEFINE work == tx[t].work
           D == Dirty(work)
<1>1. /\ pc[t] = "append" /\ hist' = hist /\ poisoned' = TRUE
      /\ UNCHANGED <<walDisk, snap, snapDisk, tmp>> /\ Leave(t)
  BY DEF AppendFails
<1>2. PICK order \in CommitOrder(work) :
        /\ \E part \in PartialBatches(Batch(tx[t].id, lastSeq, order, work)) :
               wal' = wal \o part
        /\ lastSeq' = lastSeq + Len(order) + 2
  BY DEF AppendFails
<1>2a. PICK part \in PartialBatches(Batch(tx[t].id, lastSeq, order, work)) :
           wal' = wal \o part
  BY <1>2
<1>3. /\ Kept' = Kept
      /\ DOMAIN doubt' = D
      /\ \A n \in D : /\ doubt'[n].version = Len(hist[n]) + 1
                      /\ doubt'[n].version \in Nat \ {0}
  BY KeptAppend
<1>4. work \in [Names -> Work] /\ D \subseteq Names
  BY <1>0, WorkType DEF Dirty
<1>5. order \in Seq(Names) /\ Len(order) \in Nat
  BY <1>4, OrderType
<1>6. /\ walDisk \in Seq(Record) /\ lastSeq \in Nat
      /\ lastSeq' \in Nat /\ lastSeq <= lastSeq'
  BY <1>0, <1>2, <1>5, FileTypes
<1>8. ASSUME NEW file \in Files
      PROVE  /\ Recoverable(wal', file.index, Kept, D)
             /\ Numbered(wal', lastSeq')
             /\ Part(wal, wal')
  <2>1. /\ Appendable(wal, lastSeq, file.index, Kept, tx[t].id, order, work)
        /\ Bounded(wal, file.index, Kept, {})
    BY <1>1, <1>2, BeforeAppend
  <2>2. Bounded(wal, file.index, Kept, D)
    BY <2>1, NewDoubt
  <2>3. LET less == wal \o part
        IN  /\ LogOK(less) /\ Chained(less, file.index)
            /\ Bounded(less, file.index, Kept, D)
            /\ Complete(less, file.index, Kept)
            /\ Numbered(less, lastSeq + Len(order) + 2)
            /\ Part(wal, less)
    BY <2>1, <2>2, PartialBehind
  <2> QED
    BY <1>2, <1>2a, <2>3 DEF Recoverable
<1>9. snap \in Files /\ Files' = Files
  BY <1>1 DEF Files
<1>10. FilesOK'
  <2> SUFFICES ASSUME NEW log \in Logs', NEW file \in Files
               PROVE  /\ Recoverable(log, file.index, Kept, D)
                      /\ Numbered(log, lastSeq')
                      /\ Strict => file.flushed
    BY <1>3, <1>9 DEF FilesOK
  <2>1. log = wal' \/ (log = walDisk /\ log \in Logs)
    BY <1>1 DEF Logs
  <2>2. Strict => file.flushed
    BY DEF CrashInv, FilesOK, Logs
  <2>3. CASE log = wal'
    BY <1>8, <2>2, <2>3
  <2>4. CASE log = walDisk /\ log \in Logs
    <3>1. DOMAIN doubt = {}
      BY <1>1, <1>2, BeforeAppend
    <3>2. Recoverable(log, file.index, Kept, {}) /\ Numbered(log, lastSeq)
      BY <2>4, <3>1 DEF CrashInv, FilesOK
    <3>3. Numbered(log, lastSeq')
      BY <1>6, <2>4, <3>2, NumberedLater
    <3> QED
      BY <2>2, <3>2, <3>3, NewDoubt DEF Recoverable
  <2> QED
    BY <2>1, <2>3, <2>4
<1>11. DeviceOK'
  <2>1. CASE ~ Strict
    BY <2>1 DEF DeviceOK
  <2>2. CASE Strict /\ Part(walDisk, wal)
    BY <1>1, <1>8, <1>9, <2>2, PartGrows DEF DeviceOK
  <2>3. CASE Covers(snap) /\ Covers(snapDisk)
    BY <1>1, <1>3, <2>3 DEF DeviceOK, Covers
  <2> QED
    BY <2>1, <2>2, <2>3 DEF CrashInv, DeviceOK
<1>14. DoubtOK'
  BY <1>1, <1>3, <1>4 DEF DoubtOK
<1>15. pc'[t] = "idle"
  BY <1>0, <1>1, LeaveType
<1>16. StageOK(t)'
  BY <1>15 DEF StageOK
<1>17. \A u \in Threads : StageOK(u)'
  BY <1>0, <1>16, OthersStage
<1> QED
  BY <1>1, <1>10, <1>11, <1>14, <1>17 DEF CrashInv

(* The barrier: the device has the batch.                                  *)
LEMMA CrashBarrier ==
    ASSUME HeapInv, CrashInv, NEW t \in Threads, Barrier(t), TrackDoubt
    PROVE  CrashInv'
<1>0. TypeInv /\ DurableStep(t) /\ CallStep(t)
  BY DEF HeapInv, SafeInv, DurableStep, CallStep, CommitStep
<1>1. /\ pc[t] = "barrier" /\ walDisk' = wal
      /\ pc' = [pc EXCEPT ![t] = "publish"]
      /\ UNCHANGED <<wal, snap, snapDisk, tmp, roots, lastSeq, poisoned, call,
                     hist>>
  BY DEF Barrier, Goto, index, flags
<1>2. doubt' = doubt
  <2>1. ~ AppendBatch(t) /\ ~ AppendFails(t) /\ ~ Publish(t)
    BY <1>1 DEF AppendBatch, AppendFails, Publish
  <2> QED
    BY <1>0, <2>1, DoubtKept
<1>3. Kept' = Kept
  BY <1>1, <1>2, KeptSame
<1>4. pc'[t] = "publish"
  BY <1>0, <1>1 DEF TypeInv, TypeOK
<1>5. FilesOK'
  BY <1>1, <1>2, <1>3 DEF CrashInv, FilesOK, Logs, Files
<1>6. DeviceOK'
  <2>1. wal \in Seq(Record)
    BY <1>0, FileTypes
  <2> QED
    BY <1>1, <2>1 DEF DeviceOK, Part
<1>7. DoubtOK'
  BY <1>1, <1>2, <1>4 DEF CrashInv, DoubtOK
<1>8. StageOK(t)'
  <2>1. BatchOK(t)
    BY <1>1 DEF CrashInv, StageOK
  <2>2. BatchOK(t)'
    BY <1>1, <1>2, <2>1 DEF BatchOK, Todo
  <2> QED
    BY <1>1, <1>4, <2>2 DEF StageOK
<1>9. \A u \in Threads : StageOK(u)'
  BY <1>0, <1>8, OthersStage
<1>10. ~ poisoned' => WholeBatches(wal')
  BY <1>1 DEF CrashInv
<1> QED
  BY <1>5, <1>6, <1>7, <1>9, <1>10 DEF CrashInv

(* The end of a publication: the batch in doubt is kept from now on.       *)
LEMMA Resolved ==
    ASSUME NEW log, NEW base, NEW kept \in [Names -> Nat],
           NEW now \in [Names -> Nat], NEW D \in SUBSET Names,
           log \in Seq(Record),
           \A n \in Names : base[n].version \in Nat,
           Recoverable(log, base, kept, D),
           \A n \in D : /\ now[n] = kept[n] + 1
                        /\ Settled(log, Len(log) + 1, n, kept[n] + 1),
           \A n \in Names \ D : now[n] = kept[n]
    PROVE  Recoverable(log, base, now, {})
<1>1. \A n \in Names : kept[n] <= now[n]
  <2> SUFFICES ASSUME NEW n \in Names PROVE kept[n] <= now[n]
    OBVIOUS
  <2>1. CASE n \in D
    BY <2>1
  <2>2. CASE n \notin D
    BY <2>2
  <2> QED
    BY <2>1, <2>2
<1>2. Complete(log, base, now)
  <2> SUFFICES ASSUME NEW n \in Names
               PROVE  \/ now[n] <= base[n].version
                      \/ Settled(log, Len(log) + 1, n, now[n])
    BY DEF Complete
  <2>1. CASE n \in D
    BY <2>1
  <2>2. CASE n \notin D
    <3>1. now[n] = kept[n]
      BY <2>2
    <3>2. \/ kept[n] <= base[n].version
          \/ Settled(log, Len(log) + 1, n, kept[n])
      BY DEF Recoverable, Complete
    <3> QED
      BY <3>1, <3>2
  <2> QED
    BY <2>1, <2>2
<1>3. Bounded(log, base, now, {})
  <2>1. \A n \in Names : base[n].version <= now[n]
    <3> SUFFICES ASSUME NEW n \in Names PROVE base[n].version <= now[n]
      OBVIOUS
    <3>1. base[n].version <= kept[n] /\ kept[n] <= now[n]
      BY <1>1 DEF Recoverable, Bounded
    <3> QED
      BY <3>1
  <2> SUFFICES ASSUME NEW c \in 1 .. Len(log), log[c].type = "commit",
                      NEW j \in 1 .. c - 1, log[j].type = "root_update"
               PROVE  log[j].version <= now[log[j].name]
    BY <2>1 DEF Bounded
  <2>2. \/ log[j].version <= kept[log[j].name]
        \/ WithinDoubt(log, c, j, kept, D)
    BY DEF Recoverable, Bounded
  <2>3. log[j] \in Record
    OBVIOUS
  <2>4. log[j].name \in Names /\ log[j].version \in Nat
    BY <2>3, RecordKind
  <2> DEFINE n == log[j].name
  <2>5. WithinDoubt(log, c, j, kept, D) => n \in D /\ log[j].version = now[n]
    BY DEF WithinDoubt
  <2>6. kept[n] <= now[n] /\ kept[n] \in Nat /\ now[n] \in Nat
    BY <1>1, <2>4
  <2> QED
    BY <2>2, <2>4, <2>5, <2>6
<1> QED
  BY <1>2, <1>3 DEF Recoverable

(* Publish: the last root of a batch ends the doubt.                       *)
LEMMA CrashPublish ==
    ASSUME HeapInv, CrashInv, NEW t \in Threads, Publish(t), TrackDoubt
    PROVE  CrashInv'
<1>0. TypeInv /\ DurableStep(t) /\ CallStep(t)
  BY DEF HeapInv, SafeInv, DurableStep, CallStep, CommitStep
<1> DEFINE todo == call[t].todo
           m == Head(todo).name
           last == Len(todo) = 1
<1>1. /\ pc[t] = "publish"
      /\ hist' = [hist EXCEPT ![m] =
                    Append(@, [tx |-> tx[t].id, data |-> tx[t].work[m].data])]
      /\ call' = [call EXCEPT ![t].todo = Tail(@)]
      /\ pc' = [pc EXCEPT ![t] = IF last THEN "threshold" ELSE "publish"]
      /\ UNCHANGED <<wal, walDisk, snap, snapDisk, tmp, lastSeq, poisoned>>
  BY DEF Publish, Goto, storage, flags
<1>2. todo \in Seq(Update) /\ todo # << >>
  BY <1>0, <1>1 DEF TypeInv, TypeOK, CallOK, Call
<1>3. /\ Len(todo) \in Nat \ {0} /\ Head(todo) = todo[1] /\ m \in Names
      /\ Tail(todo) \in Seq(Update) /\ Len(Tail(todo)) = Len(todo) - 1
      /\ \A i \in 1 .. Len(todo) - 1 : Tail(todo)[i] = todo[i + 1]
  <2> HIDE DEF todo
  <2>1. /\ Len(todo) \in Nat \ {0} /\ Head(todo) = todo[1]
        /\ todo[1] \in Update
    BY <1>2
  <2>2. /\ Tail(todo) \in Seq(Update) /\ Len(Tail(todo)) = Len(todo) - 1
        /\ \A i \in 1 .. Len(todo) - 1 : Tail(todo)[i] = todo[i + 1]
    BY <1>2
  <2>3. m \in Names
    BY <2>1 DEF Update
  <2> QED
    BY <2>1, <2>2, <2>3
<1>4. \A i, j \in 1 .. Len(todo) : todo[i].name = todo[j].name => i = j
  BY <1>1 DEF HeapInv, SafeInv, StoreInv, TodoOK
<1>5. pc'[t] = IF last THEN "threshold" ELSE "publish"
  BY <1>0, <1>1 DEF TypeInv, TypeOK
<1>6. call'[t].todo = Tail(todo)
  BY <1>0, <1>1 DEF TypeInv, TypeOK, Call
<1> HIDE DEF todo, m, last
<1>7. /\ m \in Todo(t)
      /\ Todo(t)' = Todo(t) \ {m}
      /\ last <=> Todo(t)' = {}
  <2>1. Todo(t) = {todo[i].name : i \in 1 .. Len(todo)}
    BY DEF Todo, todo
  <2>2. Todo(t)' = {Tail(todo)[i].name : i \in 1 .. Len(todo) - 1}
    BY <1>3, <1>6 DEF Todo
  <2>3. m = todo[1].name
    BY <1>3 DEF m
  <2>4. m \in Todo(t)
    BY <1>3, <2>1, <2>3
  <2>5. ASSUME NEW n \in Todo(t)' PROVE n \in Todo(t) \ {m}
    <3>1. PICK i \in 1 .. Len(todo) - 1 : n = Tail(todo)[i].name
      BY <2>2
    <3>2. i + 1 \in 1 .. Len(todo) /\ n = todo[i + 1].name /\ i + 1 # 1
      BY <1>3, <3>1
    <3>3. 1 \in 1 .. Len(todo)
      BY <1>3
    <3> QED
      BY <1>4, <2>1, <2>3, <3>2, <3>3
  <2>6. ASSUME NEW n \in Todo(t) \ {m} PROVE n \in Todo(t)'
    <3>1. PICK i \in 1 .. Len(todo) : n = todo[i].name
      BY <2>1
    <3>2. i # 1
      BY <2>3, <3>1
    <3>3. i - 1 \in 1 .. Len(todo) - 1 /\ (i - 1) + 1 = i
      BY <1>3, <3>2
    <3>4. Tail(todo)[i - 1] = todo[i]
      BY <1>3, <3>3
    <3> QED
      BY <2>2, <3>1, <3>3, <3>4
  <2>7. last => Todo(t)' = {}
    BY <1>3, <2>2 DEF last
  <2>8. ~ last => Todo(t)' # {}
    <3> SUFFICES ASSUME ~ last PROVE Todo(t)' # {}
      OBVIOUS
    <3>1. 1 \in 1 .. Len(todo) - 1
      BY <1>3 DEF last
    <3> QED
      BY <2>2, <3>1
  <2> QED
    BY <2>4, <2>5, <2>6, <2>7, <2>8
<1>8. /\ \A n \in Names \ {m} : hist'[n] = hist[n]
      /\ Len(hist'[m]) = Len(hist[m]) + 1
      /\ \A n \in Names : Len(hist[n]) \in Nat
  <2>1. hist \in [Names -> Seq(Version)]
    BY <1>0 DEF TypeInv, TypeOK
  <2>2. m \in Names
    BY <1>3
  <2>3. hist'[m] = Append(hist[m], [tx |-> tx[t].id,
                                    data |-> tx[t].work[m].data])
    BY <1>1, <2>1, <2>2
  <2> QED
    BY <1>1, <2>1, <2>2, <2>3
<1>9. /\ BatchOK(t) /\ DOMAIN doubt \subseteq Names
      /\ \A n \in DOMAIN doubt : doubt[n].version \in Nat \ {0}
      /\ Strict => walDisk = wal
      /\ ~ poisoned
  <2>1. ~ poisoned
    BY <1>1 DEF HeapInv, PoisonInv, Committing
  <2> QED
    BY <1>1, <2>1 DEF CrashInv, StageOK, DoubtOK
<1>10. \A n \in DOMAIN doubt :
          /\ n \in Todo(t)' => Len(hist'[n]) = doubt[n].version - 1
          /\ n \notin Todo(t)' => Len(hist'[n]) = doubt[n].version
  <2> SUFFICES ASSUME NEW n \in DOMAIN doubt
               PROVE  /\ n \in Todo(t)' => Len(hist'[n]) = doubt[n].version - 1
                      /\ n \notin Todo(t)' => Len(hist'[n]) = doubt[n].version
    OBVIOUS
  <2>1. /\ n \in Names /\ doubt[n].version \in Nat
        /\ n \in Todo(t) => Len(hist[n]) = doubt[n].version - 1
        /\ n \notin Todo(t) => Len(hist[n]) = doubt[n].version
    BY <1>9 DEF BatchOK
  <2>2. CASE n = m
    BY <1>7, <1>8, <2>1, <2>2
  <2>3. CASE n # m
    BY <1>7, <1>8, <2>1, <2>3
  <2> QED
    BY <2>2, <2>3
<1>11. Logs' = Logs /\ Files' = Files
  BY <1>1 DEF Logs, Files
<1>12. DeviceOK'
  <2>1. wal \in Seq(Record)
    BY <1>0, FileTypes
  <2> QED
    BY <1>1, <1>9, <2>1 DEF DeviceOK, Part
<1>13. CASE last
  <2>1. pc'[t] = "threshold"
    BY <1>5, <1>13
  <2>2. doubt' = NoDoubt
    BY <1>0, <2>1, DoubtDone
  <2>3. DOMAIN doubt' = {}
    BY <2>2 DEF NoDoubt
  <2>4. Kept' = [n \in Names |-> Len(hist'[n])]
    BY <2>3 DEF Kept
  <2>5. /\ Kept \in [Names -> Nat]
        /\ Kept' \in [Names -> Nat]
    <3>1. Kept \in [Names -> Nat]
      BY <1>0, KeptType DEF CrashInv
    <3>2. \A n \in Names : Len(hist'[n]) \in Nat
      BY <1>8
    <3> QED
      BY <2>4, <3>1, <3>2
  <2>6. ASSUME NEW n \in DOMAIN doubt
        PROVE  /\ Kept'[n] = Kept[n] + 1
               /\ Settled(wal, Len(wal) + 1, n, Kept[n] + 1)
    <3>1. n \in Names /\ doubt[n].version \in Nat /\ n \notin Todo(t)'
      BY <1>7, <1>9, <1>13
    <3>2. Kept[n] = doubt[n].version - 1 /\ Kept'[n] = doubt[n].version
      BY <1>10, <2>4, <3>1 DEF Kept
    <3>3. Settled(wal, Len(wal) + 1, n, doubt[n].version)
      BY <1>9 DEF BatchOK
    <3>4. doubt[n].version = Kept[n] + 1
      BY <3>1, <3>2
    <3> QED
      BY <3>2, <3>3, <3>4
  <2>7. ASSUME NEW n \in Names \ DOMAIN doubt
        PROVE  Kept'[n] = Kept[n]
    <3>1. n # m
      BY <1>7, <1>9 DEF BatchOK
    <3> QED
      BY <1>8, <2>4, <3>1 DEF Kept
  <2>8. FilesOK'
    <3> SUFFICES ASSUME NEW log \in Logs, NEW file \in Files
                 PROVE  /\ Recoverable(log, file.index, Kept', {})
                        /\ Numbered(log, lastSeq)
                        /\ Strict => file.flushed
      BY <1>1, <1>11, <2>3 DEF FilesOK
    <3>1. log = wal
      BY <1>9 DEF Logs
    <3>2. /\ Recoverable(log, file.index, Kept, DOMAIN doubt)
          /\ Numbered(log, lastSeq)
          /\ Strict => file.flushed
      BY DEF CrashInv, FilesOK
    <3>3. \A n \in Names : file.index[n].version \in Nat
      BY <1>0, FileTypes DEF Files
    <3>4. log \in Seq(Record)
      BY <1>0, <3>1, FileTypes
    <3>5. PICK now \in [Names -> Nat] : now = Kept'
      BY <2>5
    <3>6. PICK kept \in [Names -> Nat] : kept = Kept
      BY <2>5
    <3>7. /\ \A n \in DOMAIN doubt :
                /\ now[n] = kept[n] + 1
                /\ Settled(log, Len(log) + 1, n, kept[n] + 1)
          /\ \A n \in Names \ DOMAIN doubt : now[n] = kept[n]
      BY <2>6, <2>7, <3>1, <3>5, <3>6
    <3>8. Recoverable(log, file.index, now, {})
      BY <1>9, <3>2, <3>3, <3>4, <3>6, <3>7, Resolved
    <3> QED
      BY <3>2, <3>5, <3>8
  <2>9. DoubtOK'
    BY <1>1, <1>9, <2>3 DEF DoubtOK
  <2>10. StageOK(t)'
    BY <2>1 DEF StageOK
  <2>11. \A u \in Threads : StageOK(u)'
    BY <1>0, <2>10, OthersStage
  <2> QED
    BY <1>1, <1>12, <2>8, <2>9, <2>11 DEF CrashInv
<1>14. CASE ~ last
  <2>1. pc'[t] = "publish"
    BY <1>5, <1>14
  <2>2. doubt' = doubt
    <3>1. ~ AppendBatch(t) /\ ~ AppendFails(t)
      BY <1>1 DEF AppendBatch, AppendFails
    <3> QED
      BY <1>0, <2>1, <3>1, DoubtKept
  <2>3. Kept' = Kept
    <3>1. m \in DOMAIN doubt
      BY <1>7, <1>9 DEF BatchOK
    <3>2. \A n \in Names : n \notin DOMAIN doubt => Len(hist'[n]) = Len(hist[n])
      BY <1>8, <3>1
    <3> QED
      BY <2>2, <3>2 DEF Kept
  <2>4. FilesOK'
    BY <1>1, <1>11, <2>2, <2>3 DEF CrashInv, FilesOK
  <2>5. DoubtOK'
    BY <1>1, <1>9, <2>1, <2>2 DEF DoubtOK
  <2>6. BatchOK(t)'
    BY <1>1, <1>7, <1>9, <1>10, <2>2 DEF BatchOK
  <2>7. StageOK(t)'
    BY <1>1, <1>9, <2>1, <2>6 DEF StageOK
  <2>8. \A u \in Threads : StageOK(u)'
    BY <1>0, <2>7, OthersStage
  <2> QED
    BY <1>1, <1>12, <2>4, <2>5, <2>8 DEF CrashInv
<1> QED
  BY <1>13, <1>14

-----------------------------------------------------------------------------
(* The steps of a checkpoint keep history, doubt and sequence numbers.     *)

Checkpointing(t) ==
    \/ Save(t) \/ FlushTmp(t) \/ AtomicReplace(t) \/ SyncDirectory(t)
    \/ Install(t) \/ Truncate(t) \/ SyncWal(t)

(* A checkpoint changes neither what is kept nor what is in doubt.         *)
LEMMA CheckpointKeeps ==
    ASSUME HeapInv, CrashInv, NEW t \in Threads, Checkpointing(t), TrackDoubt
    PROVE  /\ TypeInv /\ DurableStep(t) /\ CallStep(t)
           /\ hist' = hist /\ doubt' = doubt /\ lastSeq' = lastSeq
           /\ poisoned' = poisoned
           /\ Kept' = Kept
           /\ \A n \in Names : Kept[n] = roots[n].version
           /\ DoubtOK'
<1>1. TypeInv /\ DurableStep(t) /\ CallStep(t)
  BY DEF HeapInv, SafeInv, DurableStep, CallStep, CheckpointStep,
         Checkpointing
<1>2. /\ hist' = hist /\ lastSeq' = lastSeq /\ poisoned' = poisoned
      /\ pc[t] \in HoldsCommitMutex
      /\ pc[t] \notin {"append", "barrier", "publish"}
  BY DEF Checkpointing, Save, FlushTmp, AtomicReplace, SyncDirectory, Install,
         Truncate, SyncWal, HoldsCommitMutex, index, flags
<1>3. doubt' = doubt
  <2>1. ~ AppendBatch(t) /\ ~ AppendFails(t) /\ ~ Publish(t)
    BY <1>2 DEF AppendBatch, AppendFails, Publish
  <2> QED
    BY <1>1, <2>1, DoubtKept
<1>4. Kept' = Kept
  BY <1>2, <1>3, KeptSame
<1>5. \A n \in Names : Kept[n] = roots[n].version
  BY <1>2, KeptIndex DEF CrashInv
<1>6. DoubtOK'
  <2>1. \A u \in Threads \ {t} : pc'[u] = pc[u]
    BY <1>1, OthersKept
  <2> QED
    BY <1>2, <1>3, <2>1 DEF CrashInv, DoubtOK
<1> QED
  BY <1>1, <1>2, <1>3, <1>4, <1>5, <1>6

(* A snapshot with the kept versions goes with every journal that went     *)
(* with an older one.                                                      *)
LEMMA NewBase ==
    ASSUME NEW log \in Seq(Record), NEW base, NEW next, NEW kept, NEW D,
           Recoverable(log, base, kept, D),
           \A n \in Names : /\ base[n].version \in Nat
                            /\ next[n].version \in Nat
                            /\ kept[n] = next[n].version
    PROVE  Recoverable(log, next, kept, D)
<1>1. \A n \in Names : base[n].version <= next[n].version
  BY DEF Recoverable, Bounded
<1>2. Chained(log, next)
  <2> SUFFICES ASSUME NEW i \in 1 .. Len(log), log[i].type = "root_update"
               PROVE  /\ log[i].version = log[i].expected + 1
                      /\ \/ log[i].expected <= next[log[i].name].version
                         \/ Settled(log, i, log[i].name, log[i].expected)
    BY DEF Chained
  <2>1. /\ log[i].version = log[i].expected + 1
        /\ \/ log[i].expected <= base[log[i].name].version
           \/ Settled(log, i, log[i].name, log[i].expected)
    BY DEF Recoverable, Chained
  <2>2. log[i].name \in Names /\ log[i].expected \in Nat
    BY RecordKind
  <2> QED
    BY <1>1, <2>1, <2>2
<1>3. Complete(log, next, kept)
  BY DEF Complete
<1>4. Bounded(log, next, kept, D)
  BY DEF Recoverable, Bounded
<1> QED
  BY <1>2, <1>3, <1>4 DEF Recoverable

(* The new snapshot is written and flushed under another name.             *)
LEMMA CrashSave ==
    ASSUME HeapInv, CrashInv, NEW t \in Threads,
           Save(t) \/ FlushTmp(t) \/ Install(t), TrackDoubt
    PROVE  CrashInv'
<1>1. /\ TypeInv /\ DurableStep(t)
      /\ hist' = hist /\ doubt' = doubt /\ lastSeq' = lastSeq
      /\ poisoned' = poisoned
      /\ Kept' = Kept
      /\ DoubtOK'
  BY CheckpointKeeps DEF Checkpointing
<1>2. UNCHANGED <<wal, walDisk, snap, snapDisk>>
  BY DEF Save, FlushTmp, Install, storage
<1>3. FilesOK' /\ DeviceOK' /\ (~ poisoned' => WholeBatches(wal'))
  BY <1>1, <1>2 DEF CrashInv, FilesOK, DeviceOK, Logs, Files, Covers
<1>4. pc \in [Threads -> Labels]
  BY <1>1 DEF TypeInv, TypeOK
<1>5. CASE Save(t)
  <2>1. tmp'.index = SavedRoots(roots) /\ roots' = roots
    BY <1>5 DEF Save, SavedFile, index
  <2>2. pc'[t] = IF Strict THEN "flush_tmp" ELSE "replace"
    BY <1>4, <1>5 DEF Save, Goto
  <2>3. \A n \in Names : tmp'.index[n].version = roots[n].version
    BY <1>1, <2>1, SavedVersions
  <2>4. StageOK(t)'
    BY <2>1, <2>2, <2>3 DEF StageOK
  <2> QED
    BY <1>1, <1>3, <2>4, OthersStage DEF CrashInv
<1>6. CASE FlushTmp(t)
  <2>1. tmp \in File
    BY <1>1, FileTypes
  <2>2. tmp'.index = tmp.index /\ tmp'.flushed /\ roots' = roots
    BY <1>6, <2>1 DEF FlushTmp, File, index
  <2>3. pc[t] = "flush_tmp" /\ pc'[t] = "replace"
    BY <1>4, <1>6 DEF FlushTmp, Goto
  <2>4. StageOK(t)'
    BY <2>2, <2>3 DEF StageOK, CrashInv
  <2> QED
    BY <1>1, <1>3, <2>4, OthersStage DEF CrashInv
<1>7. CASE Install(t)
  <2>1. pc[t] = "install" /\ pc'[t] = "truncate"
    BY <1>4, <1>7 DEF Install, Goto
  <2>2. StageOK(t)'
    BY <1>1, <1>2, <2>1 DEF StageOK, CrashInv, Covers
  <2> QED
    BY <1>1, <1>3, <2>2, OthersStage DEF CrashInv
<1> QED
  BY <1>5, <1>6, <1>7

(* It gets its name, first for the processes and then for the device.      *)
LEMMA CrashReplace ==
    ASSUME HeapInv, CrashInv, NEW t \in Threads, AtomicReplace(t), TrackDoubt
    PROVE  CrashInv'
<1>1. /\ TypeInv /\ DurableStep(t)
      /\ hist' = hist /\ doubt' = doubt /\ lastSeq' = lastSeq
      /\ poisoned' = poisoned
      /\ Kept' = Kept
      /\ \A n \in Names : Kept[n] = roots[n].version
      /\ DoubtOK'
  BY CheckpointKeeps DEF Checkpointing
<1>2. /\ UNCHANGED <<wal, walDisk, snapDisk>> /\ snap' = tmp
      /\ pc[t] = "replace"
      /\ pc'[t] = IF Strict THEN "sync_dir" ELSE "install"
  BY <1>1 DEF AtomicReplace, Goto, TypeInv, TypeOK
<1>3. /\ \A n \in Names : Kept[n] = tmp.index[n].version
      /\ Strict => tmp.flushed
  BY <1>1, <1>2 DEF CrashInv, StageOK
<1>4. /\ \A n \in Names : /\ snap.index[n].version \in Nat
                          /\ tmp.index[n].version \in Nat
      /\ wal \in Seq(Record) /\ walDisk \in Seq(Record)
  BY <1>1, FileTypes
<1>5. ASSUME NEW log \in Logs
      PROVE  /\ Recoverable(log, tmp.index, Kept, DOMAIN doubt)
             /\ Numbered(log, lastSeq)
  <2>1. log \in Seq(Record) /\ snap \in Files
    BY <1>4 DEF Logs, Files
  <2>2. /\ Recoverable(log, snap.index, Kept, DOMAIN doubt)
        /\ Numbered(log, lastSeq)
    BY <2>1 DEF CrashInv, FilesOK
  <2> QED
    BY <1>3, <1>4, <2>1, <2>2, NewBase
<1>6. FilesOK'
  <2> SUFFICES ASSUME NEW log \in Logs, NEW file \in Files'
               PROVE  /\ Recoverable(log, file.index, Kept, DOMAIN doubt)
                      /\ Numbered(log, lastSeq)
                      /\ Strict => file.flushed
    BY <1>1, <1>2 DEF FilesOK, Logs
  <2>1. file = tmp \/ file \in Files
    BY <1>2 DEF Files
  <2> QED
    BY <1>3, <1>5, <2>1 DEF CrashInv, FilesOK
<1>7. Covers(snap)'
  BY <1>1, <1>2, <1>3, <1>4 DEF Covers
<1>8. DeviceOK'
  BY <1>1, <1>2, <1>7 DEF CrashInv, DeviceOK, Covers
<1>9. StageOK(t)'
  <2>1. pc'[t] = "install" => ~ Strict
    BY <1>2
  <2> QED
    BY <1>2, <1>7, <2>1 DEF StageOK
<1> QED
  BY <1>1, <1>2, <1>6, <1>8, <1>9, OthersStage DEF CrashInv

(* SyncDirectory: a power loss now finds the new snapshot.                 *)
LEMMA CrashSyncDirectory ==
    ASSUME HeapInv, CrashInv, NEW t \in Threads, SyncDirectory(t), TrackDoubt
    PROVE  CrashInv'
<1>1. /\ TypeInv /\ DurableStep(t)
      /\ hist' = hist /\ doubt' = doubt /\ lastSeq' = lastSeq
      /\ poisoned' = poisoned
      /\ Kept' = Kept
      /\ DoubtOK'
  BY CheckpointKeeps DEF Checkpointing
<1>2. /\ UNCHANGED <<wal, walDisk, snap>> /\ snapDisk' = snap
      /\ pc[t] = "sync_dir" /\ pc'[t] = "install"
  BY <1>1 DEF SyncDirectory, Goto, TypeInv, TypeOK
<1>3. Covers(snap)
  BY <1>2 DEF CrashInv, StageOK
<1>4. FilesOK'
  BY <1>1, <1>2 DEF CrashInv, FilesOK, Logs, Files
<1>5. DeviceOK'
  BY <1>1, <1>2, <1>3 DEF DeviceOK, Covers
<1>6. StageOK(t)'
  BY <1>1, <1>2, <1>3 DEF StageOK, Covers
<1> QED
  BY <1>1, <1>2, <1>4, <1>5, <1>6, OthersStage DEF CrashInv

(* The journal is emptied when no file that may survive needs it.          *)
LEMMA CrashTruncate ==
    ASSUME HeapInv, CrashInv, NEW t \in Threads, Truncate(t), TrackDoubt
    PROVE  CrashInv'
<1>1. /\ TypeInv /\ DurableStep(t)
      /\ hist' = hist /\ doubt' = doubt /\ lastSeq' = lastSeq
      /\ poisoned' = poisoned
      /\ Kept' = Kept
      /\ DoubtOK'
  BY CheckpointKeeps DEF Checkpointing
<1>2. /\ UNCHANGED <<walDisk, snap, snapDisk>> /\ wal' = << >>
      /\ pc[t] = "truncate"
  BY DEF Truncate
<1>3. pc'[t] \in {"sync_wal", "idle"}
  BY <1>1 DEF Truncate, Return, Leave, Goto, TypeInv, TypeOK
<1>4. Covers(snap) /\ (Strict => Covers(snapDisk))
  BY <1>2 DEF CrashInv, StageOK
<1>5. FilesOK'
  <2> SUFFICES ASSUME NEW log \in Logs', NEW file \in Files
               PROVE  /\ Recoverable(log, file.index, Kept, DOMAIN doubt)
                      /\ Numbered(log, lastSeq)
                      /\ Strict => file.flushed
    BY <1>1, <1>2 DEF FilesOK, Files
  <2>1. log = << >> \/ log \in Logs
    BY <1>2 DEF Logs
  <2>2. CASE log \in Logs
    BY <2>2 DEF CrashInv, FilesOK
  <2>3. CASE log = << >>
    <3>1. log \in Seq(Record) /\ Len(log) = 0
      BY <2>3
    <3>2. LogOK(log) /\ Chained(log, file.index) /\ Numbered(log, lastSeq)
      BY <3>1 DEF LogOK, Ordered, Chained, Numbered
    <3>3. Complete(log, file.index, Kept)
      BY <1>4 DEF Complete, Covers, Files
    <3>4. /\ Bounded(wal, file.index, Kept, DOMAIN doubt)
          /\ Strict => file.flushed
      BY DEF CrashInv, FilesOK, Logs, Recoverable
    <3>5. Bounded(log, file.index, Kept, DOMAIN doubt)
      BY <3>1, <3>4 DEF Bounded
    <3> QED
      BY <3>2, <3>3, <3>4, <3>5 DEF Recoverable
  <2> QED
    BY <2>1, <2>2, <2>3
<1>6. DeviceOK'
  BY <1>1, <1>2, <1>4 DEF DeviceOK, Covers
<1>7. WholeBatches(wal')
  BY <1>2 DEF WholeBatches
<1>8. StageOK(t)'
  BY <1>1, <1>2, <1>3, <1>4 DEF StageOK, Covers
<1> QED
  BY <1>1, <1>5, <1>6, <1>7, <1>8, OthersStage DEF CrashInv

(* SyncWal: the emptied journal is on the device.                          *)
LEMMA CrashSyncWal ==
    ASSUME HeapInv, CrashInv, NEW t \in Threads, SyncWal(t), TrackDoubt
    PROVE  CrashInv'
<1>1. /\ TypeInv /\ DurableStep(t)
      /\ hist' = hist /\ doubt' = doubt /\ lastSeq' = lastSeq
      /\ poisoned' = poisoned
      /\ Kept' = Kept
      /\ DoubtOK'
  BY CheckpointKeeps DEF Checkpointing
<1>2. UNCHANGED <<wal, snap, snapDisk>> /\ walDisk' = wal
  BY DEF SyncWal
<1>3. pc'[t] = "idle"
  BY <1>1 DEF SyncWal, Return, Leave, Goto, TypeInv, TypeOK
<1>4. FilesOK'
  BY <1>1, <1>2 DEF CrashInv, FilesOK, Logs, Files
<1>5. DeviceOK'
  <2>1. wal \in Seq(Record)
    BY <1>1, FileTypes
  <2> QED
    BY <1>2, <2>1 DEF DeviceOK, Part
<1>6. StageOK(t)'
  BY <1>3 DEF StageOK
<1> QED
  BY <1>1, <1>2, <1>4, <1>5, <1>6, OthersStage DEF CrashInv

-----------------------------------------------------------------------------
(* The invariants of a heap that has not crashed yet.                      *)

LEMMA CrashNext ==
    ASSUME HeapInv, CrashInv, Next, TrackDoubt
    PROVE  CrashInv'
<1>1. CASE Close
  <2>1. /\ UNCHANGED <<wal, walDisk, snap, snapDisk, tmp, roots, lastSeq>>
        /\ UNCHANGED <<poisoned, pc, call, hist>>
    BY <1>1 DEF Close, storage, index, control
  <2>2. doubt' = doubt
    BY <2>1, DoubtIdle
  <2>3. Kept' = Kept
    BY <2>1, <2>2, KeptSame
  <2> QED
    BY <2>1, <2>2, <2>3 DEF CrashInv, FilesOK, Logs, Files, DeviceOK, DoubtOK,
       StageOK, BatchOK, Covers, Todo
<1>2. ASSUME NEW t \in Threads, Application(t) \/ CallStep(t)
      PROVE  CrashInv'
  <2>1. CASE ~ DurableStep(t)
    BY <1>2, <2>1, CrashQuiet
  <2>2. CASE DurableStep(t)
    BY <2>2, CrashAppend, CrashAppendFails, CrashBarrier, CrashPublish,
       CrashSave, CrashReplace, CrashSyncDirectory, CrashTruncate,
       CrashSyncWal DEF DurableStep
  <2> QED
    BY <2>1, <2>2
<1> QED
  BY <1>1, <1>2 DEF Next

(* Transaction ids stay within their bound in every step of the heap.      *)
LEMMA NumbersNext ==
    ASSUME HeapInv, Next
    PROVE  NumbersOK'
<1>0. TypeInv
  BY DEF HeapInv, SafeInv
<1>1. CASE Close
  BY <1>1 DEF Close, HeapInv, NumbersOK
<1>2. ASSUME NEW t \in Threads, Application(t) \/ CallStep(t)
      PROVE  NumbersOK'
  <2>1. \A u \in Threads \ {t} : tx'[u] = tx[u]
    BY <1>0, <1>2, OthersKept
  <2>2. nextTx > 0 /\ nextTx \in Nat
    BY <1>0 DEF HeapInv, NumbersOK, TypeInv, TypeOK
  <2>3. CASE Begin(t)
    <3>1. /\ nextTx' = nextTx + 1 /\ tx'[t].id = nextTx /\ nextTx <= MaxTx
      BY <1>0, <2>3 DEF Begin, TypeInv, TypeOK
    <3>2. nextTx' > 0 /\ tx'[t].id \in 1 .. MaxTx
      BY <2>2, <3>1, HeapAssumption
    <3> QED
      BY <2>1, <3>2 DEF HeapInv, NumbersOK
  <2>4. CASE ~ Begin(t)
    <3>1. nextTx' = nextTx /\ (tx'[t] = NoTx \/ TxSame(t))
      BY <1>0, <1>2, <2>4, TxKept DEF HeapInv
    <3>2. tx'[t].active => tx[t].active /\ tx'[t].id = tx[t].id
      <4>1. NoTx.active = FALSE
        BY DEF NoTx
      <4>2. CASE tx'[t] = NoTx
        BY <4>1, <4>2, Zenon
      <4>3. CASE TxSame(t)
        BY <4>3, Zenon DEF TxSame
      <4> QED
        BY <3>1, <4>2, <4>3
    <3> QED
      BY <2>1, <3>1, <3>2 DEF HeapInv, NumbersOK
  <2> QED
    BY <2>3, <2>4
<1> QED
  BY <1>1, <1>2 DEF Next

(* Every step of the heap preserves what the other proof modules show of   *)
(* it.                                                                     *)
LEMMA HeapNext == HeapInv /\ Next => HeapInv'
<1> SUFFICES ASSUME HeapInv, Next
             PROVE  HeapInv'
  OBVIOUS
<1>1. SafeInv' /\ PoisonInv'
  BY TypeNext, MutexNext, StoreNext, PoisonNext DEF HeapInv, SafeInv
<1>2. \A t \in Threads : CallTx(t)'
  BY CallTxNext DEF HeapInv, SafeInv
<1> QED
  BY <1>1, <1>2, NumbersNext DEF HeapInv

(* An empty heap.                                                          *)
LEMMA UpInit == RInit => HeapInv /\ CrashInv
<1> SUFFICES ASSUME RInit
             PROVE  HeapInv /\ CrashInv
  OBVIOUS
<1>1. Init /\ doubt = NoDoubt /\ DOMAIN doubt = {}
  BY DEF RInit, NoDoubt
<1>2. HeapInv
  <2>1. SafeInv
    BY <1>1, TypeInit, MutexInit, StoreInit DEF SafeInv
  <2>2. PoisonInv
    BY <1>1 DEF Init, PoisonInv
  <2>3. \A t \in Threads : CallTx(t)
    BY <1>1 DEF Init, CallTx, Committing, Loading
  <2>4. NumbersOK
    BY <1>1 DEF Init, NumbersOK, NoTx
  <2> QED
    BY <2>1, <2>2, <2>3, <2>4 DEF HeapInv
<1>3. Kept = [n \in Names |-> 0]
  BY <1>1 DEF Kept, Init
<1>4. FilesOK
  <2> SUFFICES ASSUME NEW log \in Logs, NEW file \in Files
               PROVE  /\ Recoverable(log, file.index, Kept, {})
                      /\ Numbered(log, lastSeq)
                      /\ Strict => file.flushed
    BY <1>1 DEF FilesOK
  <2>1. log = << >> /\ file = EmptyFile
    BY <1>1 DEF Init, Logs, Files
  <2>2. log \in Seq(Record) /\ Len(log) = 0
    BY <2>1
  <2>3. file.flushed /\ \A n \in Names : file.index[n].version = 0
    BY <2>1 DEF EmptyFile, NoRoots, NoRoot
  <2>4. LogOK(log) /\ Chained(log, file.index) /\ Numbered(log, lastSeq)
    BY <2>2 DEF LogOK, Ordered, Chained, Numbered
  <2>5. Complete(log, file.index, Kept)
    BY <1>3, <2>3 DEF Complete
  <2>6. Bounded(log, file.index, Kept, {})
    BY <1>3, <2>2, <2>3 DEF Bounded
  <2> QED
    BY <2>3, <2>4, <2>5, <2>6 DEF Recoverable
<1>5. DeviceOK
  <2>1. wal = << >> /\ walDisk = << >>
    BY <1>1 DEF Init
  <2> QED
    BY <2>1 DEF DeviceOK, Part
<1>6. DoubtOK /\ WholeBatches(wal)
  BY <1>1 DEF Init, DoubtOK, WholeBatches
<1>7. \A t \in Threads : StageOK(t)
  BY <1>1 DEF Init, StageOK
<1> QED
  BY <1>2, <1>4, <1>5, <1>6, <1>7 DEF CrashInv

-----------------------------------------------------------------------------
(* The crash.                                                              *)

(* A recovery starts with a journal and a snapshot that go together.       *)
DownInv ==
    /\ snap \in File
    /\ hist \in [Names -> Seq(Version)]
    /\ DOMAIN doubt \subseteq Names
    /\ \A n \in DOMAIN doubt : doubt[n].version = Len(hist[n]) + 1
    /\ Recoverable(wal, snap.index, Kept, DOMAIN doubt)

(* A nonempty set of numbers has a least element.                          *)
LEMMA Least ==
    ASSUME NEW T \in SUBSET Nat, T # {}
    PROVE  \E k \in T : \A j \in T : k <= j
<1>1. IsWellFoundedOn(OpToRel(<, Nat), Nat)
  BY NatLessThanWellFounded
<1>2. PICK k \in T : \A j \in T : ~ (<<j, k>> \in OpToRel(<, Nat))
  <2> DEFINE R == OpToRel(<, Nat)
  <2>1. IsWellFoundedOn(R, Nat)
    BY <1>1
  <2> HIDE DEF R
  <2>2. \E k \in T : \A j \in T : ~ (<<j, k>> \in R)
    BY <2>1, WFMin
  <2> QED
    BY <2>2 DEF R
<1>3. \A j \in T : ~ (j < k)
  BY <1>2 DEF OpToRel
<1> QED
  BY <1>3

(* The beginning of a journal, as SubSeq gives it.                         *)
LEMMA CutPart ==
    ASSUME NEW log \in Seq(Record), NEW k \in 0 .. Len(log)
    PROVE  /\ SubSeq(log, 1, k) \in Seq(Record)
           /\ Len(SubSeq(log, 1, k)) = k
           /\ Part(SubSeq(log, 1, k), log)
<1>1. \A i \in 1 .. k : log[i] \in Record
  OBVIOUS
<1>2. /\ SubSeq(log, 1, k) \in Seq(Record)
      /\ Len(SubSeq(log, 1, k)) = k
      /\ \A i \in 1 .. k : SubSeq(log, 1, k)[i] = log[i]
  BY <1>1, SubSeqProperties
<1> QED
  BY <1>2 DEF Part

(* The journals agree up to where they first differ.                       *)
Agrees(k) ==
    /\ k <= Len(walDisk)
    /\ SubSeq(wal, 1, k) = SubSeq(walDisk, 1, k)
    /\ k < Len(wal) /\ k < Len(walDisk) => wal[k + 1] # walDisk[k + 1]

(* Agreed is defined: a longest common prefix exists.                      *)
LEMMA AgreedIs ==
    ASSUME wal \in Seq(Record), walDisk \in Seq(Record)
    PROVE  Agreed \in 0 .. Len(wal) /\ Agrees(Agreed)
<1> DEFINE l == Len(wal)
           d == Len(walDisk)
           T == {k \in Nat : k <= l /\ k <= d /\
                    (k = l \/ k = d \/ wal[k + 1] # walDisk[k + 1])}
<1>1. l \in Nat /\ d \in Nat
  OBVIOUS
<1> HIDE DEF l, d
<1>2. T # {}
  <2>1. CASE l <= d
    <3>1. l \in T
      BY <1>1, <2>1
    <3> QED
      BY <3>1
  <2>2. CASE d <= l
    <3>1. d \in T
      BY <1>1, <2>2
    <3> QED
      BY <3>1
  <2> QED
    BY <1>1, <2>1, <2>2
<1>3. PICK k \in T : \A j \in T : k <= j
  <2>1. T \in SUBSET Nat
    OBVIOUS
  <2> HIDE DEF T
  <2> QED
    BY <1>2, <2>1, Least
<1>4. /\ k \in Nat /\ k <= l /\ k <= d
      /\ k = l \/ k = d \/ wal[k + 1] # walDisk[k + 1]
  OBVIOUS
<1>5. ASSUME NEW i \in 1 .. k
      PROVE  wal[i] = walDisk[i]
  <2>1. i - 1 \in Nat /\ i - 1 < k
    BY <1>4
  <2>2. i - 1 \notin T
    BY <1>3, <1>4, <2>1
  <2>3. (i - 1) + 1 = i
    OBVIOUS
  <2> QED
    BY <1>1, <1>4, <2>1, <2>2, <2>3
<1>6. SubSeq(wal, 1, k) = SubSeq(walDisk, 1, k)
  <2>1. /\ SubSeq(wal, 1, k) \in Seq(Record)
        /\ Len(SubSeq(wal, 1, k)) = k
        /\ Part(SubSeq(wal, 1, k), wal)
    BY <1>1, <1>4, CutPart DEF l
  <2>2. /\ SubSeq(walDisk, 1, k) \in Seq(Record)
        /\ Len(SubSeq(walDisk, 1, k)) = k
        /\ Part(SubSeq(walDisk, 1, k), walDisk)
    BY <1>1, <1>4, CutPart DEF d
  <2>3. \A i \in 1 .. k : SubSeq(wal, 1, k)[i] = SubSeq(walDisk, 1, k)[i]
    BY <1>5, <2>1, <2>2 DEF Part
  <2> QED
    BY <2>1, <2>2, <2>3, SeqEqual
<1>7. k \in 0 .. Len(wal) /\ Agrees(k)
  BY <1>1, <1>4, <1>6 DEF Agrees, l, d
<1>8. Agreed = CHOOSE j \in 0 .. Len(wal) : Agrees(j)
  BY DEF Agreed, Agrees
<1> QED
  BY <1>7, <1>8

(* What survives: the batch in doubt is undone in the history, and the     *)
(* kept versions stay.                                                     *)
LEMMA DownKeeps ==
    ASSUME HeapInv, CrashInv, Down
    PROVE  /\ doubt' = doubt /\ Kept' = Kept
           /\ hist' \in [Names -> Seq(Version)]
           /\ DOMAIN doubt \subseteq Names
           /\ \A n \in DOMAIN doubt : doubt[n].version = Len(hist'[n]) + 1
<1>1. /\ doubt' = doubt
      /\ hist' = [n \in Names |-> IF n \in DOMAIN doubt
                                  THEN SubSeq(hist[n], 1, doubt[n].version - 1)
                                  ELSE hist[n]]
  BY DEF Down
<1>2. hist \in [Names -> Seq(Version)]
  BY DEF HeapInv, SafeInv, TypeInv, TypeOK
<1>3. /\ DOMAIN doubt \subseteq Names
      /\ \A n \in DOMAIN doubt : doubt[n].version \in Nat \ {0}
  BY DEF CrashInv, DoubtOK
<1>4. ASSUME NEW n \in DOMAIN doubt
      PROVE  doubt[n].version - 1 \in 0 .. Len(hist[n])
  <2>1. n \in Names /\ Len(hist[n]) \in Nat
    BY <1>2, <1>3
  <2>2. CASE poisoned
    <3>1. doubt[n].version = Len(hist[n]) + 1
      BY <2>2 DEF CrashInv, DoubtOK
    <3> QED
      BY <2>1, <3>1
  <2>3. CASE ~ poisoned
    <3>1. PICK t \in Threads : pc[t] \in {"barrier", "publish"}
      BY <2>3 DEF CrashInv, DoubtOK
    <3>2. BatchOK(t)
      BY <3>1 DEF CrashInv, StageOK
    <3>3. \/ Len(hist[n]) = doubt[n].version - 1
          \/ Len(hist[n]) = doubt[n].version
      BY <3>2 DEF BatchOK
    <3> QED
      BY <1>3, <2>1, <3>3
  <2> QED
    BY <2>2, <2>3
<1>5. ASSUME NEW n \in DOMAIN doubt
      PROVE  /\ n \in Names
             /\ hist'[n] \in Seq(Version)
             /\ Len(hist'[n]) = doubt[n].version - 1
  <2>1. n \in Names /\ hist'[n] = SubSeq(hist[n], 1, doubt[n].version - 1)
    BY <1>1, <1>3
  <2>2. PICK k \in 0 .. Len(hist[n]) : k = doubt[n].version - 1
    BY <1>4
  <2>3. hist[n] \in Seq(Version) /\ Len(hist[n]) \in Nat
    BY <1>2, <2>1
  <2>4. \A i \in 1 .. k : hist[n][i] \in Version
    BY <2>3
  <2>5. SubSeq(hist[n], 1, k) \in Seq(Version)
        /\ Len(SubSeq(hist[n], 1, k)) = k
    BY <2>3, <2>4, SubSeqProperties
  <2> QED
    BY <2>1, <2>2, <2>5
<1>6. \A n \in Names \ DOMAIN doubt : hist'[n] = hist[n]
  BY <1>1
<1>7. hist' \in [Names -> Seq(Version)]
  <2>1. \A n \in Names : hist'[n] \in Seq(Version)
    BY <1>2, <1>5, <1>6
  <2>2. PICK h : h = hist'
    OBVIOUS
  <2>3. h = [n \in Names |-> h[n]] /\ \A n \in Names : h[n] \in Seq(Version)
    BY <1>1, <2>1, <2>2
  <2>4. h \in [Names -> Seq(Version)]
    BY <2>3
  <2> QED
    BY <2>2, <2>4
<1>8. Kept' = Kept
  BY <1>1, <1>6 DEF Kept
<1>9. \A n \in DOMAIN doubt : doubt[n].version = Len(hist'[n]) + 1
  BY <1>3, <1>5
<1> QED
  BY <1>1, <1>3, <1>7, <1>8, <1>9

(* After a crash: the files are a pair of those a crash may leave.         *)
LEMMA DownFrom ==
    ASSUME HeapInv, CrashInv, Down, snap' \in Files,
           Recoverable(wal', snap'.index, Kept, DOMAIN doubt)
    PROVE  DownInv'
<1>1. snap' \in File
  BY FileTypes DEF HeapInv, SafeInv, Files
<1> QED
  BY <1>1, DownKeeps DEF DownInv

(* A process that dies, perhaps inside the write of a batch.               *)
LEMMA ProcessDies ==
    ASSUME HeapInv, CrashInv, ProcessCrash
    PROVE  DownInv'
<1>1. Down /\ snap' = snap
  BY DEF ProcessCrash
<1>2. snap \in Files /\ wal \in Logs
  BY DEF Files, Logs
<1>3. Recoverable(wal, snap.index, Kept, DOMAIN doubt)
  BY <1>2 DEF CrashInv, FilesOK
<1>4. CASE wal' = wal
  BY <1>1, <1>2, <1>3, <1>4, DownFrom
<1>5. CASE wal' # wal
  <2>1. PICK t \in Threads :
          /\ pc[t] = "append"
          /\ \E order \in CommitOrder(tx[t].work) :
               \E part \in PartialBatches(Batch(tx[t].id, lastSeq, order,
                                               tx[t].work)) :
                  wal' = wal \o part
    BY <1>5 DEF ProcessCrash
  <2>2. PICK order \in CommitOrder(tx[t].work) :
          \E part \in PartialBatches(Batch(tx[t].id, lastSeq, order,
                                           tx[t].work)) :
             wal' = wal \o part
    BY <2>1
  <2>3. PICK part \in PartialBatches(Batch(tx[t].id, lastSeq, order,
                                           tx[t].work)) :
             wal' = wal \o part
    BY <2>2
  <2>4. /\ Appendable(wal, lastSeq, snap.index, Kept, tx[t].id, order,
                      tx[t].work)
        /\ Bounded(wal, snap.index, Kept, DOMAIN doubt)
    BY <1>2, <1>3, <2>1, BeforeAppend DEF Recoverable
  <2>5. Recoverable(wal \o part, snap.index, Kept, DOMAIN doubt)
    BY <2>4, PartialBehind DEF Recoverable
  <2> QED
    BY <1>1, <1>2, <2>3, <2>5, DownFrom
<1> QED
  BY <1>4, <1>5

(* A device that loses its power, in strict mode.                          *)
LEMMA PowerFails ==
    ASSUME HeapInv, CrashInv, PowerLoss, Strict
    PROVE  DownInv'
<1>1. Down /\ wal' \in SurvivingJournals /\ snap' \in SurvivingSnapshots
  BY DEF PowerLoss
<1>2. Files = {snap, snapDisk} /\ Logs = {wal, walDisk}
  BY DEF Files, Logs
<1>3. snap' \in Files
  <2>1. \A f \in {snap, snapDisk} : f.flushed
    BY <1>2 DEF CrashInv, FilesOK
  <2> QED
    BY <1>1, <1>2, <2>1 DEF SurvivingSnapshots
<1>4. wal \in Seq(Record) /\ walDisk \in Seq(Record) /\ Len(wal) \in Nat
      /\ Len(walDisk) \in Nat
  BY FileTypes DEF HeapInv, SafeInv
<1>5. PICK file \in Files : file = snap'
  BY <1>3
<1>6. \A log \in {wal, walDisk} :
         Recoverable(log, file.index, Kept, DOMAIN doubt)
  BY <1>2 DEF CrashInv, FilesOK
<1>7. Agreed \in 0 .. Len(wal) /\ Agrees(Agreed)
  BY <1>4, AgreedIs
<1>8. ASSUME NEW k \in Agreed .. Len(wal)
      PROVE  LET part == SubSeq(wal, 1, k)
             IN  /\ LogOK(part)
                 /\ Chained(part, file.index)
                 /\ Complete(part, file.index, Kept)
                 /\ Bounded(part, file.index, Kept, DOMAIN doubt)
                 /\ Len(part) = k /\ Part(part, wal)
  <2> DEFINE part == SubSeq(wal, 1, k)
  <2>1. part \in Seq(Record) /\ Len(part) = k /\ Part(part, wal)
    BY <1>4, <1>7, CutPart
  <2> HIDE DEF part
  <2>2. /\ LogOK(part) /\ Chained(part, file.index)
        /\ Bounded(part, file.index, Kept, DOMAIN doubt)
    BY <1>6, <2>1, PartOK, PartChained, PartBounded DEF Recoverable
  <2>3. Complete(part, file.index, Kept)
    <3>1. CASE Part(walDisk, wal)
      <4>1. Agreed = Len(walDisk)
        <5>1. CASE Agreed < Len(walDisk)
          BY <1>4, <1>7, <3>1, <5>1 DEF Agrees, Part
        <5> QED
          BY <1>4, <1>7, <5>1 DEF Agrees
      <4>2. Part(walDisk, part)
        BY <1>4, <2>1, <3>1, <4>1 DEF Part
      <4> QED
        BY <1>6, <4>2, PartComplete DEF Recoverable
    <3>2. CASE ~ Part(walDisk, wal)
      <4>1. Covers(snap) /\ Covers(snapDisk)
        BY <3>2 DEF CrashInv, DeviceOK
      <4> QED
        BY <1>2, <4>1 DEF Complete, Covers
    <3> QED
      BY <3>1, <3>2
  <2> QED
    BY <2>1, <2>2, <2>3 DEF part
<1>9. Recoverable(wal', file.index, Kept, DOMAIN doubt)
  <2>1. CASE wal' = walDisk
    BY <1>6, <2>1
  <2>2. CASE \E k \in Agreed .. Len(wal) : wal' = SubSeq(wal, 1, k)
    BY <1>8, <2>2 DEF Recoverable
  <2>3. CASE \E k \in Agreed .. Len(wal) - 1 :
                wal' = Append(SubSeq(wal, 1, k), Torn)
    <3>1. PICK k \in Agreed .. Len(wal) - 1 :
                wal' = Append(SubSeq(wal, 1, k), Torn)
      BY <2>3
    <3> DEFINE part == SubSeq(wal, 1, k)
               more == Append(part, Torn)
    <3>2. k \in Agreed .. Len(wal) /\ k < Len(wal)
      BY <1>4, <1>7
    <3>3. /\ LogOK(part)
          /\ Chained(part, file.index)
          /\ Complete(part, file.index, Kept)
          /\ Bounded(part, file.index, Kept, DOMAIN doubt)
          /\ Len(part) = k /\ Part(part, wal)
      BY <1>8, <3>2
    <3> HIDE DEF part
    <3>4. \A i \in 1 .. Len(part) : part[i].type # "torn"
      <4>1. LogOK(wal)
        BY <1>6 DEF Recoverable
      <4> QED
        BY <1>4, <1>7, <3>2, <3>3, <4>1 DEF LogOK, RecordOK, Part
    <3>5. /\ Part(part, more)
          /\ LogOK(more)
          /\ Chained(more, file.index)
          /\ Bounded(more, file.index, Kept, DOMAIN doubt)
      BY <3>3, <3>4, TornBehind
    <3>6. Complete(more, file.index, Kept)
      BY <3>3, <3>5, PartComplete
    <3> QED
      BY <3>1, <3>5, <3>6 DEF Recoverable, part
  <2> QED
    BY <1>1, <2>1, <2>2, <2>3 DEF SurvivingJournals
<1> QED
  BY <1>1, <1>3, <1>5, <1>9, DownFrom

-----------------------------------------------------------------------------
(* The recovery scan.  At its position it has the newest versions that the *)
(* snapshot and the batches behind it make, and at most one batch is open. *)

PendingTransaction == [began : BOOLEAN, updates : Seq(Nat)]
ScanType == [pos : Nat, roots : [Names -> RootRecord], base : Nat, last : Nat,
             pending : [1 .. MaxTx -> PendingTransaction]]

Behind(p, b) == [k \in 1 .. p - 1 - b |-> b + k]
NoneOpen(s, log) ==
    /\ s.pos > 1 => log[s.pos - 1].type = "commit"
    /\ \A id \in 1 .. MaxTx : s.pending[id] = NoPending
OneOpen(s, log, b) ==
    /\ log[b].type = "begin"
    /\ \A k \in b + 1 .. s.pos - 1 : log[k].type = "root_update"
    /\ log[s.pos - 1].tx = log[b].tx
    /\ s.pending[log[b].tx] = [began |-> TRUE,
                               updates |-> Behind(s.pos, b)]
    /\ \A id \in 1 .. MaxTx \ {log[b].tx} : s.pending[id] = NoPending
PendingOK(s, log) ==
    NoneOpen(s, log) \/ \E b \in 1 .. s.pos - 1 : OneOpen(s, log, b)

Newest(found, log, p, base) ==
    \A n \in Names :
        /\ found[n].version >= base[n].version
        /\ \A v \in Nat : Settled(log, p, n, v) => found[n].version >= v
        /\ \/ found[n].version = base[n].version
           \/ Settled(log, p, n, found[n].version)

ScanOK(s, log, base) ==
    /\ s \in ScanType
    /\ s.pos \in 1 .. Len(log) + 1
    /\ \A i \in 1 .. s.pos - 1 : log[i].type # "torn"
    /\ s.last = s.base \/ \E i \in 1 .. s.pos - 1 : s.last = log[i].seq
    /\ PendingOK(s, log)
    /\ Newest(s.roots, log, s.pos, base)

(* The scan starts with the index of the snapshot.                         *)
LEMMA ScanBegins ==
    ASSUME NEW file \in File, NEW log \in Seq(Record)
    PROVE  ScanOK(ScanStart(file.index, file.seq, 1 .. MaxTx), log, file.index)
<1> DEFINE s == ScanStart(file.index, file.seq, 1 .. MaxTx)
<1>1. file.index \in [Names -> RootRecord] /\ file.seq \in Nat
  BY DEF File
<1>2. /\ s.pos = 1 /\ s.roots = file.index
      /\ s.base = file.seq /\ s.last = file.seq
      /\ s.pending = [id \in 1 .. MaxTx |-> NoPending]
  BY DEF ScanStart
<1>3. NoPending \in PendingTransaction
  BY DEF NoPending, PendingTransaction
<1>4. s \in ScanType
  <2>1. [id \in 1 .. MaxTx |-> NoPending]
           \in [1 .. MaxTx -> PendingTransaction]
    BY <1>3
  <2> QED
    BY <1>1, <2>1 DEF ScanStart, ScanType
<1>5. \A n \in Names : file.index[n].version \in Nat
  BY <1>1 DEF RootRecord
<1> HIDE DEF s
<1>6. PendingOK(s, log)
  BY <1>2 DEF PendingOK, NoneOpen
<1>7. Newest(s.roots, log, s.pos, file.index)
  BY <1>2, <1>5 DEF Newest, Settled
<1>8. s.pos \in 1 .. Len(log) + 1
  BY <1>2
<1> QED
  BY <1>2, <1>4, <1>6, <1>7, <1>8 DEF ScanOK, s

(* The scan as a record, for each of the updates the steps make of it.     *)
ScanAt(pos, newRoots, base, last, pending) ==
    [pos |-> pos, roots |-> newRoots, base |-> base, last |-> last,
     pending |-> pending]
IsScan(s) == s = ScanAt(s.pos, s.roots, s.base, s.last, s.pending)

(* The position and the sequence number in a scanned record, spelled out.  *)
LEMMA ScanCounts ==
    ASSUME NEW s, IsScan(s), NEW x
    PROVE  [s EXCEPT !.pos = @ + 1, !.last = IF x > @ THEN x ELSE @]
             = ScanAt(s.pos + 1, s.roots, s.base,
                      IF x > s.last THEN x ELSE s.last, s.pending)
<1>1. [s EXCEPT !.pos = @ + 1, !.last = IF x > @ THEN x ELSE @]
        = [[s EXCEPT !.pos = @ + 1] EXCEPT !.last = IF x > @ THEN x ELSE @]
  BY Zenon
<1>2. PICK c : c = [s EXCEPT !.pos = @ + 1]
  OBVIOUS
<1>3. [s EXCEPT !.pos = @ + 1] = [s EXCEPT !.pos = s.pos + 1]
  OBVIOUS
<1>4. c = ScanAt(s.pos + 1, s.roots, s.base, s.last, s.pending)
  <2>1. [s EXCEPT !.pos = s.pos + 1]
           = ScanAt(s.pos + 1, s.roots, s.base, s.last, s.pending)
    BY DEF IsScan, ScanAt
  <2> QED
    BY <1>2, <1>3, <2>1, Zenon
<1>5. /\ IsScan(c) /\ c.pos = s.pos + 1 /\ c.roots = s.roots
      /\ c.base = s.base /\ c.last = s.last /\ c.pending = s.pending
  BY <1>4 DEF IsScan, ScanAt
<1>6. PICK y : y = IF x > c.last THEN x ELSE c.last
  OBVIOUS
<1>7. [c EXCEPT !.last = IF x > @ THEN x ELSE @] = [c EXCEPT !.last = y]
  BY <1>6
<1>8. [c EXCEPT !.last = y] = ScanAt(c.pos, c.roots, c.base, y, c.pending)
  BY <1>5 DEF IsScan, ScanAt
<1> QED
  BY <1>1, <1>2, <1>5, <1>6, <1>7, <1>8, Zenon

(* The update of one field of a pending transaction, spelled out.          *)
LEMMA PendingBegins ==
    ASSUME NEW q \in [1 .. MaxTx -> PendingTransaction], NEW id \in 1 .. MaxTx,
           NEW w
    PROVE  [q EXCEPT ![id].began = w]
             = [q EXCEPT ![id] = [began |-> w, updates |-> q[id].updates]]
<1>1. [q EXCEPT ![id].began = w] = [q EXCEPT ![id] = [@ EXCEPT !.began = w]]
  BY Zenon
<1>2. PICK e \in PendingTransaction : e = q[id]
  OBVIOUS
<1>3. [e EXCEPT !.began = w] = [began |-> w, updates |-> e.updates]
  BY DEF PendingTransaction
<1>4. [q EXCEPT ![id] = [@ EXCEPT !.began = w]]
        = [q EXCEPT ![id] = [q[id] EXCEPT !.began = w]]
  BY Zenon
<1> QED
  BY <1>1, <1>2, <1>3, <1>4, Zenon

(* What one record does to the scan, by record type.                       *)
ScanNext(s, log, newRoots, entry) ==
    ScanAt(s.pos + 1, newRoots, s.base,
           IF log[s.pos].seq > s.last THEN log[s.pos].seq ELSE s.last,
           [s.pending EXCEPT ![log[s.pos].tx] = entry])

(* What one step of the scan does with each type of record.                *)
LEMMA ScannedIs ==
    ASSUME NEW s \in ScanType, NEW log \in Seq(Record),
           log[s.pos].tx \in 1 .. MaxTx
    PROVE  LET id == log[s.pos].tx
               old == s.pending[id]
           IN  /\ log[s.pos].type = "begin" =>
                     Scanned(s, log) = ScanNext(s, log, s.roots,
                         [began |-> TRUE, updates |-> old.updates])
               /\ log[s.pos].type = "root_update" =>
                     Scanned(s, log) = ScanNext(s, log, s.roots,
                         [began |-> old.began,
                          updates |-> Append(old.updates, s.pos)])
               /\ log[s.pos].type = "commit" =>
                     Scanned(s, log) = ScanNext(s, log,
                         Applied(s, log, id), NoPending)
<1>1. PICK r : r = log[s.pos]
  OBVIOUS
<1>2. PICK id \in 1 .. MaxTx : id = log[s.pos].tx
  OBVIOUS
<1>3. IsScan(s) /\ s.pending \in [1 .. MaxTx -> PendingTransaction]
  BY DEF ScanType, IsScan, ScanAt
<1>4. PICK c : c = [s EXCEPT !.pos = @ + 1,
                             !.last = IF r.seq > @ THEN r.seq ELSE @]
  OBVIOUS
<1>5. c = ScanAt(s.pos + 1, s.roots, s.base,
                 IF r.seq > s.last THEN r.seq ELSE s.last, s.pending)
  BY <1>3, <1>4, ScanCounts, Zenon
<1>6. /\ IsScan(c) /\ c.pos = s.pos + 1 /\ c.roots = s.roots
      /\ c.base = s.base /\ c.pending = s.pending
      /\ c.last = IF r.seq > s.last THEN r.seq ELSE s.last
  BY <1>5 DEF IsScan, ScanAt
<1>8. CASE r.type = "begin"
  <2>1. Scanned(s, log) = [c EXCEPT !.pending[id].began = TRUE]
    BY <1>1, <1>2, <1>4, <1>8 DEF Scanned
  <2>2. PICK e : e = [began |-> TRUE, updates |-> s.pending[id].updates]
    OBVIOUS
  <2>3. PICK q : q = [c.pending EXCEPT ![id].began = TRUE]
    OBVIOUS
  <2>4. [c EXCEPT !.pending[id].began = TRUE] = [c EXCEPT !.pending = q]
    BY <2>3, Zenon
  <2>5. [c EXCEPT !.pending = q] = ScanAt(c.pos, c.roots, c.base, c.last, q)
    BY <1>6 DEF IsScan, ScanAt
  <2>6. [s.pending EXCEPT ![id].began = TRUE]
          = [s.pending EXCEPT ![id] = [began |-> TRUE,
                                       updates |-> s.pending[id].updates]]
    BY <1>3, PendingBegins, Zenon
  <2>7. q = [c.pending EXCEPT ![id] = e]
    BY <1>6, <2>2, <2>3, <2>6, Zenon
  <2>8. Scanned(s, log) = ScanNext(s, log, s.roots, e)
    <3>1. Scanned(s, log) = ScanAt(c.pos, c.roots, c.base, c.last,
                                   [c.pending EXCEPT ![id] = e])
      BY <2>1, <2>4, <2>5, <2>7, Zenon
    <3> QED
      BY <1>1, <1>2, <1>6, <3>1, Zenon DEF ScanNext
  <2> QED
    BY <1>1, <1>2, <1>8, <2>2, <2>8
<1>9. CASE r.type = "root_update"
  <2>1. Scanned(s, log) = [c EXCEPT !.pending[id].updates = Append(@, s.pos)]
    BY <1>1, <1>2, <1>4, <1>9 DEF Scanned
  <2>2. PICK e : e = [began |-> s.pending[id].began,
                      updates |-> Append(s.pending[id].updates, s.pos)]
    OBVIOUS
  <2>3. PICK q : q = [c.pending EXCEPT ![id].updates = Append(@, s.pos)]
    OBVIOUS
  <2>4. [c EXCEPT !.pending[id].updates = Append(@, s.pos)]
          = [c EXCEPT !.pending = q]
    BY <2>3, Zenon
  <2>5. [c EXCEPT !.pending = q] = ScanAt(c.pos, c.roots, c.base, c.last, q)
    BY <1>6 DEF IsScan, ScanAt
  <2>6. PICK p : p = s.pos
    OBVIOUS
  <2>7. [s.pending EXCEPT ![id].updates = Append(@, p)]
          = [s.pending EXCEPT ![id] =
               [began |-> s.pending[id].began,
                updates |-> Append(s.pending[id].updates, p)]]
    <3>1. PICK f : f = s.pending
      OBVIOUS
    <3>2. PICK w : w = Append(f[id].updates, p)
      OBVIOUS
    <3>3. [f EXCEPT ![id].updates = w]
            = [f EXCEPT ![id] = [@ EXCEPT !.updates = w]]
      BY Zenon
    <3>4. PICK g \in PendingTransaction : g = f[id]
      BY <1>3, <3>1
    <3>5. [g EXCEPT !.updates = w] = [began |-> g.began, updates |-> w]
      BY DEF PendingTransaction
    <3>6. [f EXCEPT ![id] = [@ EXCEPT !.updates = w]]
            = [f EXCEPT ![id] = [f[id] EXCEPT !.updates = w]]
      BY Zenon
    <3>7. [f EXCEPT ![id].updates = Append(@, p)]
            = [f EXCEPT ![id].updates = Append(f[id].updates, p)]
      BY Zenon
    <3>8. [f EXCEPT ![id].updates = Append(@, p)]
            = [f EXCEPT ![id].updates = w]
      BY <3>2, <3>7, Zenon
    <3> QED
      BY <3>1, <3>2, <3>3, <3>4, <3>5, <3>6, <3>8, Zenon
  <2>8. q = [c.pending EXCEPT ![id] = e]
    BY <1>6, <2>2, <2>3, <2>6, <2>7, Zenon
  <2>9. Scanned(s, log) = ScanNext(s, log, s.roots, e)
    <3>1. Scanned(s, log) = ScanAt(c.pos, c.roots, c.base, c.last,
                                   [c.pending EXCEPT ![id] = e])
      BY <2>1, <2>4, <2>5, <2>8, Zenon
    <3> QED
      BY <1>1, <1>2, <1>6, <3>1, Zenon DEF ScanNext
  <2> QED
    BY <1>1, <1>2, <1>9, <2>2, <2>9
<1>10. CASE r.type = "commit"
  <2>1. PICK all : all = Applied(s, log, id)
    OBVIOUS
  <2>2. Scanned(s, log) = [c EXCEPT !.roots = all, !.pending[id] = NoPending]
    BY <1>1, <1>2, <1>4, <1>10, <2>1 DEF Scanned
  <2>3. PICK e : e = NoPending
    OBVIOUS
  <2>4. [c EXCEPT !.roots = all, !.pending[id] = e]
          = ScanAt(c.pos, all, c.base, c.last, [c.pending EXCEPT ![id] = e])
    <3>1. [c EXCEPT !.roots = all, !.pending[id] = e]
            = [[c EXCEPT !.roots = all] EXCEPT !.pending[id] = e]
      BY Zenon
    <3>2. PICK d : d = [c EXCEPT !.roots = all]
      OBVIOUS
    <3>3. d = ScanAt(c.pos, all, c.base, c.last, c.pending)
      BY <1>6, <3>2 DEF IsScan, ScanAt
    <3>4. /\ IsScan(d) /\ d.pos = c.pos /\ d.roots = all /\ d.base = c.base
          /\ d.last = c.last /\ d.pending = c.pending
      BY <3>3 DEF IsScan, ScanAt
    <3>5. [d EXCEPT !.pending[id] = e]
            = ScanAt(d.pos, d.roots, d.base, d.last,
                     [d.pending EXCEPT ![id] = e])
      BY <3>4 DEF IsScan, ScanAt
    <3> QED
      BY <3>1, <3>2, <3>4, <3>5, Zenon
  <2>5. Scanned(s, log) = ScanNext(s, log, all, e)
    <3>1. Scanned(s, log) = ScanAt(c.pos, all, c.base, c.last,
                                   [c.pending EXCEPT ![id] = e])
      BY <2>2, <2>3, <2>4, Zenon
    <3> QED
      BY <1>1, <1>2, <1>6, <3>1, Zenon DEF ScanNext
  <2> QED
    BY <1>1, <1>2, <1>10, <2>1, <2>3, <2>5
<1> QED
  BY <1>1, <1>8, <1>9, <1>10

(* The fields of the scan after one record.                                *)
LEMMA ScanNextFields ==
    ASSUME NEW s \in ScanType, NEW log \in Seq(Record),
           s.pos \in 1 .. Len(log), log[s.pos].type # "torn",
           log[s.pos].tx \in 1 .. MaxTx,
           NEW newRoots \in [Names -> RootRecord],
           NEW entry \in PendingTransaction,
           NEW d, d = ScanNext(s, log, newRoots, entry)
    PROVE  /\ d \in ScanType
           /\ d.pos = s.pos + 1 /\ d.roots = newRoots /\ d.base = s.base
           /\ d.last = s.last \/ d.last = log[s.pos].seq
           /\ d.pending[log[s.pos].tx] = entry
           /\ \A id \in 1 .. MaxTx \ {log[s.pos].tx} :
                 d.pending[id] = s.pending[id]
<1>1. /\ s.pos \in Nat /\ s.base \in Nat /\ s.last \in Nat
      /\ s.pending \in [1 .. MaxTx -> PendingTransaction]
  BY DEF ScanType
<1>2. log[s.pos].seq \in Nat
  BY RecordKind
<1>3. PICK q : q = [s.pending EXCEPT ![log[s.pos].tx] = entry]
  OBVIOUS
<1>4. /\ q \in [1 .. MaxTx -> PendingTransaction]
      /\ q[log[s.pos].tx] = entry
      /\ \A id \in 1 .. MaxTx \ {log[s.pos].tx} : q[id] = s.pending[id]
  BY <1>1, <1>3
<1>5. PICK l \in Nat :
        l = IF log[s.pos].seq > s.last THEN log[s.pos].seq ELSE s.last
  BY <1>1, <1>2
<1>6. d = ScanAt(s.pos + 1, newRoots, s.base, l, q)
  BY <1>3, <1>5, Zenon DEF ScanNext
<1>7. /\ d.pos = s.pos + 1 /\ d.roots = newRoots /\ d.base = s.base
      /\ d.last = l /\ d.pending = q
  BY <1>6 DEF ScanAt
<1>8. d \in ScanType
  BY <1>1, <1>4, <1>6 DEF ScanAt, ScanType
<1> QED
  BY <1>4, <1>5, <1>7, <1>8

(* The positions behind a BEGIN.                                           *)
LEMMA BehindIs ==
    ASSUME NEW p \in Nat, NEW b \in 1 .. p - 1
    PROVE  /\ Behind(p, b) \in Seq(Nat)
           /\ Len(Behind(p, b)) = p - 1 - b
           /\ DOMAIN Behind(p, b) = 1 .. p - 1 - b
           /\ \A k \in 1 .. p - 1 - b : Behind(p, b)[k] = b + k
<1>1. p - 1 - b \in Nat /\ \A k \in 1 .. p - 1 - b : b + k \in Nat
  OBVIOUS
<1>2. PICK l \in Nat : l = p - 1 - b
  BY <1>1
<1>3. Behind(p, b) = [k \in 1 .. l |-> b + k]
  BY <1>2 DEF Behind
<1>4. \A k \in 1 .. l : b + k \in Nat
  BY <1>1, <1>2
<1> QED
  BY <1>2, <1>3, <1>4

(* The updates behind a BEGIN grow by the position that is scanned.        *)
LEMMA BehindGrows ==
    ASSUME NEW p \in Nat
    PROVE  /\ Behind(p + 1, p) = << >>
           /\ \A b \in 1 .. p - 1 : Append(Behind(p, b), p) = Behind(p + 1, b)
<1>1. Behind(p + 1, p) = << >>
  BY DEF Behind
<1>2. ASSUME NEW b \in 1 .. p - 1
      PROVE  Append(Behind(p, b), p) = Behind(p + 1, b)
  <2>1. PICK old : old = Behind(p, b)
    OBVIOUS
  <2>2. PICK new : new = Behind(p + 1, b)
    OBVIOUS
  <2>3. PICK l \in Nat : l = p - 1 - b
    OBVIOUS
  <2>4. /\ old \in Seq(Nat) /\ Len(old) = l
        /\ \A k \in 1 .. l : old[k] = b + k
    BY <2>1, <2>3, BehindIs
  <2>5. /\ new \in Seq(Nat) /\ Len(new) = l + 1
        /\ \A k \in 1 .. l + 1 : new[k] = b + k
    <3>1. b \in 1 .. (p + 1) - 1 /\ (p + 1) - 1 - b = l + 1 /\ p + 1 \in Nat
      BY <2>3
    <3> QED
      BY <2>2, <3>1, BehindIs
  <2>6. /\ Append(old, p) \in Seq(Nat) /\ Len(Append(old, p)) = l + 1
        /\ \A k \in 1 .. l : Append(old, p)[k] = old[k]
        /\ Append(old, p)[l + 1] = p
    BY <2>4
  <2>7. ASSUME NEW k \in 1 .. l + 1
        PROVE  Append(old, p)[k] = new[k]
    <3>1. CASE k = l + 1
      BY <2>3, <2>5, <2>6, <3>1
    <3>2. CASE k # l + 1
      BY <2>4, <2>5, <2>6, <3>2
    <3> QED
      BY <3>1, <3>2
  <2>8. Append(old, p) = new
    BY <2>5, <2>6, <2>7, SeqEqual
  <2> QED
    BY <2>1, <2>2, <2>8
<1> QED
  BY <1>1, <1>2

(* The scan meets a record of the batch that is open, or no batch is.      *)
LEMMA ScanMeets ==
    ASSUME NEW s, NEW log, NEW base, LogOK(log), ScanOK(s, log, base),
           s.pos <= Len(log), log[s.pos].type # "torn"
    PROVE  /\ s.pos \in 1 .. Len(log) /\ log \in Seq(Record)
           /\ s \in ScanType
           /\ log[s.pos].tx \in 1 .. MaxTx
           /\ log[s.pos].type \in {"begin", "root_update", "commit"}
           /\ log[s.pos].type = "begin" => NoneOpen(s, log)
           /\ log[s.pos].type # "begin" =>
                 \E b \in 1 .. s.pos - 1 :
                     /\ OneOpen(s, log, b)
                     /\ log[b].tx = log[s.pos].tx
                     /\ log[s.pos].type = "commit" =>
                            log[s.pos].count = s.pos - 1 - b
<1>1. /\ log \in Seq(Record) /\ Len(log) \in Nat /\ s \in ScanType
      /\ s.pos \in 1 .. Len(log)
  BY DEF LogOK, ScanOK
<1>2. PICK p \in 1 .. Len(log) : p = s.pos
  BY <1>1
<1>3. RecordOK(log, p) /\ log[p] \in Record
  BY <1>1 DEF LogOK
<1>4. /\ log[p].type \in {"begin", "root_update", "commit"}
      /\ log[p].type = "commit" => log[p].count \in Nat
  BY <1>2, <1>3, RecordKind
<1>5. log[p].tx \in 1 .. MaxTx
  BY <1>2, <1>3 DEF RecordOK
<1>6. ASSUME NEW b \in 1 .. p - 1, OneOpen(s, log, b)
      PROVE  log[p - 1].type \in {"begin", "root_update"}
  <2>1. CASE b = p - 1
    BY <1>6, <2>1 DEF OneOpen
  <2>2. CASE b # p - 1
    <3>1. p - 1 \in b + 1 .. p - 1
      BY <1>1, <2>2
    <3> QED
      BY <1>2, <1>6, <3>1 DEF OneOpen
  <2> QED
    BY <2>1, <2>2
<1>7. CASE log[p].type = "begin"
  <2>1. p = 1 \/ log[p - 1].type = "commit"
    BY <1>3, <1>7 DEF RecordOK
  <2>2. ~ \E b \in 1 .. p - 1 : OneOpen(s, log, b)
    BY <1>1, <1>6, <2>1
  <2>3. NoneOpen(s, log)
    BY <1>2, <2>2 DEF ScanOK, PendingOK
  <2> QED
    BY <1>1, <1>2, <1>4, <1>5, <1>7, <2>3
<1>8. CASE log[p].type # "begin"
  <2>1. /\ p > 1 /\ log[p - 1].type \in {"begin", "root_update"}
        /\ log[p - 1].tx = log[p].tx
    BY <1>3, <1>4, <1>8 DEF RecordOK
  <2>2. ~ NoneOpen(s, log)
    BY <1>2, <2>1 DEF NoneOpen
  <2>3. PICK b \in 1 .. p - 1 : OneOpen(s, log, b)
    BY <1>2, <2>2 DEF ScanOK, PendingOK
  <2>4. log[b].tx = log[p].tx
    BY <1>2, <2>1, <2>3 DEF OneOpen
  <2>5. ASSUME log[p].type = "commit"
        PROVE  log[p].count = p - 1 - b
    <3>1. PICK c \in Nat : c = log[p].count
      BY <1>4, <2>5
    <3>2. /\ c < p - 1 /\ log[p - 1 - c].type = "begin"
          /\ \A k \in p - c .. p - 1 : log[k].type = "root_update"
      BY <1>3, <2>5, <3>1 DEF RecordOK
    <3>3. /\ log[b].type = "begin"
          /\ \A k \in b + 1 .. p - 1 : log[k].type = "root_update"
      BY <1>2, <2>3 DEF OneOpen
    <3>4. ~ (b > p - 1 - c)
      <4>1. b > p - 1 - c => b \in p - c .. p - 1
        OBVIOUS
      <4> QED
        BY <3>2, <3>3, <4>1
    <3>5. ~ (b < p - 1 - c)
      <4>1. b < p - 1 - c => p - 1 - c \in b + 1 .. p - 1
        OBVIOUS
      <4> QED
        BY <3>2, <3>3, <4>1
    <3> QED
      BY <3>1, <3>4, <3>5
  <2> QED
    BY <1>1, <1>2, <1>4, <1>5, <1>8, <2>3, <2>4, <2>5
<1> QED
  BY <1>7, <1>8

(* A fresh update continues exactly the version that the scan has.         *)
LEMMA FreshFits ==
    ASSUME NEW s, NEW log, NEW base, LogOK(log), Chained(log, base),
           ScanOK(s, log, base), s.pos <= Len(log),
           \A n \in Names : base[n].version \in Nat,
           NEW b \in 1 .. s.pos - 1, OneOpen(s, log, b),
           NEW u \in Fresh(s, log, log[b].tx)
    PROVE  /\ u.name \in Names /\ s.roots[u.name].version \in Nat
           /\ u.expected = s.roots[u.name].version
           /\ u.version = s.roots[u.name].version + 1
<1>1. /\ log \in Seq(Record) /\ Len(log) \in Nat /\ s \in ScanType
      /\ s.pos \in 1 .. Len(log)
  BY DEF LogOK, ScanOK
<1>2. PICK p \in 1 .. Len(log) : p = s.pos
  BY <1>1
<1>3. s.pending[log[b].tx].updates = Behind(p, b)
  BY <1>2 DEF OneOpen
<1>4. /\ DOMAIN Behind(p, b) = 1 .. p - 1 - b
      /\ \A k \in 1 .. p - 1 - b : Behind(p, b)[k] = b + k
  <2>1. p \in Nat /\ b \in 1 .. p - 1
    BY <1>1, <1>2
  <2> QED
    BY <2>1, BehindIs
<1>5. u \in Pending(s, log, log[b].tx)
      /\ u.version > s.roots[u.name].version
  BY DEF Fresh
<1>6. PICK k \in 1 .. p - 1 - b : u = log[b + k]
  <2>1. PICK updates : updates = s.pending[log[b].tx].updates
    OBVIOUS
  <2>2. u \in {log[i] : i \in {updates[k] : k \in DOMAIN updates}}
    BY <1>5, <2>1 DEF Pending
  <2>3. PICK k \in DOMAIN updates : u = log[updates[k]]
    BY <2>2, Zenon
  <2>4. k \in 1 .. p - 1 - b /\ updates[k] = b + k
    BY <1>3, <1>4, <2>1, <2>3
  <2> QED
    BY <2>3, <2>4
<1>7. PICK i \in b + 1 .. p - 1 : i = b + k
  BY <1>1, <1>2
<1>8. u = log[i] /\ i \in 1 .. Len(log) /\ i <= p
  BY <1>1, <1>2, <1>6, <1>7
<1>9. log[i].type = "root_update" /\ log[i] \in Record
  BY <1>1, <1>2, <1>7, <1>8 DEF OneOpen
<1>10. u.name \in Names /\ u.expected \in Nat /\ u.version \in Nat
  BY <1>8, <1>9, RecordKind
<1>11. /\ u.version = u.expected + 1
       /\ \/ u.expected <= base[u.name].version
          \/ Settled(log, i, u.name, u.expected)
  BY <1>8, <1>9 DEF Chained
<1>12. /\ s.roots[u.name].version \in Nat
       /\ s.roots[u.name].version >= base[u.name].version
       /\ Settled(log, p, u.name, u.expected) =>
              s.roots[u.name].version >= u.expected
  BY <1>1, <1>2, <1>10 DEF ScanOK, Newest, ScanType, RootRecord
<1>13. s.roots[u.name].version >= u.expected
  <2>1. CASE u.expected <= base[u.name].version
    BY <1>10, <1>12, <2>1
  <2>2. CASE Settled(log, i, u.name, u.expected)
    <3>1. i \in Int /\ p \in Int
      BY <1>8
    <3> QED
      BY <1>8, <1>12, <2>2, <3>1, SettledLater
  <2> QED
    BY <1>11, <2>1, <2>2
<1>14. /\ u.expected = s.roots[u.name].version
       /\ u.version = s.roots[u.name].version + 1
  <2>1. PICK e \in Nat : e = u.expected
    BY <1>10
  <2>2. PICK v \in Nat : v = s.roots[u.name].version
    BY <1>12
  <2>3. u.version = e + 1 /\ u.version > v /\ v >= e
    BY <1>5, <1>11, <1>13, <2>1, <2>2
  <2>4. e + 1 > v /\ v >= e
    BY <2>3
  <2>5. e = v
    BY <2>4
  <2> QED
    BY <2>1, <2>2, <2>3, <2>5
<1> QED
  BY <1>10, <1>12, <1>14

(* The scan accepts the record.                                            *)
LEMMA ScanAccepts ==
    ASSUME NEW s, NEW log, NEW base, LogOK(log), Chained(log, base),
           ScanOK(s, log, base), s.pos <= Len(log),
           log[s.pos].type # "torn",
           \A n \in Names : base[n].version \in Nat
    PROVE  ~ Rejected(s, log)
<1>1. /\ s.pos \in 1 .. Len(log) /\ log \in Seq(Record)
      /\ s \in ScanType /\ Len(log) \in Nat
      /\ log[s.pos].type \in {"begin", "root_update", "commit"}
  BY ScanMeets
<1>2. PICK p \in 1 .. Len(log) : p = s.pos
  BY <1>1
<1>3. ~ OutOfSequence(s, log[p])
  <2>1. log[p].seq \in Nat /\ s.last \in Nat /\ s.base \in Nat
    BY <1>1, <1>2, RecordKind DEF ScanType
  <2>2. CASE s.last = s.base
    BY <2>1, <2>2 DEF OutOfSequence
  <2>3. CASE \E i \in 1 .. p - 1 : s.last = log[i].seq
    <3>1. PICK i \in 1 .. p - 1 : s.last = log[i].seq
      BY <2>3
    <3>2. i \in 1 .. Len(log) /\ i < p
      BY <1>1, <1>2
    <3>3. log[i].seq < log[p].seq
      BY <1>2, <3>2 DEF LogOK, Ordered
    <3> QED
      BY <2>1, <3>1, <3>3 DEF OutOfSequence
  <2> QED
    BY <1>2, <2>2, <2>3 DEF ScanOK
<1>4. CASE log[p].type = "begin"
  BY <1>2, <1>3, <1>4 DEF Rejected
<1>5. CASE log[p].type # "begin"
  <2>1. PICK b \in 1 .. p - 1 :
          /\ OneOpen(s, log, b)
          /\ log[b].tx = log[p].tx
          /\ log[p].type = "commit" => log[p].count = p - 1 - b
    BY <1>2, <1>5, ScanMeets
  <2>2. s.pending[log[p].tx] = [began |-> TRUE, updates |-> Behind(p, b)]
    BY <1>2, <2>1 DEF OneOpen
  <2>3. /\ s.pending[log[p].tx].began
        /\ s.pending[log[p].tx].updates = Behind(p, b)
    BY <2>2
  <2>4. Len(Behind(p, b)) = p - 1 - b
    BY <1>1, <1>2, BehindIs
  <2>5. \A u \in Fresh(s, log, log[p].tx) :
           u.expected = s.roots[u.name].version
    BY <1>2, <2>1, FreshFits
  <2> QED
    BY <1>2, <1>3, <2>1, <2>3, <2>4, <2>5 DEF Rejected
<1> QED
  BY <1>4, <1>5

(* Only a COMMIT settles anything.                                         *)
LEMMA SettledSame ==
    ASSUME NEW log, NEW p \in Nat, log[p].type # "commit", NEW n, NEW v
    PROVE  Settled(log, p + 1, n, v) <=> Settled(log, p, n, v)
<1>1. \A c \in 1 .. p : c = p \/ c \in 1 .. p - 1
  OBVIOUS
<1>2. (p + 1) - 1 = p /\ \A c \in 1 .. p - 1 : c \in 1 .. p
  OBVIOUS
<1> QED
  BY <1>1, <1>2 DEF Settled

(* What every accepted record preserves.                                   *)
LEMMA ScanAdvances ==
    ASSUME NEW s, NEW log, NEW base, LogOK(log), ScanOK(s, log, base),
           s.pos <= Len(log), log[s.pos].type # "torn",
           NEW newRoots \in [Names -> RootRecord],
           NEW entry \in PendingTransaction,
           NEW d, d = ScanNext(s, log, newRoots, entry)
    PROVE  /\ d \in ScanType
           /\ d.pos = s.pos + 1 /\ d.roots = newRoots
           /\ d.pending[log[s.pos].tx] = entry
           /\ \A id \in 1 .. MaxTx \ {log[s.pos].tx} :
                 d.pending[id] = s.pending[id]
           /\ d.pos \in 1 .. Len(log) + 1
           /\ \A i \in 1 .. d.pos - 1 : log[i].type # "torn"
           /\ d.last = d.base \/ \E i \in 1 .. d.pos - 1 : d.last = log[i].seq
<1>1. /\ s.pos \in 1 .. Len(log) /\ log \in Seq(Record) /\ s \in ScanType
      /\ log[s.pos].tx \in 1 .. MaxTx /\ Len(log) \in Nat
  BY ScanMeets
<1>2. /\ d \in ScanType
      /\ d.pos = s.pos + 1 /\ d.roots = newRoots /\ d.base = s.base
      /\ d.last = s.last \/ d.last = log[s.pos].seq
      /\ d.pending[log[s.pos].tx] = entry
      /\ \A id \in 1 .. MaxTx \ {log[s.pos].tx} :
            d.pending[id] = s.pending[id]
  BY <1>1, ScanNextFields
<1>3. PICK p \in 1 .. Len(log) : p = s.pos
  BY <1>1
<1>4. d.pos = p + 1 /\ d.pos - 1 = p /\ d.pos \in 1 .. Len(log) + 1
  BY <1>1, <1>2, <1>3
<1>5. \A i \in 1 .. p : i = p \/ i \in 1 .. p - 1
  BY <1>1
<1>6. \A i \in 1 .. p : log[i].type # "torn"
  BY <1>3, <1>5 DEF ScanOK
<1>7. d.last = d.base \/ \E i \in 1 .. p : d.last = log[i].seq
  <2>1. p \in 1 .. p /\ \A i \in 1 .. p - 1 : i \in 1 .. p
    BY <1>1
  <2>2. s.last = s.base \/ \E i \in 1 .. p - 1 : s.last = log[i].seq
    BY <1>3 DEF ScanOK
  <2>3. CASE d.last = s.last
    BY <1>2, <2>1, <2>2, <2>3
  <2>4. CASE d.last = log[p].seq
    BY <2>1, <2>4
  <2> QED
    BY <1>2, <1>3, <2>3, <2>4
<1> QED
  BY <1>2, <1>4, <1>6, <1>7

(* The scan invariant is preserved by a BEGIN record ...                   *)
LEMMA ScanBegin ==
    ASSUME NEW s, NEW log, NEW base, LogOK(log), ScanOK(s, log, base),
           s.pos <= Len(log), log[s.pos].type = "begin"
    PROVE  ScanOK(Scanned(s, log), log, base)
<1>1. /\ s.pos \in 1 .. Len(log) /\ log \in Seq(Record) /\ s \in ScanType
      /\ log[s.pos].tx \in 1 .. MaxTx /\ Len(log) \in Nat
      /\ NoneOpen(s, log)
  BY ScanMeets
<1>2. PICK p \in 1 .. Len(log) : p = s.pos
  BY <1>1
<1>3. PICK d : d = Scanned(s, log)
  OBVIOUS
<1>4. PICK entry : entry = [began |-> TRUE, updates |-> << >>]
  OBVIOUS
<1>5. s.roots \in [Names -> RootRecord] /\ entry \in PendingTransaction
  BY <1>1, <1>4 DEF ScanType, PendingTransaction
<1>6. s.pending[log[p].tx].updates = << >>
  BY <1>1, <1>2 DEF NoneOpen, NoPending
<1>7. d = ScanNext(s, log, s.roots, entry)
  BY <1>1, <1>2, <1>3, <1>4, <1>6, ScannedIs
<1>8. /\ d \in ScanType
      /\ d.pos = p + 1 /\ d.roots = s.roots
      /\ d.pending[log[p].tx] = entry
      /\ \A id \in 1 .. MaxTx \ {log[p].tx} : d.pending[id] = s.pending[id]
      /\ d.pos \in 1 .. Len(log) + 1
      /\ \A i \in 1 .. d.pos - 1 : log[i].type # "torn"
      /\ d.last = d.base \/ \E i \in 1 .. d.pos - 1 : d.last = log[i].seq
  BY <1>2, <1>5, <1>7, ScanAdvances
<1>9. OneOpen(d, log, p)
  <2>1. d.pos - 1 = p /\ d.pos = p + 1
    BY <1>1, <1>8
  <2>2. Behind(d.pos, p) = << >>
    BY <1>1, <2>1, BehindGrows
  <2>3. \A id \in 1 .. MaxTx \ {log[p].tx} : d.pending[id] = NoPending
    BY <1>1, <1>8 DEF NoneOpen
  <2>4. \A k \in p + 1 .. d.pos - 1 : log[k].type = "root_update"
    BY <1>1, <2>1
  <2> QED
    BY <1>2, <1>4, <1>8, <2>1, <2>2, <2>3, <2>4 DEF OneOpen
<1>10. PendingOK(d, log)
  <2>1. p \in 1 .. d.pos - 1
    BY <1>1, <1>8
  <2> QED
    BY <1>9, <2>1 DEF PendingOK
<1>11. Newest(d.roots, log, d.pos, base)
  <2>1. \A n, v : Settled(log, p + 1, n, v) <=> Settled(log, p, n, v)
    <3>1. p \in Nat /\ log[p].type # "commit"
      BY <1>1, <1>2
    <3> QED
      BY <3>1, SettledSame
  <2> QED
    BY <1>2, <1>8, <2>1 DEF ScanOK, Newest
<1> QED
  BY <1>3, <1>8, <1>10, <1>11 DEF ScanOK

(* ... by an update ...                                                    *)
LEMMA ScanUpdate ==
    ASSUME NEW s, NEW log, NEW base, LogOK(log), ScanOK(s, log, base),
           s.pos <= Len(log), log[s.pos].type = "root_update"
    PROVE  ScanOK(Scanned(s, log), log, base)
<1>1. /\ s.pos \in 1 .. Len(log) /\ log \in Seq(Record) /\ s \in ScanType
      /\ log[s.pos].tx \in 1 .. MaxTx /\ Len(log) \in Nat
  BY ScanMeets
<1>2. PICK p \in 1 .. Len(log) : p = s.pos
  BY <1>1
<1>3. PICK b \in 1 .. p - 1 : OneOpen(s, log, b) /\ log[b].tx = log[p].tx
  BY <1>2, ScanMeets
<1>4. PICK d : d = Scanned(s, log)
  OBVIOUS
<1>5. PICK entry : entry = [began |-> TRUE, updates |-> Behind(p + 1, b)]
  OBVIOUS
<1>6. Behind(p + 1, b) \in Seq(Nat)
  <2>1. p + 1 \in Nat /\ b \in 1 .. (p + 1) - 1
    BY <1>1
  <2> QED
    BY <2>1, BehindIs
<1>7. s.roots \in [Names -> RootRecord] /\ entry \in PendingTransaction
  BY <1>1, <1>5, <1>6 DEF ScanType, PendingTransaction
<1>8. s.pending[log[p].tx] = [began |-> TRUE, updates |-> Behind(p, b)]
  BY <1>2, <1>3 DEF OneOpen
<1>9. Append(Behind(p, b), p) = Behind(p + 1, b)
  <2>1. p \in Nat
    BY <1>1
  <2> QED
    BY <2>1, BehindGrows
<1>10. d = ScanNext(s, log, s.roots, entry)
  <2>1. d = ScanNext(s, log, s.roots,
                     [began |-> s.pending[log[p].tx].began,
                      updates |-> Append(s.pending[log[p].tx].updates, p)])
    BY <1>1, <1>2, <1>4, ScannedIs
  <2>2. [began |-> s.pending[log[p].tx].began,
         updates |-> Append(s.pending[log[p].tx].updates, p)] = entry
    <3>1. /\ s.pending[log[p].tx].began = TRUE
          /\ s.pending[log[p].tx].updates = Behind(p, b)
      BY <1>8
    <3> QED
      BY <1>5, <1>9, <3>1, Zenon
  <2> QED
    BY <2>1, <2>2
<1>11. /\ d \in ScanType
       /\ d.pos = p + 1 /\ d.roots = s.roots
       /\ d.pending[log[p].tx] = entry
       /\ \A id \in 1 .. MaxTx \ {log[p].tx} : d.pending[id] = s.pending[id]
       /\ d.pos \in 1 .. Len(log) + 1
       /\ \A i \in 1 .. d.pos - 1 : log[i].type # "torn"
       /\ d.last = d.base \/ \E i \in 1 .. d.pos - 1 : d.last = log[i].seq
  BY <1>2, <1>7, <1>10, ScanAdvances, SMTT(40)
<1>12. OneOpen(d, log, b)
  <2>1. d.pos - 1 = p /\ d.pos = p + 1
    BY <1>1, <1>11
  <2>2. ASSUME NEW k \in b + 1 .. p PROVE log[k].type = "root_update"
    <3>1. k = p \/ k \in b + 1 .. p - 1
      BY <1>1
    <3> QED
      BY <1>2, <1>3, <3>1 DEF OneOpen
  <2> QED
    BY <1>2, <1>3, <1>5, <1>11, <2>1, <2>2 DEF OneOpen
<1>13. PendingOK(d, log)
  <2>1. b \in 1 .. d.pos - 1
    BY <1>1, <1>11
  <2> QED
    BY <1>12, <2>1 DEF PendingOK
<1>14. Newest(d.roots, log, d.pos, base)
  <2>1. \A n, v : Settled(log, p + 1, n, v) <=> Settled(log, p, n, v)
    <3>1. p \in Nat /\ log[p].type # "commit"
      BY <1>1, <1>2
    <3> QED
      BY <3>1, SettledSame
  <2> QED
    BY <1>2, <1>11, <2>1 DEF ScanOK, Newest
<1> QED
  BY <1>4, <1>11, <1>13, <1>14 DEF ScanOK

(* A COMMIT gives each root of the batch its update, if that is fresh.     *)
LEMMA AppliedIs ==
    ASSUME NEW s, NEW log, NEW base, LogOK(log), ScanOK(s, log, base),
           s.pos <= Len(log), NEW b \in 1 .. s.pos - 1, OneOpen(s, log, b),
           NEW n \in Names
    PROVE  LET id == log[b].tx
               new == Applied(s, log, id)[n]
           IN  \/ /\ \A u \in Fresh(s, log, id) : u.name # n
                  /\ new = s.roots[n]
               \/ \E i \in b + 1 .. s.pos - 1 :
                     /\ log[i] \in Fresh(s, log, id)
                     /\ log[i].name = n
                     /\ new = [version |-> log[i].version,
                               payload |-> JournalLoc(i, log[i].payload)]
<1>1. /\ log \in Seq(Record) /\ Len(log) \in Nat /\ s \in ScanType
      /\ s.pos \in 1 .. Len(log)
  BY DEF LogOK, ScanOK
<1>2. PICK p \in 1 .. Len(log) : p = s.pos
  BY <1>1
<1>3. PICK id : id = log[b].tx
  OBVIOUS
<1>4. PICK q : q = s.pending[id].updates
  OBVIOUS
<1>5. DOMAIN q = 1 .. p - 1 - b /\ \A k \in 1 .. p - 1 - b : q[k] = b + k
  <2>1. p \in Nat /\ b \in 1 .. p - 1
    BY <1>1, <1>2
  <2>2. q = Behind(p, b)
    BY <1>2, <1>3, <1>4 DEF OneOpen
  <2> QED
    BY <2>1, <2>2, BehindIs
<1>6. PICK F : F = Fresh(s, log, id)
  OBVIOUS
<1> DEFINE Takes(k) == log[q[k]].name = n /\ log[q[k]] \in F
           at == q[CHOOSE k \in DOMAIN q : Takes(k)]
<1>7. Applied(s, log, id)[n] =
        IF \E u \in F : u.name = n
        THEN [version |-> log[at].version,
              payload |-> JournalLoc(at, log[at].payload)]
        ELSE s.roots[n]
  BY <1>4, <1>6 DEF Applied
<1>8. CASE \E u \in F : u.name = n
  <2>1. PICK u \in F : u.name = n
    BY <1>8
  <2>2. PICK k \in DOMAIN q : u = log[q[k]]
    BY <1>4, <1>6, <2>1 DEF Fresh, Pending
  <2>3. \E j \in DOMAIN q : Takes(j)
    BY <2>1, <2>2
  <2>4. PICK j \in DOMAIN q : j = (CHOOSE h \in DOMAIN q : Takes(h)) /\ Takes(j)
    BY <2>3
  <2>5. at = q[j]
    BY <2>4
  <2> HIDE DEF at
  <2>6. at \in b + 1 .. p - 1
    <3>1. j \in 1 .. p - 1 - b /\ at = b + j
      BY <1>5, <2>5
    <3> QED
      BY <1>1, <3>1
  <2>7. log[at].name = n /\ log[at] \in F
    BY <2>4, <2>5
  <2> QED
    BY <1>2, <1>3, <1>6, <1>7, <1>8, <2>6, <2>7
<1>9. CASE ~ \E u \in F : u.name = n
  BY <1>3, <1>6, <1>7, <1>9
<1> QED
  BY <1>8, <1>9

(* ... and by a COMMIT, which moves the roots to the versions of its       *)
(* batch.                                                                  *)
LEMMA ScanCommit ==
    ASSUME NEW s, NEW log, NEW base, LogOK(log), Chained(log, base),
           ScanOK(s, log, base), s.pos <= Len(log),
           log[s.pos].type = "commit",
           \A n \in Names : base[n].version \in Nat
    PROVE  ScanOK(Scanned(s, log), log, base)
<1>1. /\ s.pos \in 1 .. Len(log) /\ log \in Seq(Record) /\ s \in ScanType
      /\ log[s.pos].tx \in 1 .. MaxTx /\ Len(log) \in Nat
  BY ScanMeets
<1>2. PICK p \in 1 .. Len(log) : p = s.pos
  BY <1>1
<1>3. PICK b \in 1 .. p - 1 : OneOpen(s, log, b) /\ log[b].tx = log[p].tx
  BY <1>2, ScanMeets
<1>4. PICK id : id = log[p].tx
  OBVIOUS
<1>5. PICK new : new = Applied(s, log, id)
  OBVIOUS
<1>6. PICK d : d = Scanned(s, log)
  OBVIOUS
<1>7. PICK F : F = Fresh(s, log, id)
  OBVIOUS
<1>8. ASSUME NEW u \in F
      PROVE  /\ u.name \in Names
             /\ u.version = s.roots[u.name].version + 1
  <2>1. b \in 1 .. s.pos - 1 /\ u \in Fresh(s, log, log[b].tx)
    BY <1>2, <1>3, <1>4, <1>7
  <2>2. u.name \in Names
    BY <1>3, <2>1, FreshFits
  <2>3. u.version = s.roots[u.name].version + 1
    BY <1>3, <2>1, FreshFits
  <2> QED
    BY <2>2, <2>3
<1>9. ASSUME NEW n \in Names
      PROVE  \/ (\A u \in F : u.name # n) /\ new[n] = s.roots[n]
             \/ \E i \in b + 1 .. p - 1 :
                   /\ log[i] \in F
                   /\ log[i].name = n
                   /\ new[n] = [version |-> log[i].version,
                                payload |-> JournalLoc(i, log[i].payload)]
  BY <1>2, <1>3, <1>4, <1>5, <1>7, AppliedIs
<1>10. ASSUME NEW i \in b + 1 .. p - 1
       PROVE  /\ i \in 1 .. Len(log) /\ i \in 1 .. p - 1
              /\ log[i] \in Record /\ log[i].type = "root_update"
              /\ log[i].version \in Nat
  <2>1. i \in 1 .. Len(log) /\ i \in 1 .. p - 1
    BY <1>1
  <2>2. log[i] \in Record /\ log[i].type = "root_update"
    BY <1>1, <1>2, <1>3, <2>1 DEF OneOpen
  <2> QED
    BY <2>1, <2>2, RecordKind
<1>11. s.roots \in [Names -> RootRecord] /\
       \A n \in Names : s.roots[n].version \in Nat
  BY <1>1 DEF ScanType, RootRecord
<1>12. new \in [Names -> RootRecord]
  <2>1. ASSUME NEW n \in Names
        PROVE  new[n] \in RootRecord
    <3>1. CASE new[n] = s.roots[n]
      BY <1>11, <3>1
    <3>2. CASE new[n] # s.roots[n]
      <4>1. PICK i \in b + 1 .. p - 1 :
                  new[n] = [version |-> log[i].version,
                            payload |-> JournalLoc(i, log[i].payload)]
        BY <1>9, <3>2
      <4>2. i \in Nat /\ log[i].payload \in Bytes
        BY <1>1, <1>10 DEF Record, BeginRecord, UpdateRecord, CommitRecord,
                           Torn
      <4>3. JournalLoc(i, log[i].payload) \in Loc
        BY <4>2 DEF JournalLoc, Loc, Crc32c, Bytes
      <4> QED
        BY <1>10, <4>1, <4>3 DEF RootRecord
    <3> QED
      BY <3>1, <3>2
  <2>2. new = [n \in Names |-> new[n]]
    BY <1>5 DEF Applied
  <2> QED
    BY <2>1, <2>2
<1>13. NoPending \in PendingTransaction
  BY DEF NoPending, PendingTransaction
<1>14. d = ScanNext(s, log, new, NoPending)
  BY <1>1, <1>2, <1>4, <1>5, <1>6, ScannedIs
<1>15. /\ d \in ScanType
       /\ d.pos = p + 1 /\ d.roots = new
       /\ d.pending[id] = NoPending
       /\ \A j \in 1 .. MaxTx \ {id} : d.pending[j] = s.pending[j]
       /\ d.pos \in 1 .. Len(log) + 1
       /\ \A i \in 1 .. d.pos - 1 : log[i].type # "torn"
       /\ d.last = d.base \/ \E i \in 1 .. d.pos - 1 : d.last = log[i].seq
  <2>1. log[s.pos].type # "torn"
    OBVIOUS
  <2>2. PICK e \in PendingTransaction : e = NoPending
    BY <1>13
  <2>3. d = ScanNext(s, log, new, e)
    BY <1>14, <2>2
  <2>4. /\ d \in ScanType
        /\ d.pos = s.pos + 1 /\ d.roots = new
        /\ d.pending[log[s.pos].tx] = e
        /\ \A j \in 1 .. MaxTx \ {log[s.pos].tx} :
              d.pending[j] = s.pending[j]
        /\ d.pos \in 1 .. Len(log) + 1
        /\ \A i \in 1 .. d.pos - 1 : log[i].type # "torn"
        /\ d.last = d.base \/ \E i \in 1 .. d.pos - 1 : d.last = log[i].seq
    BY <1>12, <2>1, <2>3, ScanAdvances
  <2> QED
    BY <1>2, <1>4, <2>2, <2>4
<1>16. PendingOK(d, log)
  <2>1. d.pos - 1 = p
    BY <1>1, <1>15
  <2>2. \A j \in 1 .. MaxTx : d.pending[j] = NoPending
    BY <1>3, <1>4, <1>15 DEF OneOpen
  <2> QED
    BY <1>2, <2>1, <2>2 DEF PendingOK, NoneOpen
<1>17. ASSUME NEW n \in Names
       PROVE  /\ new[n].version >= base[n].version
              /\ new[n].version \in Nat
              /\ new[n].version >= s.roots[n].version
              /\ \A u \in F : u.name = n => new[n].version = u.version
              /\ \/ new[n].version = base[n].version
                 \/ Settled(log, p + 1, n, new[n].version)
  <2>1. /\ s.roots[n].version >= base[n].version
        /\ \/ s.roots[n].version = base[n].version
           \/ Settled(log, p, n, s.roots[n].version)
    BY <1>2 DEF ScanOK, Newest
  <2>2. CASE (\A u \in F : u.name # n) /\ new[n] = s.roots[n]
    <3>1. p \in Int /\ p + 1 \in Int /\ p <= p + 1
      BY <1>1
    <3>2. Settled(log, p, n, s.roots[n].version) =>
              Settled(log, p + 1, n, s.roots[n].version)
      BY <3>1, SettledLater
    <3> QED
      BY <1>11, <2>1, <2>2, <3>2
  <2>3. CASE \E i \in b + 1 .. p - 1 :
                   /\ log[i] \in F
                   /\ log[i].name = n
                   /\ new[n] = [version |-> log[i].version,
                                payload |-> JournalLoc(i, log[i].payload)]
    <3>1. PICK i \in b + 1 .. p - 1 :
                /\ log[i] \in F
                /\ log[i].name = n
                /\ new[n] = [version |-> log[i].version,
                             payload |-> JournalLoc(i, log[i].payload)]
      BY <2>3
    <3>2. new[n].version = log[i].version
      BY <3>1
    <3>3. log[i].version = s.roots[n].version + 1
      BY <1>8, <3>1
    <3>4. Settled(log, p + 1, n, new[n].version)
      <4>1. MadeBefore(log, p, n, new[n].version)
        BY <1>10, <3>1, <3>2 DEF MadeBefore, Makes
      <4>2. p \in 1 .. (p + 1) - 1 /\ log[p].type = "commit"
        BY <1>1, <1>2
      <4> QED
        BY <4>1, <4>2 DEF Settled
    <3>5. \A u \in F : u.name = n => u.version = s.roots[n].version + 1
      BY <1>8
    <3>6. PICK v \in Nat : v = s.roots[n].version
      BY <1>11
    <3>7. new[n].version = v + 1 /\ v >= base[n].version
          /\ base[n].version \in Nat
      BY <2>1, <3>2, <3>3, <3>6
    <3> QED
      BY <3>4, <3>5, <3>6, <3>7
  <2> QED
    BY <1>9, <2>2, <2>3
<1>18. ASSUME NEW n \in Names, NEW v \in Nat, Settled(log, p + 1, n, v)
       PROVE  new[n].version >= v
  <2>1. CASE Settled(log, p, n, v)
    <3>1. s.roots[n].version >= v
      BY <1>2, <2>1 DEF ScanOK, Newest
    <3> QED
      BY <1>11, <1>17, <3>1
  <2>2. CASE ~ Settled(log, p, n, v)
    <3>1. PICK c \in 1 .. p : log[c].type = "commit" /\ MadeBefore(log, c, n, v)
      <4>1. (p + 1) - 1 = p
        BY <1>1
      <4> QED
        BY <1>18, <4>1 DEF Settled
    <3>2. c = p
      <4>1. c \notin 1 .. p - 1
        BY <2>2, <3>1 DEF Settled
      <4> QED
        BY <1>1, <4>1
    <3>3. PICK j \in 1 .. p - 1 : Makes(log, j, n, v)
      BY <3>1, <3>2 DEF MadeBefore
    <3>4. /\ log[j].type = "root_update" /\ log[j].name = n
          /\ log[j].version = v
      BY <3>3 DEF Makes
    <3>5. log[b].type = "begin" /\ b \in 1 .. Len(log)
      BY <1>1, <1>3 DEF OneOpen
    <3>6. ~ (j < b)
      <4> SUFFICES ASSUME j < b PROVE FALSE
        OBVIOUS
      <4>1. RecordOK(log, b) /\ b # 1
        BY <3>5 DEF LogOK
      <4>2. log[b - 1].type = "commit"
        BY <3>5, <4>1 DEF RecordOK
      <4>3. j # b - 1
        BY <3>4, <4>2
      <4>4. j \in 1 .. (b - 1) - 1 /\ b - 1 \in 1 .. p - 1
        BY <1>1, <4>3
      <4>5. MadeBefore(log, b - 1, n, v)
        BY <3>3, <4>4 DEF MadeBefore
      <4> QED
        BY <2>2, <4>2, <4>4, <4>5 DEF Settled
    <3>7. j \in b + 1 .. p - 1
      <4>1. j # b
        BY <3>4, <3>5
      <4> QED
        BY <1>1, <3>6, <4>1
    <3>8. log[j] \in Pending(s, log, id)
      <4>1. s.pending[id].updates = Behind(p, b)
        BY <1>2, <1>3, <1>4 DEF OneOpen
      <4>2. /\ DOMAIN Behind(p, b) = 1 .. p - 1 - b
            /\ \A k \in 1 .. p - 1 - b : Behind(p, b)[k] = b + k
        <5>1. p \in Nat /\ b \in 1 .. p - 1
          BY <1>1
        <5> QED
          BY <5>1, BehindIs
      <4>3. j - b \in 1 .. p - 1 - b /\ b + (j - b) = j
        BY <1>1, <3>7
      <4>4. j - b \in DOMAIN Behind(p, b) /\ Behind(p, b)[j - b] = j
        BY <4>2, <4>3
      <4> QED
        BY <4>1, <4>4 DEF Pending
    <3>9. CASE log[j] \in F
      <4>1. new[n].version = v
        BY <1>17, <3>4, <3>9
      <4> QED
        BY <4>1
    <3>10. CASE log[j] \notin F
      <4>1. ~ (v > s.roots[n].version)
        BY <1>7, <3>4, <3>8, <3>10 DEF Fresh
      <4> QED
        BY <1>11, <1>17, <4>1
    <3> QED
      BY <3>9, <3>10
  <2> QED
    BY <2>1, <2>2
<1>19. Newest(d.roots, log, d.pos, base)
  BY <1>15, <1>17, <1>18 DEF Newest
<1> QED
  BY <1>6, <1>15, <1>16, <1>19 DEF ScanOK

(* Every record that is not torn.                                          *)
LEMMA ScanStep ==
    ASSUME NEW s, NEW log, NEW base, LogOK(log), Chained(log, base),
           ScanOK(s, log, base), s.pos <= Len(log),
           log[s.pos].type # "torn",
           \A n \in Names : base[n].version \in Nat
    PROVE  ScanOK(Scanned(s, log), log, base)
<1>1. log[s.pos].type \in {"begin", "root_update", "commit"}
  BY ScanMeets
<1> QED
  BY <1>1, ScanBegin, ScanUpdate, ScanCommit

(* The torn record is the last one, and nothing depends on it.             *)
LEMMA ScanCut ==
    ASSUME NEW s, NEW log, NEW base, NEW kept, NEW D,
           Recoverable(log, base, kept, D), ScanOK(s, log, base),
           s.pos <= Len(log), log[s.pos].type = "torn"
    PROVE  LET part == SubSeq(log, 1, s.pos - 1)
           IN  Recoverable(part, base, kept, D) /\ ScanOK(s, part, base)
<1>1. /\ log \in Seq(Record) /\ Len(log) \in Nat /\ s \in ScanType
      /\ s.pos \in 1 .. Len(log)
  BY DEF Recoverable, LogOK, ScanOK
<1>2. PICK p \in 1 .. Len(log) : p = s.pos
  BY <1>1
<1>3. p = Len(log)
  <2>1. RecordOK(log, p)
    BY DEF Recoverable, LogOK
  <2> QED
    BY <1>2, <2>1 DEF RecordOK
<1>4. PICK part : part = SubSeq(log, 1, p - 1)
  OBVIOUS
<1>5. Part(part, log) /\ Len(part) = p - 1 /\ part \in Seq(Record)
  <2>1. p - 1 \in 0 .. Len(log)
    BY <1>1
  <2> QED
    BY <1>1, <1>4, <2>1, CutPart
<1>6. /\ LogOK(part) /\ Chained(part, base) /\ Bounded(part, base, kept, D)
  BY <1>5, PartOK, PartChained, PartBounded DEF Recoverable
<1>7. ASSUME NEW q \in 1 .. p, NEW n, NEW v
      PROVE  Settled(part, q, n, v) <=> Settled(log, q, n, v)
  <2>1. q \in 1 .. Len(part) + 1
    BY <1>1, <1>5
  <2> QED
    BY <1>5, <2>1, PartSettles
<1>8. Complete(part, base, kept)
  <2> SUFFICES ASSUME NEW n \in Names,
                      Settled(log, Len(log) + 1, n, kept[n])
               PROVE  Settled(part, Len(part) + 1, n, kept[n])
    BY DEF Recoverable, Complete
  <2>1. p \in Nat /\ log[p].type # "commit"
    BY <1>1, <1>2
  <2>2. Settled(log, p, n, kept[n])
    BY <1>3, <2>1, SettledSame
  <2>3. p \in 1 .. p /\ Len(part) + 1 = p
    BY <1>1, <1>5
  <2> QED
    BY <1>7, <2>2, <2>3
<1>9. ScanOK(s, part, base)
  <2>1. \A i \in 1 .. p - 1 : part[i] = log[i]
    BY <1>1, <1>5 DEF Part
  <2>2. PendingOK(s, part)
    <3>1. CASE NoneOpen(s, log)
      <4>1. p > 1 => p - 1 \in 1 .. p - 1
        BY <1>1
      <4>2. NoneOpen(s, part)
        BY <1>2, <2>1, <3>1, <4>1 DEF NoneOpen
      <4> QED
        BY <4>2 DEF PendingOK
    <3>2. ASSUME NEW b \in 1 .. p - 1, OneOpen(s, log, b)
          PROVE  OneOpen(s, part, b)
      <4>1. p - 1 \in 1 .. p - 1 /\ \A k \in b + 1 .. p - 1 : k \in 1 .. p - 1
        BY <1>1
      <4>2. part[b] = log[b] /\ part[p - 1] = log[p - 1]
            /\ \A k \in b + 1 .. p - 1 : part[k] = log[k]
        BY <2>1, <4>1
      <4> QED
        BY <1>2, <3>2, <4>2 DEF OneOpen
    <3> QED
      BY <1>2, <3>1, <3>2 DEF PendingOK, ScanOK
  <2>3. Newest(s.roots, part, s.pos, base)
    <3>1. p \in 1 .. p
      BY <1>1
    <3>2. \A n, v : Settled(part, p, n, v) <=> Settled(log, p, n, v)
      BY <1>7, <3>1
    <3> QED
      BY <1>2, <3>2 DEF ScanOK, Newest
  <2>4. s.pos \in 1 .. Len(part) + 1
    BY <1>1, <1>2, <1>5
  <2>5. /\ \A i \in 1 .. p - 1 : part[i].type # "torn"
        /\ s.last = s.base \/ \E i \in 1 .. p - 1 : s.last = part[i].seq
    BY <1>2, <2>1 DEF ScanOK
  <2> QED
    BY <1>1, <1>2, <2>2, <2>3, <2>4, <2>5 DEF ScanOK
<1> QED
  BY <1>2, <1>4, <1>6, <1>8, <1>9 DEF Recoverable

(* At the end of the journal the scan has whole batches.                   *)
LEMMA ScanEnds ==
    ASSUME NEW s, NEW log, NEW base, NEW kept \in [Names -> Nat],
           NEW D \in SUBSET Names,
           Recoverable(log, base, kept, D), ScanOK(s, log, base),
           s.pos > Len(log), \A n \in Names : base[n].version \in Nat
    PROVE  \/ \A n \in Names : s.roots[n].version = kept[n]
           \/ \A n \in Names :
                 s.roots[n].version = IF n \in D THEN kept[n] + 1 ELSE kept[n]
<1>1. /\ log \in Seq(Record) /\ Len(log) \in Nat /\ s \in ScanType
      /\ s.pos = Len(log) + 1
  BY DEF Recoverable, LogOK, ScanOK
<1>2. \A n \in Names : s.roots[n].version \in Nat /\ kept[n] \in Nat
  BY <1>1 DEF ScanType, RootRecord
<1>3. ASSUME NEW n \in Names
      PROVE  s.roots[n].version >= kept[n]
  <2>1. /\ s.roots[n].version >= base[n].version
        /\ Settled(log, Len(log) + 1, n, kept[n]) =>
               s.roots[n].version >= kept[n]
    BY <1>1, <1>2 DEF ScanOK, Newest
  <2>2. \/ kept[n] <= base[n].version
        \/ Settled(log, Len(log) + 1, n, kept[n])
    BY DEF Recoverable, Complete
  <2> QED
    BY <1>2, <2>1, <2>2
<1>4. ASSUME NEW n \in Names, s.roots[n].version # kept[n]
      PROVE  /\ n \in D /\ s.roots[n].version = kept[n] + 1
             /\ \A m \in D : s.roots[m].version >= kept[m] + 1
  <2>1. s.roots[n].version # base[n].version
    <3>1. base[n].version <= kept[n]
      BY DEF Recoverable, Bounded
    <3> QED
      BY <1>2, <1>3, <1>4, <3>1
  <2>2. Settled(log, Len(log) + 1, n, s.roots[n].version)
    BY <1>1, <2>1 DEF ScanOK, Newest
  <2>3. PICK c \in 1 .. Len(log) :
          log[c].type = "commit" /\ MadeBefore(log, c, n, s.roots[n].version)
    <3>1. (Len(log) + 1) - 1 = Len(log)
      BY <1>1
    <3> QED
      BY <2>2, <3>1 DEF Settled
  <2>4. PICK j \in 1 .. c - 1 : Makes(log, j, n, s.roots[n].version)
    BY <2>3 DEF MadeBefore
  <2>5. \/ log[j].version <= kept[log[j].name]
        \/ WithinDoubt(log, c, j, kept, D)
    BY <2>3, <2>4 DEF Recoverable, Bounded, Makes
  <2>6. log[j].name = n /\ log[j].version = s.roots[n].version
    BY <2>4 DEF Makes
  <2>7. WithinDoubt(log, c, j, kept, D)
    BY <1>2, <1>3, <1>4, <2>5, <2>6
  <2>8. ASSUME NEW m \in D
        PROVE  s.roots[m].version >= kept[m] + 1
    <3>1. m \in Names /\ kept[m] + 1 \in Nat
      BY <1>2
    <3>2. MadeBefore(log, c, m, kept[m] + 1)
      BY <2>7 DEF WithinDoubt
    <3>3. c \in 1 .. (Len(log) + 1) - 1
      BY <1>1
    <3>4. Settled(log, Len(log) + 1, m, kept[m] + 1)
      BY <2>3, <3>2, <3>3 DEF Settled
    <3> QED
      BY <1>1, <3>1, <3>4 DEF ScanOK, Newest
  <2> QED
    BY <2>6, <2>7, <2>8 DEF WithinDoubt
<1>5. CASE \A n \in Names : s.roots[n].version = kept[n]
  BY <1>5
<1>6. CASE \E n \in Names : s.roots[n].version # kept[n]
  <2>1. \A m \in D : s.roots[m].version >= kept[m] + 1
    BY <1>4, <1>6
  <2>2. ASSUME NEW n \in Names
        PROVE  s.roots[n].version = IF n \in D THEN kept[n] + 1 ELSE kept[n]
    <3>1. CASE n \in D
      <4>1. s.roots[n].version # kept[n]
        BY <1>2, <2>1, <3>1
      <4> QED
        BY <1>4, <3>1, <4>1
    <3>2. CASE n \notin D
      BY <1>4, <3>2
    <3> QED
      BY <3>1, <3>2
  <2> QED
    BY <2>2
<1> QED
  BY <1>5, <1>6

-----------------------------------------------------------------------------
(* The first crash and the recovery from it.                               *)

OneCrash == MaxCrashes <= 1 /\ (Strict \/ "power" \notin CrashKinds)

RecoveryInv ==
    /\ mode \in {"up", "down", "scan", "cut"}
    /\ crashes \in Nat
    /\ crashes = 0 => mode = "up" /\ HeapInv /\ CrashInv
    /\ mode # "up" => DownInv
    /\ mode \in {"scan", "cut"} => ScanOK(scan, wal, snap.index)

(* After a crash the histories have exactly the kept versions.             *)
LEMMA DownFacts ==
    ASSUME DownInv
    PROVE  /\ \A n \in Names : snap.index[n].version \in Nat
           /\ Kept = [n \in Names |-> Len(hist[n])]
           /\ \A n \in Names : Kept[n] = Len(hist[n]) /\ Len(hist[n]) \in Nat
           /\ LogOK(wal) /\ Chained(wal, snap.index) /\ wal \in Seq(Record)
<1>1. \A n \in Names : Len(hist[n]) \in Nat
  BY DEF DownInv
<1>2. ASSUME NEW n \in Names
      PROVE  (IF n \in DOMAIN doubt THEN doubt[n].version - 1
                                    ELSE Len(hist[n])) = Len(hist[n])
  BY <1>1 DEF DownInv
<1>3. Kept = [n \in Names |-> Len(hist[n])]
  BY <1>2 DEF Kept
<1>4. \A n \in Names : snap.index[n].version \in Nat
  BY DEF DownInv, File, RootRecord
<1> QED
  BY <1>1, <1>3, <1>4 DEF DownInv, Recoverable, LogOK

(* Nothing of what a recovery works on changes.                            *)
LEMMA DownKept ==
    ASSUME DownInv, UNCHANGED <<wal, snap, hist, doubt>>
    PROVE  DownInv'
<1>1. Kept' = Kept
  BY KeptSame
<1> QED
  BY <1>1 DEF DownInv

(* The inductive invariant is preserved by every step ...                  *)
LEMMA RecoveryNext ==
    ASSUME OneCrash, RecoveryInv, [RNext]_rvars
    PROVE  RecoveryInv'
<1>1. CASE UNCHANGED rvars
  <2>1. UNCHANGED <<mode, crashes, scan, doubt, vars>>
    BY <1>1 DEF rvars
  <2>2. mode # "up" => DownInv'
    BY <2>1, DownKept DEF RecoveryInv, vars, storage
  <2>3. HeapInv /\ CrashInv => HeapInv' /\ CrashInv'
    <3>1. /\ UNCHANGED <<wal, walDisk, snap, snapDisk, tmp, roots, lastSeq,
                         poisoned, pc, call, hist, doubt>>
          /\ UNCHANGED <<tx, nextTx>>
      BY <2>1 DEF vars, storage, index, flags, control
    <3>2. Kept' = Kept
      BY <3>1, KeptSame
    <3>3. CrashInv => CrashInv'
      BY <3>1, <3>2 DEF CrashInv, FilesOK, Logs, Files, DeviceOK, DoubtOK,
         StageOK, BatchOK, Covers, Todo
    <3>4. HeapInv => HeapInv'
      <4> SUFFICES ASSUME HeapInv PROVE HeapInv'
        OBVIOUS
      <4>1. SafeInv' /\ PoisonInv'
        BY <2>1, TypeNext, MutexNext, StoreNext, PoisonNext
           DEF HeapInv, SafeInv
      <4>2. \A t \in Threads : CallTx(t)'
        BY <2>1, CallTxNext DEF HeapInv, SafeInv
      <4> QED
        BY <3>1, <4>1, <4>2 DEF HeapInv, NumbersOK
    <3> QED
      BY <3>3, <3>4
  <2> QED
    BY <2>1, <2>2, <2>3 DEF RecoveryInv, vars, storage
<1>2. CASE Run
  <2>1. mode = "up" /\ mode' = "up" /\ crashes' = crashes
    BY <1>2 DEF Run
  <2>2. HeapInv /\ CrashInv => HeapInv' /\ CrashInv'
    BY <1>2, HeapNext, CrashNext DEF Run
  <2> QED
    BY <2>1, <2>2 DEF RecoveryInv
<1>3. CASE ProcessCrash \/ PowerLoss
  <2>1. crashes < MaxCrashes /\ Down
    BY <1>3 DEF ProcessCrash, PowerLoss
  <2>2. crashes = 0
    BY <2>1, RecoveryAssumption DEF OneCrash, RecoveryInv
  <2>3. HeapInv /\ CrashInv
    BY <2>2 DEF RecoveryInv
  <2>4. PowerLoss => Strict
    BY DEF PowerLoss, OneCrash
  <2>5. DownInv'
    BY <1>3, <2>3, <2>4, ProcessDies, PowerFails
  <2>6. mode' = "down" /\ crashes' = 1
    BY <2>1, <2>2 DEF Down
  <2> QED
    BY <2>5, <2>6 DEF RecoveryInv
<1>4. CASE Open
  <2>1. /\ mode = "down" /\ mode' = "scan" /\ crashes' = crashes
        /\ scan' = ScanStart(snap.index, snap.seq, 1 .. MaxTx)
        /\ UNCHANGED <<wal, snap, hist, doubt>>
    BY <1>4 DEF Open, vars, storage
  <2>2. DownInv /\ crashes # 0
    BY <2>1 DEF RecoveryInv
  <2>3. DownInv'
    BY <2>1, <2>2, DownKept
  <2>4. ScanOK(scan', wal, snap.index)
    BY <2>1, <2>2, ScanBegins, DownFacts DEF DownInv
  <2> QED
    BY <2>1, <2>2, <2>3, <2>4 DEF RecoveryInv
<1>5. CASE Scan
  <2>1. /\ mode = "scan" /\ crashes' = crashes /\ AtRecord(scan, wal)
        /\ UNCHANGED <<wal, snap, hist, doubt>>
    BY <1>5 DEF Scan, vars, storage
  <2>2. DownInv /\ crashes # 0 /\ ScanOK(scan, wal, snap.index)
    BY <2>1 DEF RecoveryInv
  <2>3. /\ LogOK(wal) /\ Chained(wal, snap.index)
        /\ \A n \in Names : snap.index[n].version \in Nat
        /\ wal \in Seq(Record)
    BY <2>2, DownFacts
  <2>4. scan.pos <= Len(wal) /\ wal[scan.pos].type # "torn"
    <3>1. scan.pos <= Len(wal) /\ wal[scan.pos] # Torn
      BY <2>1 DEF AtRecord
    <3>2. scan.pos \in 1 .. Len(wal)
      BY <2>2, <2>3, <3>1 DEF ScanOK
    <3>3. wal[scan.pos] \in Record
      BY <2>3, <3>2
    <3> QED
      BY <3>1, <3>3, RecordKind
  <2>5. ~ Rejected(scan, wal)
    BY <2>2, <2>3, <2>4, ScanAccepts
  <2>6. mode' = "scan" /\ scan' = Scanned(scan, wal)
    BY <1>5, <2>1, <2>5 DEF Scan
  <2>7. ScanOK(scan', wal, snap.index)
    BY <2>2, <2>3, <2>4, <2>6, ScanStep
  <2>8. DownInv'
    BY <2>1, <2>2, DownKept
  <2> QED
    BY <2>1, <2>2, <2>6, <2>7, <2>8 DEF RecoveryInv
<1>6. CASE CutTornTail
  <2>1. /\ mode = "scan" /\ mode' \in {"scan", "cut"} /\ crashes' = crashes
        /\ scan.pos <= Len(wal) /\ ~ AtRecord(scan, wal)
        /\ wal' = SubSeq(wal, 1, scan.pos - 1)
        /\ UNCHANGED <<snap, hist, scan, doubt>>
    BY <1>6 DEF CutTornTail
  <2>2. DownInv /\ crashes # 0 /\ ScanOK(scan, wal, snap.index)
    BY <2>1 DEF RecoveryInv
  <2>3. wal[scan.pos].type = "torn"
    BY <2>1 DEF AtRecord, Torn
  <2>4. Recoverable(wal, snap.index, Kept, DOMAIN doubt)
    BY <2>2 DEF DownInv
  <2>5. /\ Recoverable(wal', snap.index, Kept, DOMAIN doubt)
        /\ ScanOK(scan, wal', snap.index)
    BY <2>1, <2>2, <2>3, <2>4, ScanCut
  <2>6. Kept' = Kept
    BY <2>1, KeptSame
  <2>7. DownInv'
    BY <2>1, <2>2, <2>5, <2>6 DEF DownInv
  <2> QED
    BY <2>1, <2>2, <2>5, <2>7 DEF RecoveryInv
<1>7. CASE FlushCut
  <2>1. /\ mode = "cut" /\ mode' = "scan" /\ crashes' = crashes
        /\ UNCHANGED <<wal, snap, hist, scan, doubt>>
    BY <1>7 DEF FlushCut
  <2>2. DownInv /\ crashes # 0 /\ ScanOK(scan, wal, snap.index)
    BY <2>1 DEF RecoveryInv
  <2>3. DownInv'
    BY <2>1, <2>2, DownKept
  <2> QED
    BY <2>1, <2>2, <2>3 DEF RecoveryInv
<1>8. CASE Opened
  <2>1. mode = "scan" /\ mode' = "up" /\ crashes' = crashes
    BY <1>8 DEF Opened
  <2>2. crashes # 0
    BY <2>1 DEF RecoveryInv
  <2> QED
    BY <2>1, <2>2 DEF RecoveryInv
<1> QED
  BY <1>1, <1>2, <1>3, <1>4, <1>5, <1>6, <1>7, <1>8 DEF RNext

(* ... holds in the initial states ...                                     *)
LEMMA RecoveryInit == RInit => RecoveryInv
  BY UpInit DEF RInit, RecoveryInv

(* ... and so in every state of a heap that is stopped by one crash.       *)
LEMMA RecoveryInvariant == ASSUME OneCrash PROVE RSpec => []RecoveryInv
<1>1. RInit => RecoveryInv
  BY RecoveryInit
<1>2. RecoveryInv /\ [RNext]_rvars => RecoveryInv'
  BY RecoveryNext
<1> QED
  BY <1>1, <1>2, PTL DEF RSpec

(* The scan ends at the kept versions, or at those and the whole batch in  *)
(* doubt.                                                                  *)
LEMMA OpenedVersions ==
    ASSUME RecoveryInv, Opened
    PROVE  /\ \A n \in Names : Kept[n] = Len(hist[n]) /\ Len(hist[n]) \in Nat
           /\ \/ \A n \in Names : scan.roots[n].version = Len(hist[n])
              \/ \A n \in Names : scan.roots[n].version =
                     IF n \in DOMAIN doubt THEN Len(hist[n]) + 1
                                           ELSE Len(hist[n])
<1>1. mode = "scan" /\ scan.pos > Len(wal)
  BY DEF Opened
<1>2. DownInv /\ ScanOK(scan, wal, snap.index)
  BY <1>1 DEF RecoveryInv
<1>3. /\ \A n \in Names : snap.index[n].version \in Nat
      /\ \A n \in Names : Kept[n] = Len(hist[n]) /\ Len(hist[n]) \in Nat
      /\ Kept = [n \in Names |-> Len(hist[n])]
  BY <1>2, DownFacts
<1>4. PICK kept \in [Names -> Nat] : kept = Kept
  BY <1>3
<1>5. /\ DOMAIN doubt \in SUBSET Names
      /\ Recoverable(wal, snap.index, kept, DOMAIN doubt)
  BY <1>2, <1>4 DEF DownInv
<1>6. ASSUME NEW s, s = scan, NEW log, log = wal,
             NEW base, base = snap.index,
             NEW D \in SUBSET Names, D = DOMAIN doubt
      PROVE  \/ \A n \in Names : s.roots[n].version = kept[n]
             \/ \A n \in Names :
                  s.roots[n].version =
                      IF n \in D THEN kept[n] + 1 ELSE kept[n]
  <2>1. Recoverable(log, base, kept, D)
    BY <1>5, <1>6
  <2>2. ScanOK(s, log, base)
    BY <1>2, <1>6
  <2>3. s.pos > Len(log)
    BY <1>1, <1>6
  <2>4. \A n \in Names : base[n].version \in Nat
    BY <1>3, <1>6
  <2> QED
    BY <2>1, <2>2, <2>3, <2>4, ScanEnds
<1>7. \/ \A n \in Names : scan.roots[n].version = kept[n]
      \/ \A n \in Names : scan.roots[n].version =
             IF n \in DOMAIN doubt THEN kept[n] + 1 ELSE kept[n]
  BY <1>5, <1>6
<1> QED
  BY <1>3, <1>4, <1>7

(* Whatever any number of threads were doing, whichever storage calls had  *)
(* failed, and wherever the process or, in strict mode, the power stopped: *)
(* the next open does not take the files for corrupt.  More than one crash *)
(* is not covered: the second one can follow an orphaned batch.            *)
THEOREM OpensAfterCrash == ASSUME OneCrash PROVE RSpec => []OpenAccepted
<1>1. RecoveryInv => OpenAccepted
  BY DEF RecoveryInv, OpenAccepted
<1> QED
  BY <1>1, RecoveryInvariant, PTL

(* ... and it finds every published version and, of the batch that the     *)
(* crash interrupted, all or nothing.                                      *)
THEOREM RecoversWholeBatches == ASSUME OneCrash PROVE RSpec => AtomicRecovery
<1>1. ASSUME RecoveryInv, RNext, mode = "scan", mode' = "up"
      PROVE  RecoverAtomically
  <2>1. Opened
    BY <1>1 DEF RNext, Run, ProcessCrash, PowerLoss, Down, Open, Scan,
       CutTornTail, FlushCut
  <2>2. roots' = scan.roots
    BY <2>1 DEF Opened
  <2> QED
    BY <1>1, <2>1, <2>2, OpenedVersions DEF RecoverAtomically
<1>2. RecoveryInv /\ [RNext]_rvars => [RecoverAtomically]_rvars
  BY <1>1 DEF RecoverAtomically
<1> QED
  BY <1>2, RecoveryInvariant, PTL DEF RSpec, AtomicRecovery

-----------------------------------------------------------------------------
(* Acknowledged commits.  Before the crash, what a commit has returned is  *)
(* kept; after it the heap goes on from what the scan found, and versions  *)
(* never decrease, because between validation and publication the index    *)
(* has the versions that were validated or the next ones.                  *)

CommitOK(t) ==
    /\ pc[t] \in {"append", "barrier", "publish"} =>
           \A n \in Dirty(tx[t].work) :
               \/ roots[n].version = tx[t].work[n].expected
               \/ roots[n].version = tx[t].work[n].expected + 1
    /\ pc[t] \in {"barrier", "publish"} =>
           \A i \in 1 .. Len(call[t].todo) :
               call[t].todo[i].name \in Dirty(tx[t].work)

DoubtTyped == \A n \in DOMAIN doubt : doubt[n].payload \in Bytes

AckInv ==
    /\ TypeInv /\ MutexInv /\ DoubtTyped
    /\ \A t \in Threads : CommitOK(t)
    /\ acked \in [Names -> Nat]
    /\ mode = "up" => \A n \in Names : acked[n] <= roots[n].version
    /\ mode # "up" => \A t \in Threads : pc[t] = "idle"
    /\ crashes = 0 \/ mode # "up" => \A n \in Names : acked[n] <= Kept[n]

(* Publication is the only step that gives a root another version.         *)
LEMMA RootsAdvance ==
    ASSUME TypeInv, \A t \in Threads : CommitOK(t), Next
    PROVE  \A n \in Names : roots[n].version <= roots'[n].version
<1>0. roots \in [Names -> RootRecord]
      /\ \A n \in Names : roots[n].version \in Nat
  BY DEF TypeInv, TypeOK, RootRecord
<1>1. CASE Close
  BY <1>0, <1>1 DEF Close, index
<1>2. ASSUME NEW t \in Threads, Publish(t)
      PROVE  \A n \in Names : roots[n].version <= roots'[n].version
  <2>1. /\ pc[t] = "publish" /\ call[t].todo # << >>
        /\ call[t].todo \in Seq(Update)
    BY <1>2 DEF Publish, TypeInv, TypeOK, CallOK, Call
  <2>2. PICK todo \in Seq(Update) : todo = call[t].todo /\ todo # << >>
    BY <2>1
  <2>3. Head(todo) = todo[1] /\ 1 \in 1 .. Len(todo) /\ todo[1] \in Update
    BY <2>2
  <2>4. PICK m \in Names : m = Head(todo).name
    BY <2>3 DEF Update
  <2>5. m \in Dirty(tx[t].work)
    BY <2>1, <2>2, <2>3, <2>4 DEF CommitOK
  <2>6. \/ roots[m].version = tx[t].work[m].expected
        \/ roots[m].version = tx[t].work[m].expected + 1
    BY <2>1, <2>5 DEF CommitOK
  <2>7. /\ roots'[m].version = tx[t].work[m].expected + 1
        /\ \A n \in Names \ {m} : roots'[n] = roots[n]
    BY <1>0, <1>2, <2>2, <2>4 DEF Publish
  <2>8. tx[t].work[m].expected \in Nat
    BY DEF TypeInv, TypeOK, Transaction, Work
  <2> QED
    BY <1>0, <2>6, <2>7, <2>8
<1>3. ASSUME NEW t \in Threads, Install(t)
      PROVE  \A n \in Names : roots[n].version <= roots'[n].version
  BY <1>0, <1>3, SavedVersions DEF Install
<1>4. ASSUME NEW t \in Threads, Application(t) \/ CallStep(t)
      PROVE  \A n \in Names : roots[n].version <= roots'[n].version
  <2>1. CASE Publish(t)
    BY <2>1, <1>2
  <2>2. CASE ~ Publish(t)
    <3>1. roots' = roots \/ Install(t)
      BY <1>4, <2>2, IndexKept
    <3> QED
      BY <1>0, <1>3, <3>1
  <2> QED
    BY <2>1, <2>2
<1> QED
  BY <1>1, <1>4 DEF Next

(* What the locators of a batch are about: its dirty roots.                *)
LEMMA LocatedDirty ==
    ASSUME NEW work \in [Names -> Work], NEW order \in CommitOrder(work),
           NEW log
    PROVE  \A i \in 1 .. Len(Locations(log, order, work)) :
               Locations(log, order, work)[i].name \in Dirty(work)
<1>1. Dirty(work) \subseteq Names /\ IsFiniteSet(Dirty(work))
  <2>1. IsFiniteSet(Names)
    BY NamesAssumption
  <2> QED
    BY <2>1, FS_Subset DEF Dirty
<1>2. Cardinality(Dirty(work)) \in Nat
  BY <1>1, FS_CardinalityType
<1>3. order \in Seq(Dirty(work))
  BY <1>2 DEF CommitOrder
<1>4. \A i \in 1 .. Len(order) : order[i] \in Dirty(work)
  BY <1>3
<1>5. Len(order) \in Nat
  BY <1>3
<1>6. PICK l \in Nat : l = Len(order)
  BY <1>5
<1>7. Locations(log, order, work)
        = [i \in 1 .. l |->
             [name |-> order[i],
              loc |-> JournalLoc(Len(log) + 1 + i, work[order[i]].data)]]
  BY <1>6 DEF Locations
<1>8. Len(Locations(log, order, work)) = l
  BY <1>7
<1> QED
  BY <1>4, <1>6, <1>7, <1>8

(* A commit on its way keeps what it validated.                            *)
LEMMA CommitNext ==
    ASSUME TypeInv, MutexInv, \A t \in Threads : CommitOK(t), Next
    PROVE  \A t \in Threads : CommitOK(t)'
<1>1. CASE Close
  BY <1>1 DEF Close, index, control, CommitOK
<1>2. ASSUME NEW t \in Threads, Application(t) \/ CallStep(t),
             NEW u \in Threads \ {t}
      PROVE  CommitOK(u)'
  <2>1. pc'[u] = pc[u] /\ call'[u] = call[u] /\ tx'[u] = tx[u]
    BY <1>2, OthersKept
  <2>2. CASE roots' = roots
    BY <2>1, <2>2 DEF CommitOK
  <2>3. CASE roots' # roots
    <3>1. Publish(t) \/ Install(t)
      BY <1>2, <2>3, IndexKept
    <3>2. pc[t] \in HoldsCommitMutex
      BY <3>1 DEF Publish, Install, HoldsCommitMutex
    <3>3. pc[u] \notin HoldsCommitMutex
      BY <3>2, Alone
    <3> QED
      BY <2>1, <3>3 DEF CommitOK, HoldsCommitMutex
  <2> QED
    BY <2>2, <2>3
<1>3. ASSUME NEW t \in Threads, Application(t) \/ CallStep(t)
      PROVE  CommitOK(t)'
  <2>0. /\ pc \in [Threads -> Labels] /\ call \in [Threads -> Call]
        /\ tx[t].work \in [Names -> Work]
        /\ roots \in [Names -> RootRecord]
    BY DEF TypeInv, TypeOK, Transaction
  <2>1. CASE Validate(t)
    <3>1. /\ pc'[t] = "append" /\ roots' = roots /\ tx' = tx
          /\ VersionsMatch(tx[t].work)
      BY <2>0, <2>1 DEF Validate, Goto, index
    <3> QED
      BY <3>1 DEF CommitOK, VersionsMatch
  <2>2. CASE AppendBatch(t)
    <3>1. /\ pc[t] = "append" /\ roots' = roots /\ tx' = tx
          /\ \E order \in CommitOrder(tx[t].work) :
                call' = [call EXCEPT ![t].todo =
                                        Locations(wal, order, tx[t].work)]
      BY <2>2 DEF AppendBatch
    <3>2. PICK order \in CommitOrder(tx[t].work) :
            call' = [call EXCEPT ![t].todo =
                                    Locations(wal, order, tx[t].work)]
      BY <3>1
    <3>3. PICK list : list = Locations(wal, order, tx[t].work)
      OBVIOUS
    <3>4. call'[t].todo = list
      BY <2>0, <3>2, <3>3 DEF Call
    <3>5. \A i \in 1 .. Len(list) : list[i].name \in Dirty(tx[t].work)
      BY <2>0, <3>3, LocatedDirty
    <3>6. \A n \in Dirty(tx[t].work) :
               \/ roots[n].version = tx[t].work[n].expected
               \/ roots[n].version = tx[t].work[n].expected + 1
      BY <3>1 DEF CommitOK
    <3> QED
      BY <3>1, <3>4, <3>5, <3>6 DEF CommitOK
  <2>3. CASE Barrier(t)
    BY <2>3 DEF Barrier, index, CommitOK
  <2>4. CASE Publish(t)
    <3>1. /\ pc[t] = "publish" /\ tx' = tx
          /\ call' = [call EXCEPT ![t].todo = Tail(@)]
      BY <2>4 DEF Publish
    <3>2. PICK todo \in Seq(Update) : todo = call[t].todo /\ todo # << >>
      BY <2>0, <3>1 DEF TypeInv, CallOK, Call
    <3>3. call'[t].todo = Tail(todo)
      BY <2>0, <3>1, <3>2 DEF Call
    <3>4. \A i \in 1 .. Len(Tail(todo)) :
             Tail(todo)[i] = todo[i + 1] /\ i + 1 \in 1 .. Len(todo)
      BY <3>2
    <3>5. \A i \in 1 .. Len(todo) : todo[i].name \in Dirty(tx[t].work)
      BY <3>1, <3>2 DEF CommitOK
    <3>6. \A i \in 1 .. Len(Tail(todo)) :
             Tail(todo)[i].name \in Dirty(tx[t].work)
      BY <3>4, <3>5
    <3>7. PICK m : m = Head(todo).name
      OBVIOUS
    <3>8. \A n \in Names : \/ roots'[n] = roots[n]
                           \/ roots'[n].version = tx[t].work[n].expected + 1
      BY <2>0, <2>4, <3>2, <3>7 DEF Publish
    <3>9. ASSUME NEW n \in Dirty(tx[t].work)
          PROVE  \/ roots'[n].version = tx[t].work[n].expected
                 \/ roots'[n].version = tx[t].work[n].expected + 1
      <4>1. \/ roots[n].version = tx[t].work[n].expected
            \/ roots[n].version = tx[t].work[n].expected + 1
        BY <3>1 DEF CommitOK
      <4>2. n \in Names
        BY DEF Dirty
      <4> QED
        BY <3>8, <4>1, <4>2
    <3> QED
      BY <3>1, <3>3, <3>6, <3>9 DEF CommitOK
  <2>5. CASE ~ (Validate(t) \/ AppendBatch(t) \/ Barrier(t) \/ Publish(t))
    <3>1. pc'[t] \notin Committing
      BY <1>3, <2>5, IndexKept
    <3> QED
      BY <3>1 DEF CommitOK, Committing
  <2> QED
    BY <2>1, <2>2, <2>3, <2>4, <2>5
<1> QED
  BY <1>1, <1>2, <1>3 DEF Next

(* A commit returns with the lock, after its publication.                  *)
LEMMA ReturnsLocked ==
    ASSUME TypeInv, Next, NEW t \in Threads, Returning(t)
    PROVE  pc[t] \in {"threshold", "truncate", "sync_wal"}
<1>0. tx \in [Threads -> Transaction]
  BY DEF TypeInv, TypeOK
<1>1. CASE Close
  BY <1>1 DEF Close, Returning
<1>2. ASSUME NEW u \in Threads, Application(u) \/ CallStep(u)
      PROVE  pc[t] \in {"threshold", "truncate", "sync_wal"}
  <2>1. u = t
    <3> SUFFICES ASSUME u # t PROVE FALSE
      OBVIOUS
    <3>1. tx'[t] = tx[t]
      BY <1>2, OthersKept
    <3> QED
      BY <3>1 DEF Returning
  <2>2. pc[t] # "idle" /\ tx[t].active /\ ~ tx'[t].active
    BY DEF Returning
  <2>3. tx' # tx
    BY <2>2
  <2>4. CASE Application(t)
    BY <2>2, <2>4 DEF Application, Begin, Lookup, Mutate, Abort, CommitClean,
                      CommitCall, CheckpointCall
  <2>5. CASE LoadStep(t)
    <3>1. ASSUME NEW n, NEW version, NEW bytes, NEW new,
                 Deliver(t, n, version, bytes, new)
          PROVE  FALSE
      <4>1. tx'[t].active = tx[t].active
        BY <1>0, <3>1 DEF Deliver, Transaction
      <4> QED
        BY <2>2, <4>1
    <3> QED
      BY <2>3, <2>5, <3>1 DEF LoadStep, Probe, Miss, Fetch, FetchFails, Throw
  <2>6. CASE CommitStep(t)
    BY <2>3, <2>6 DEF CommitStep, CommitRefused, Validate, AppendBatch,
                      AppendFails, Barrier, BarrierFails, Publish, Threshold,
                      Throw
  <2>7. CASE CheckpointStep(t)
    BY <2>3, <2>7 DEF CheckpointStep, CheckpointRefused, CheckpointLocked,
                      Save, SaveFails, FlushTmp, FlushTmpFails, AtomicReplace,
                      AtomicReplaceFails, SyncDirectory, SyncDirectoryFails,
                      Install, Truncate, TruncateFails, SyncWal, SyncWalFails,
                      Throw
  <2> QED
    BY <1>2, <2>1, <2>4, <2>5, <2>6, <2>7 DEF CallStep
<1> QED
  BY <1>1, <1>2 DEF Next

(* What is kept is never given up.                                         *)
LEMMA KeptGrows ==
    ASSUME HeapInv, CrashInv, Next, TrackDoubt
    PROVE  \A n \in Names : Kept[n] <= Kept'[n]
<1>0. TypeInv /\ DoubtOK /\ Kept \in [Names -> Nat]
  BY KeptType DEF HeapInv, SafeInv, CrashInv
<1>1. Kept' = Kept => \A n \in Names : Kept[n] <= Kept'[n]
  BY <1>0
<1>2. CASE Close
  <2>1. UNCHANGED <<pc, hist>>
    BY <1>2 DEF Close, control
  <2> QED
    BY <1>1, <2>1, DoubtIdle, KeptSame
<1>3. ASSUME NEW t \in Threads, AppendBatch(t) \/ AppendFails(t)
      PROVE  Kept' = Kept
  <2>1. PICK order \in CommitOrder(tx[t].work) : TRUE
    BY <1>3 DEF AppendBatch, AppendFails
  <2> QED
    BY <1>3, <2>1, KeptAppend
<1>4. ASSUME NEW t \in Threads, Publish(t)
      PROVE  \A n \in Names : Kept[n] <= Kept'[n]
  <2>1. PICK m : hist' = [hist EXCEPT ![m] =
                   Append(@, [tx |-> tx[t].id, data |-> tx[t].work[m].data])]
    BY <1>4 DEF Publish
  <2>2. hist \in [Names -> Seq(Version)]
    BY <1>0 DEF TypeInv, TypeOK
  <2>3. \A n \in Names : /\ Len(hist[n]) \in Nat /\ Len(hist'[n]) \in Nat
                         /\ Len(hist[n]) <= Len(hist'[n])
    <3> SUFFICES ASSUME NEW n \in Names
                 PROVE  /\ Len(hist[n]) \in Nat /\ Len(hist'[n]) \in Nat
                        /\ Len(hist[n]) <= Len(hist'[n])
      OBVIOUS
    <3>1. PICK h \in Seq(Version) : h = hist[n]
      BY <2>2
    <3>2. PICK v : v = [tx |-> tx[t].id, data |-> tx[t].work[m].data]
      OBVIOUS
    <3>3. hist'[n] = h \/ hist'[n] = Append(h, v)
      BY <2>1, <2>2, <3>1, <3>2
    <3>4. Len(h) \in Nat /\ Len(Append(h, v)) = Len(h) + 1
      BY <3>1
    <3> QED
      BY <3>1, <3>3, <3>4
  <2>4. CallStep(t) /\ pc[t] = "publish"
    BY <1>4 DEF CallStep, CommitStep, Publish
  <2>5. CASE pc'[t] = "publish"
    <3>1. doubt' = doubt
      <4>1. ~ AppendBatch(t) /\ ~ AppendFails(t)
        BY <2>4 DEF AppendBatch, AppendFails
      <4> QED
        BY <1>0, <2>4, <2>5, <4>1, DoubtKept
    <3> QED
      BY <1>0, <2>3, <3>1 DEF Kept, DoubtOK
  <2>6. CASE pc'[t] # "publish"
    <3>1. DOMAIN doubt' = {}
      BY <1>0, <1>4, <2>6, DoubtDone DEF NoDoubt
    <3>2. \A n \in Names : Kept'[n] = Len(hist'[n])
      BY <3>1 DEF Kept
    <3>3. BatchOK(t)
      BY <2>4 DEF CrashInv, StageOK
    <3>4. ASSUME NEW n \in Names
          PROVE  Kept[n] <= Len(hist[n])
      <4>1. CASE n \in DOMAIN doubt
        <5>1. /\ doubt[n].version \in Nat
              /\ \/ Len(hist[n]) = doubt[n].version - 1
                 \/ Len(hist[n]) = doubt[n].version
          BY <1>0, <3>3, <4>1 DEF BatchOK, DoubtOK
        <5> QED
          BY <4>1, <5>1 DEF Kept
      <4>2. CASE n \notin DOMAIN doubt
        BY <2>3, <4>2 DEF Kept
      <4> QED
        BY <4>1, <4>2
    <3>5. \A n \in Names : Kept[n] \in Nat
      BY <1>0
    <3> QED
      BY <2>3, <3>2, <3>4, <3>5
  <2> QED
    BY <2>5, <2>6
<1>5. ASSUME NEW t \in Threads, Application(t) \/ CallStep(t)
      PROVE  \A n \in Names : Kept[n] <= Kept'[n]
  <2>1. CASE AppendBatch(t) \/ AppendFails(t)
    BY <1>1, <1>3, <2>1
  <2>2. CASE Publish(t)
    BY <1>4, <2>2
  <2>3. CASE ~ (AppendBatch(t) \/ AppendFails(t) \/ Publish(t))
    <3>1. doubt' = doubt
      BY <1>0, <1>5, <2>3, DoubtKept
    <3>2. hist' = hist
      BY <1>0, <1>5, <2>3, IndexKept
    <3> QED
      BY <1>1, <3>1, <3>2, KeptSame
  <2> QED
    BY <2>1, <2>2, <2>3
<1> QED
  BY <1>2, <1>5 DEF Next

(* The bytes of the batch in doubt are bytes.                              *)
LEMMA DoubtTypedNext ==
    ASSUME TypeInv, DoubtTyped, Next, TrackDoubt
    PROVE  DoubtTyped'
<1>1. CASE Close
  <2>1. pc' = pc
    BY <1>1 DEF Close, control
  <2> QED
    BY <2>1, DoubtIdle DEF DoubtTyped
<1>2. ASSUME NEW t \in Threads, Application(t) \/ CallStep(t)
      PROVE  DoubtTyped'
  <2>1. CASE AppendBatch(t) \/ AppendFails(t)
    <3>1. doubt' = [n \in Dirty(tx[t].work) |->
                       [version |-> tx[t].work[n].expected + 1,
                        payload |-> tx[t].work[n].data]]
      BY <2>1, DoubtAppend
    <3>2. \A n \in Dirty(tx[t].work) : tx[t].work[n].data \in Bytes
      BY DEF TypeInv, TypeOK, Transaction, Work, Dirty
    <3> QED
      BY <3>1, <3>2 DEF DoubtTyped
  <2>2. CASE Publish(t) /\ pc'[t] # "publish"
    BY <2>2, DoubtDone DEF DoubtTyped, NoDoubt
  <2>3. CASE ~ (AppendBatch(t) \/ AppendFails(t)
                \/ (Publish(t) /\ pc'[t] # "publish"))
    BY <1>2, <2>3, DoubtKept DEF DoubtTyped
  <2> QED
    BY <2>1, <2>2, <2>3
<1> QED
  BY <1>1, <1>2 DEF Next

(* A step of the running heap.                                             *)
LEMMA AckRun ==
    ASSUME RecoveryInv, AckInv, Run
    PROVE  AckInv'
<1>1. /\ mode = "up" /\ mode' = "up" /\ crashes' = crashes
      /\ Next /\ Acknowledge /\ TrackDoubt
  BY DEF Run
<1>2. /\ TypeInv /\ MutexInv /\ DoubtTyped
      /\ \A t \in Threads : CommitOK(t)
      /\ acked \in [Names -> Nat]
      /\ \A n \in Names : acked[n] <= roots[n].version
  BY <1>1 DEF AckInv
<1>3. TypeInv' /\ MutexInv'
  BY <1>1, <1>2, TypeNext, MutexNext
<1>4. DoubtTyped' /\ \A t \in Threads : CommitOK(t)'
  BY <1>1, <1>2, DoubtTypedNext, CommitNext
<1>5. /\ \A n \in Names : roots[n].version <= roots'[n].version
      /\ \A n \in Names : roots[n].version \in Nat /\ roots'[n].version \in Nat
  BY <1>1, <1>2, <1>3, RootsAdvance DEF TypeInv, TypeOK, RootRecord
<1>6. acked' = [n \in Names |->
                  IF \E t \in Threads :
                         Returning(t) /\ n \in Dirty(tx[t].work)
                  THEN roots[n].version
                  ELSE acked[n]]
  BY <1>1 DEF Acknowledge
<1>7. \A n \in Names :
         \/ acked'[n] = acked[n]
         \/ acked'[n] = roots[n].version /\ \E t \in Threads : Returning(t)
  BY <1>6
<1>8. acked' \in [Names -> Nat]
  BY <1>2, <1>5, <1>6
<1>9. \A n \in Names : acked'[n] <= roots'[n].version
  BY <1>2, <1>5, <1>7
<1>10. ASSUME crashes = 0
       PROVE  \A n \in Names : acked'[n] <= Kept'[n]
  <2>1. HeapInv /\ CrashInv /\ \A n \in Names : acked[n] <= Kept[n]
    BY <1>10 DEF RecoveryInv, AckInv
  <2>2. HeapInv' /\ CrashInv'
    BY <1>1, <2>1, HeapNext, CrashNext
  <2>3. \A n \in Names : Kept[n] <= Kept'[n]
    BY <1>1, <2>1, KeptGrows
  <2>4. \A n \in Names : Kept[n] \in Nat
    BY <1>2, <2>1, KeptType DEF CrashInv
  <2>5. \A n \in Names : Kept'[n] \in Nat
    <3>1. \A n \in Names : Len(hist'[n]) \in Nat
      BY <1>3 DEF TypeInv, TypeOK
    <3>2. \A n \in DOMAIN doubt' : doubt'[n].version \in Nat \ {0}
      BY <2>2 DEF CrashInv, DoubtOK
    <3> QED
      BY <3>1, <3>2 DEF Kept
  <2>6. ASSUME NEW t \in Threads, Returning(t)
        PROVE  \A n \in Names : Kept[n] = roots[n].version
    <3>1. pc[t] \in {"threshold", "truncate", "sync_wal"}
      BY <1>1, <1>2, <2>6, ReturnsLocked
    <3>2. pc[t] \in HoldsCommitMutex /\ pc[t] \notin {"barrier", "publish"}
      BY <3>1 DEF HoldsCommitMutex
    <3> QED
      BY <2>1, <3>2, KeptIndex DEF CrashInv
  <2>7. \A n \in Names : acked'[n] <= Kept[n]
    BY <1>5, <1>7, <2>1, <2>6
  <2>8. \A n \in Names : acked'[n] \in Nat
    BY <1>8
  <2> QED
    BY <2>3, <2>4, <2>5, <2>7, <2>8
<1> QED
  BY <1>1, <1>3, <1>4, <1>8, <1>9, <1>10 DEF AckInv

(* The crash.                                                              *)
LEMMA AckDown ==
    ASSUME OneCrash, RecoveryInv, AckInv, ProcessCrash \/ PowerLoss
    PROVE  AckInv'
<1>1. crashes < MaxCrashes /\ Down
  BY DEF ProcessCrash, PowerLoss
<1>2. crashes = 0
  BY <1>1, RecoveryAssumption DEF OneCrash, RecoveryInv
<1>3. HeapInv /\ CrashInv /\ TypeInv
  BY <1>2 DEF RecoveryInv, AckInv
<1>4. DownInv'
  <2>1. PowerLoss => Strict
    BY DEF PowerLoss, OneCrash
  <2> QED
    BY <1>3, <2>1, ProcessDies, PowerFails
<1>5. /\ mode' = "down" /\ doubt' = doubt /\ acked' = acked
      /\ pc' = [t \in Threads |-> "idle"] /\ mutex' = NoThread
  BY <1>1 DEF Down
<1>6. Kept' = Kept
  BY <1>1, <1>3, DownKeeps
<1>7. TypeInv'
  <2>1. wal' \in Seq(Record) /\ snap' \in File /\ hist' \in [Names -> Seq(Version)]
    BY <1>4 DEF DownInv, Recoverable, LogOK
  <2>2. walDisk' \in Seq(Record) /\ snapDisk' \in File /\ tmp' \in File
    BY <1>3, <2>1, Initials DEF ProcessCrash, PowerLoss, TypeInv, TypeOK
  <2>3. /\ roots' \in [Names -> RootRecord] /\ cache' \in [Names -> Entry]
        /\ lastSeq' \in Nat /\ nextTx' \in Nat
        /\ poisoned' \in BOOLEAN /\ closed' \in BOOLEAN
    BY <1>1, Initials DEF Down
  <2>4. /\ mutex' \in Threads \cup {NoThread} /\ pc' \in [Threads -> Labels]
        /\ call' \in [Threads -> Call] /\ tx' \in [Threads -> Transaction]
    BY <1>1, Initials DEF Down, Labels
  <2>5. TypeOK'
    BY <2>1, <2>2, <2>3, <2>4 DEF TypeOK
  <2>6. CallOK'
    BY <1>5 DEF CallOK
  <2> QED
    BY <2>5, <2>6 DEF TypeInv
<1>8. MutexInv' /\ \A t \in Threads : CommitOK(t)'
  BY <1>5, HeapAssumption DEF MutexInv, HoldsCommitMutex, CommitOK
<1> QED
  BY <1>2, <1>5, <1>6, <1>7, <1>8 DEF AckInv, DoubtTyped

(* The steps of a recovery.                                                *)
LEMMA AckRecover ==
    ASSUME RecoveryInv, AckInv, Open \/ Scan \/ CutTornTail \/ FlushCut,
           mode' # "up"
    PROVE  AckInv'
<1>1. /\ UNCHANGED <<index, flags, control, tx, hist, acked, doubt>>
      /\ UNCHANGED <<snap, snapDisk, tmp>> /\ mode # "up"
  BY DEF Open, Scan, CutTornTail, FlushCut, vars, storage
<1>2. UNCHANGED <<roots, lastSeq, cache, poisoned, closed, nextTx, mutex, pc,
                  call, tx, hist>>
  BY <1>1 DEF index, flags, control
<1>3. TypeInv
  BY DEF AckInv
<1>4. wal' \in Seq(Record) /\ walDisk' \in Seq(Record)
  <2>1. wal \in Seq(Record) /\ walDisk \in Seq(Record)
    BY <1>3 DEF TypeInv, TypeOK
  <2>2. CASE CutTornTail
    <3>1. mode = "scan" /\ scan.pos <= Len(wal) /\ walDisk' = walDisk
          /\ wal' = SubSeq(wal, 1, scan.pos - 1)
      BY <2>2 DEF CutTornTail
    <3>2. scan.pos \in 1 .. Len(wal) + 1
      BY <3>1 DEF RecoveryInv, ScanOK
    <3>3. PICK k \in 0 .. Len(wal) : k = scan.pos - 1
      BY <2>1, <3>1, <3>2
    <3>4. SubSeq(wal, 1, k) \in Seq(Record)
      BY <2>1, SubSeqProperties
    <3> QED
      BY <2>1, <3>1, <3>3, <3>4
  <2>3. CASE Open \/ Scan \/ FlushCut
    BY <2>1, <2>3 DEF Open, Scan, FlushCut, vars, storage
  <2> QED
    BY <2>2, <2>3
<1>5. TypeInv'
  BY <1>1, <1>2, <1>3, <1>4 DEF TypeInv, TypeOK, CallOK
<1>6. Kept' = Kept
  BY <1>1, KeptSame
<1> QED
  BY <1>1, <1>2, <1>5, <1>6 DEF AckInv, MutexInv, DoubtTyped, CommitOK

(* The constructor returns: the heap goes on from what the scan found.     *)
LEMMA AckOpened ==
    ASSUME RecoveryInv, AckInv, Opened
    PROVE  AckInv'
<1>1. /\ mode = "scan" /\ mode' = "up" /\ crashes' = crashes
      /\ roots' = scan.roots /\ lastSeq' = scan.last /\ doubt' = NoDoubt
      /\ acked' = acked
      /\ UNCHANGED <<wal, walDisk, snap, snapDisk, tmp, cache, poisoned,
                     closed, nextTx, mutex, pc, call, tx>>
  BY DEF Opened, storage, flags, control
<1>2. /\ DownInv /\ ScanOK(scan, wal, snap.index) /\ crashes # 0
      /\ TypeInv /\ MutexInv /\ DoubtTyped
  BY <1>1 DEF RecoveryInv, AckInv
<1>3. scan.roots \in [Names -> RootRecord] /\ scan.last \in Nat
  BY <1>2 DEF ScanOK, ScanType
<1>4. /\ \A n \in Names : Kept[n] = Len(hist[n]) /\ Len(hist[n]) \in Nat
      /\ \A n \in Names : \/ scan.roots[n].version = Len(hist[n])
                          \/ scan.roots[n].version = Len(hist[n]) + 1
  BY OpenedVersions
<1>5. hist' \in [Names -> Seq(Version)]
  <2>1. hist' = [n \in Names |->
                   IF scan.roots[n].version > Len(hist[n])
                   THEN Append(hist[n], [tx |-> 0, data |->
                          IF n \in DOMAIN doubt THEN doubt[n].payload
                                                ELSE << >>])
                   ELSE SubSeq(hist[n], 1, scan.roots[n].version)]
    BY DEF Opened
  <2>2. ASSUME NEW n \in Names
        PROVE  hist'[n] \in Seq(Version)
    <3>1. PICK h \in Seq(Version) : h = hist[n]
      BY <1>2 DEF TypeInv, TypeOK
    <3>2. CASE scan.roots[n].version > Len(hist[n])
      <4>1. PICK bytes : bytes = IF n \in DOMAIN doubt THEN doubt[n].payload
                                                       ELSE << >>
        OBVIOUS
      <4>2. bytes \in Bytes
        BY <1>2, <4>1 DEF DoubtTyped, Bytes
      <4>3. [tx |-> 0, data |-> bytes] \in Version
        BY <4>2 DEF Version
      <4>4. hist'[n] = Append(h, [tx |-> 0, data |-> bytes])
        BY <2>1, <3>1, <3>2, <4>1
      <4> QED
        BY <3>1, <4>3, <4>4
    <3>3. CASE ~ (scan.roots[n].version > Len(hist[n]))
      <4>1. scan.roots[n].version = Len(h)
        BY <1>4, <3>1, <3>3
      <4>2. hist'[n] = SubSeq(h, 1, Len(h))
        BY <2>1, <3>1, <3>3, <4>1
      <4>3. SubSeq(h, 1, Len(h)) \in Seq(Version)
        BY <3>1, SubSeqProperties
      <4> QED
        BY <4>2, <4>3
    <3> QED
      BY <3>2, <3>3
  <2>3. PICK h : h = hist'
    OBVIOUS
  <2>4. h = [n \in Names |-> h[n]] /\ \A n \in Names : h[n] \in Seq(Version)
    BY <2>1, <2>2, <2>3
  <2>5. h \in [Names -> Seq(Version)]
    BY <2>4
  <2> QED
    BY <2>3, <2>5
<1>6. TypeInv'
  <2>1. TypeOK'
    BY <1>1, <1>2, <1>3, <1>5 DEF TypeInv, TypeOK
  <2>2. CallOK'
    BY <1>1, <1>2 DEF TypeInv, CallOK
  <2> QED
    BY <2>1, <2>2 DEF TypeInv
<1>7. \A t \in Threads : pc'[t] = "idle"
  BY <1>1 DEF AckInv
<1>8. \A t \in Threads : CommitOK(t)'
  BY <1>7 DEF CommitOK
<1>9. MutexInv' /\ DoubtTyped'
  BY <1>1, <1>2 DEF MutexInv, DoubtTyped, NoDoubt
<1>10. acked \in [Names -> Nat] /\ \A n \in Names : acked[n] <= Kept[n]
  BY <1>1 DEF AckInv
<1>11. \A n \in Names : acked'[n] <= roots'[n].version
  BY <1>1, <1>4, <1>10
<1> QED
  BY <1>1, <1>2, <1>6, <1>8, <1>9, <1>10, <1>11 DEF AckInv

(* Every step preserves it.                                                *)
LEMMA AckNext ==
    ASSUME OneCrash, RecoveryInv, AckInv, [RNext]_rvars
    PROVE  AckInv'
<1>1. CASE UNCHANGED rvars
  <2>1. UNCHANGED <<mode, crashes, acked, doubt, vars>>
    BY <1>1 DEF rvars
  <2>2. TypeInv' /\ MutexInv'
    BY <2>1, TypeNext, MutexNext DEF AckInv
  <2>3. UNCHANGED <<roots, pc, call, tx, hist>>
    BY <2>1 DEF vars, index, control
  <2>4. Kept' = Kept
    BY <2>1, <2>3, KeptSame
  <2> QED
    BY <2>1, <2>2, <2>3, <2>4 DEF AckInv, DoubtTyped, CommitOK
<1>2. CASE Open \/ Scan \/ CutTornTail \/ FlushCut
  <2>1. mode' # "up"
    BY <1>2 DEF Open, Scan, CutTornTail, FlushCut
  <2> QED
    BY <1>2, <2>1, AckRecover
<1> QED
  BY <1>1, <1>2, AckRun, AckDown, AckOpened DEF RNext

(* A fresh heap has acknowledged nothing.                                  *)
LEMMA AckInit == RInit => AckInv
<1> SUFFICES ASSUME RInit PROVE AckInv
  OBVIOUS
<1>1. /\ Init /\ doubt = NoDoubt /\ mode = "up"
      /\ acked = [n \in Names |-> 0]
  BY DEF RInit
<1>2. TypeInv /\ MutexInv
  BY <1>1, TypeInit, MutexInit
<1>3. /\ \A t \in Threads : pc[t] = "idle"
      /\ \A n \in Names : roots[n].version = 0 /\ Len(hist[n]) = 0
  BY <1>1 DEF Init, NoRoots, NoRoot
<1>4. DoubtTyped /\ \A n \in Names : Kept[n] = 0
  BY <1>1, <1>3 DEF NoDoubt, DoubtTyped, Kept
<1> QED
  BY <1>1, <1>2, <1>3, <1>4 DEF AckInv, CommitOK

(* Whatever the one crash interrupts, every version whose commit() has     *)
(* returned is in the index after the restart and from then on.            *)
THEOREM AcknowledgedSurvives == ASSUME OneCrash PROVE RSpec => []AckedDurable
<1>1. RInit => AckInv
  BY AckInit
<1>2. RecoveryInv /\ AckInv /\ [RNext]_rvars => AckInv'
  BY AckNext
<1>3. AckInv => AckedDurable
  BY DEF AckInv, AckedDurable
<1> QED
  BY <1>1, <1>2, <1>3, RecoveryInvariant, PTL DEF RSpec
-----------------------------------------------------------------------------
(* The bytes.  Every version of root n that a crash keeps, or that is in   *)
(* doubt, with its content.                                                *)
Content(n) ==
    {<<v, hist[n][v].data>> : v \in 1 .. Kept[n]} \cup
    {<<doubt[m].version, doubt[m].payload>> : m \in {n} \cap DOMAIN doubt}
Contents == [n \in Names |-> Content(n)]

(* A journal whose committed updates, and a snapshot whose payloads, are   *)
(* known contents.                                                         *)
JournalTrue(log, known) ==
    \A c \in 1 .. Len(log) : log[c].type = "commit" =>
        \A j \in 1 .. c - 1 : log[j].type = "root_update" =>
            <<log[j].version, log[j].payload>> \in known[log[j].name]
EntryTrue(file, entry, contents) ==
    entry.version > 0 =>
        /\ entry.payload.kind = "snapshot"
        /\ entry.payload.size = Len(entry.payload.sum)
        /\ FileHolds(file, entry.payload)
        /\ <<entry.version, entry.payload.sum>> \in contents
FileTrue(file, known) ==
    \A n \in Names : EntryTrue(file, file.index[n], known[n])

(* What is known stays known.                                              *)
Learned(known, more) == \A n \in Names : known[n] \subseteq more[n]

LEMMA JournalStays ==
    ASSUME NEW log \in Seq(Record), NEW known, NEW more,
           JournalTrue(log, known), Learned(known, more)
    PROVE  JournalTrue(log, more)
<1> SUFFICES ASSUME NEW c \in 1 .. Len(log), log[c].type = "commit",
                    NEW j \in 1 .. c - 1, log[j].type = "root_update"
             PROVE  <<log[j].version, log[j].payload>> \in more[log[j].name]
  BY DEF JournalTrue
<1>1. log[j] \in Record
  OBVIOUS
<1>2. log[j].name \in Names
  BY <1>1, RecordKind
<1>3. <<log[j].version, log[j].payload>> \in known[log[j].name]
  BY DEF JournalTrue
<1> QED
  BY <1>2, <1>3 DEF Learned

LEMMA FileStays ==
    ASSUME NEW file, NEW known, NEW more,
           FileTrue(file, known), Learned(known, more)
    PROVE  FileTrue(file, more)
  BY DEF FileTrue, EntryTrue, Learned

(* The beginning of a journal, and an incomplete record behind it.         *)
LEMMA JournalPart ==
    ASSUME NEW part, NEW log, NEW known, Part(part, log),
           JournalTrue(log, known)
    PROVE  JournalTrue(part, known)
<1> SUFFICES ASSUME NEW c \in 1 .. Len(part), part[c].type = "commit",
                    NEW j \in 1 .. c - 1, part[j].type = "root_update"
             PROVE  <<part[j].version, part[j].payload>>
                        \in known[part[j].name]
  BY DEF JournalTrue
<1>1. /\ part[c] = log[c] /\ c \in 1 .. Len(log)
      /\ part[j] = log[j]
  BY DEF Part
<1> QED
  BY <1>1 DEF JournalTrue

(* Records behind a journal of which none is a COMMIT.                     *)
LEMMA JournalOpen ==
    ASSUME NEW part, NEW log, NEW known, Part(part, log),
           \A i \in Len(part) + 1 .. Len(log) : log[i].type # "commit",
           JournalTrue(part, known)
    PROVE  JournalTrue(log, known)
<1> SUFFICES ASSUME NEW c \in 1 .. Len(log), log[c].type = "commit",
                    NEW j \in 1 .. c - 1, log[j].type = "root_update"
             PROVE  <<log[j].version, log[j].payload>> \in known[log[j].name]
  BY DEF JournalTrue
<1>1. /\ Len(part) \in Nat /\ Len(log) \in Nat
      /\ \A i \in 1 .. Len(part) : part[i] = log[i]
  BY DEF Part
<1>2. c \in 1 .. Len(part) /\ j \in 1 .. Len(part)
  BY <1>1
<1>3. part[c].type = "commit" /\ part[j] = log[j]
  BY <1>1, <1>2
<1> QED
  BY <1>2, <1>3 DEF JournalTrue

LEMMA JournalTorn ==
    ASSUME NEW log \in Seq(Record), NEW known, JournalTrue(log, known)
    PROVE  JournalTrue(Append(log, Torn), known)
<1>1. PICK more : more = Append(log, Torn)
  OBVIOUS
<1>2. Torn \in Record /\ Torn.type # "commit"
  BY DEF Record, Torn
<1>3. /\ more \in Seq(Record) /\ Len(log) \in Nat
      /\ Len(more) = Len(log) + 1 /\ more[Len(log) + 1] = Torn
      /\ \A i \in 1 .. Len(log) : more[i] = log[i]
  BY <1>1, <1>2
<1>4. Part(log, more)
  BY <1>3 DEF Part
<1>5. \A i \in Len(log) + 1 .. Len(more) : more[i].type # "commit"
  BY <1>2, <1>3
<1> QED
  BY <1>1, <1>4, <1>5, JournalOpen

(* A part of a batch has no COMMIT.                                        *)
LEMMA JournalPartial ==
    ASSUME NEW log \in Seq(Record), NEW known, JournalTrue(log, known),
           NEW id \in Nat, NEW seq \in Nat, NEW work \in [Names -> Work],
           NEW order \in CommitOrder(work),
           NEW part \in PartialBatches(Batch(id, seq, order, work))
    PROVE  JournalTrue(log \o part, known)
<1> DEFINE b == Batch(id, seq, order, work)
           k == Len(order)
<1>1. order \in Seq(Names)
  BY OrderType
<1>2. b \in Seq(Record) /\ Len(b) = k + 2 /\ k \in Nat
  BY <1>1, BatchType
<1>3. b[1].type # "commit" /\ \A i \in 2 .. k + 1 : b[i].type # "commit"
  BY <1>1, BatchShape
<1>4. part \in PartialBatches(b)
  OBVIOUS
<1> HIDE DEF b, k
<1>5. PICK m \in 0 .. k + 1 : \/ part = SubSeq(b, 1, m)
                              \/ part = Append(SubSeq(b, 1, m), Torn)
  <2>1. Len(b) - 1 = k + 1
    BY <1>2
  <2> QED
    BY <1>4, <2>1 DEF PartialBatches
<1>6. PICK head : head = SubSeq(b, 1, m)
  OBVIOUS
<1>7. /\ head \in Seq(Record) /\ Len(head) = m
      /\ \A i \in 1 .. m : head[i] = b[i]
  BY <1>2, <1>5, <1>6
<1> DEFINE cut == log \o head
<1>8. cut = log \o head
  OBVIOUS
<1>9. /\ cut \in Seq(Record) /\ Len(log) \in Nat /\ Len(cut) = Len(log) + m
      /\ \A i \in 1 .. Len(log) : cut[i] = log[i]
      /\ \A i \in Len(log) + 1 .. Len(log) + m :
            cut[i] = head[i - Len(log)]
  BY <1>7
<1> HIDE DEF cut
<1>10. ASSUME NEW i \in Len(log) + 1 .. Len(cut)
       PROVE  cut[i].type # "commit"
  <2>0. i - Len(log) \in 1 .. m
    BY <1>2, <1>5, <1>9
  <2>1. PICK j \in 1 .. m : j = i - Len(log)
    BY <2>0
  <2>2. j = 1 \/ j \in 2 .. k + 1
    BY <1>2, <1>5, <2>1
  <2>3. i \in Len(log) + 1 .. Len(log) + m
    BY <1>9
  <2>4. cut[i] = head[j]
    BY <1>9, <2>1, <2>3
  <2>5. cut[i] = b[j]
    BY <1>7, <2>1, <2>4
  <2> QED
    BY <1>3, <2>2, <2>5
<1>11. Part(log, cut)
  BY <1>5, <1>9 DEF Part
<1>12. JournalTrue(cut, known)
  BY <1>10, <1>11, JournalOpen
<1>13. CASE part = head
  BY <1>8, <1>12, <1>13
<1>14. CASE part = Append(head, Torn)
  <2>1. Torn \in Record
    BY DEF Record
  <2>2. log \o part = Append(cut, Torn)
    BY <1>7, <1>8, <1>14, <2>1
  <2> QED
    BY <1>9, <1>12, <2>2, JournalTorn
<1> QED
  BY <1>5, <1>6, <1>13, <1>14

(* A whole batch whose updates are known, behind whole batches.            *)
LEMMA JournalBatch ==
    ASSUME NEW log \in Seq(Record), WholeBatches(log), NEW known,
           JournalTrue(log, known),
           NEW id \in Nat, NEW seq \in Nat, NEW work \in [Names -> Work],
           NEW order \in CommitOrder(work),
           \A n \in Dirty(work) :
               <<work[n].expected + 1, work[n].data>> \in known[n]
    PROVE  JournalTrue(log \o Batch(id, seq, order, work), known)
<1> DEFINE b == Batch(id, seq, order, work)
           more == log \o b
           k == Len(order)
           l == Len(log)
<1>1. /\ order \in Seq(Names)
      /\ \A i \in 1 .. k : order[i] \in Dirty(work)
  <2>1. order \in Seq(Names)
    BY OrderType
  <2>2. k \in Nat /\ DOMAIN order = 1 .. k
    BY <2>1
  <2> QED
    BY <2>1, <2>2 DEF CommitOrder
<1>2. /\ k \in Nat /\ l \in Nat /\ more \in Seq(Record)
      /\ Len(more) = l + k + 2
      /\ \A i \in 1 .. l : more[i] = log[i]
      /\ \A i \in l + 1 .. l + k + 2 : more[i] = b[i - l]
      /\ Part(log, more)
  BY <1>1, BatchPlaces
<1>3. /\ b[1].type = "begin" /\ b[k + 2].type = "commit"
      /\ \A i \in 2 .. k + 1 :
            /\ b[i].name = order[i - 1]
            /\ b[i].version = work[order[i - 1]].expected + 1
            /\ b[i].payload = work[order[i - 1]].data
  <2>1. /\ b[1].type = "begin" /\ b[k + 2].type = "commit"
        /\ \A i \in 2 .. k + 1 :
              /\ b[i].name = order[i - 1]
              /\ b[i].version = work[order[i - 1]].expected + 1
    BY <1>1, BatchShape
  <2>2. \A i \in 2 .. k + 1 : b[i].payload = work[order[i - 1]].data
    BY <1>2 DEF Batch
  <2> QED
    BY <2>1, <2>2
<1>0. l = Len(log)
  OBVIOUS
<1> HIDE DEF b, more, k, l
<1> SUFFICES ASSUME NEW c \in 1 .. Len(more), more[c].type = "commit",
                    NEW j \in 1 .. c - 1, more[j].type = "root_update"
             PROVE  <<more[j].version, more[j].payload>>
                        \in known[more[j].name]
  BY DEF JournalTrue, more, b
<1>4. CASE j \in 1 .. l
  <2>1. more[j] = log[j] /\ log # << >>
    BY <1>0, <1>2, <1>4
  <2>2. log[l].type = "commit" /\ l \in 1 .. l
    BY <1>0, <1>2, <1>4, <2>1 DEF WholeBatches
  <2>3. j \in 1 .. l - 1
    BY <1>2, <1>4, <2>1, <2>2
  <2> QED
    BY <1>0, <2>1, <2>2, <2>3 DEF JournalTrue
<1>5. CASE j \notin 1 .. l
  <2>1. j \in l + 1 .. l + k + 2
    BY <1>2, <1>5
  <2>2. PICK i \in 1 .. k + 2 : i = j - l /\ more[j] = b[i]
    BY <1>2, <2>1
  <2>3. i \in 2 .. k + 1
    BY <1>2, <1>3, <2>2
  <2>4. PICK n : n = order[i - 1] /\ i - 1 \in 1 .. k
    BY <1>2, <2>3
  <2>5. n \in Dirty(work)
    BY <1>1, <2>4
  <2>6. /\ more[j].name = n /\ more[j].version = work[n].expected + 1
        /\ more[j].payload = work[n].data
    BY <1>3, <2>2, <2>3, <2>4
  <2> QED
    BY <2>5, <2>6
<1> QED
  BY <1>4, <1>5

-----------------------------------------------------------------------------
(* A running heap.  The batch in doubt has the bytes of the transaction    *)
(* that writes it, and so have its versions that are already published.    *)
DoubtHeld ==
    \A n \in DOMAIN doubt :
        Len(hist[n]) = doubt[n].version =>
            hist[n][doubt[n].version].data = doubt[n].payload
DoubtIs(t) ==
    pc[t] \in {"barrier", "publish"} =>
        \A n \in DOMAIN doubt : doubt[n].payload = tx[t].work[n].data
SavingTrue(t) == pc[t] \in {"flush_tmp", "replace"} => FileTrue(tmp, Contents)

BytesInv ==
    /\ JournalTrue(wal, Contents) /\ JournalTrue(walDisk, Contents)
    /\ FileTrue(snap, Contents) /\ FileTrue(snapDisk, Contents)
    /\ DoubtHeld
    /\ \A t \in Threads : DoubtIs(t) /\ SavingTrue(t)

LEMMA ContentsSame ==
    ASSUME hist' = hist, doubt' = doubt
    PROVE  Contents' = Contents
  BY KeptSame DEF Contents, Content

(* A step that keeps the kept versions, and keeps the batch in doubt or    *)
(* publishes it, forgets nothing.                                          *)
LEMMA LearnsFrom ==
    ASSUME \A n \in Names : \A v \in 1 .. Kept[n] :
               v \in 1 .. Kept'[n] /\ hist'[n][v] = hist[n][v],
           \A n \in Names \cap DOMAIN doubt :
               \/ n \in DOMAIN doubt' /\ doubt'[n] = doubt[n]
               \/ /\ doubt[n].version \in 1 .. Kept'[n]
                  /\ hist'[n][doubt[n].version].data = doubt[n].payload
    PROVE  Learned(Contents, Contents')
<1> SUFFICES ASSUME NEW n \in Names, NEW x \in Content(n)
             PROVE  x \in Content(n)'
  BY DEF Learned, Contents
<1>1. CASE \E v \in 1 .. Kept[n] : x = <<v, hist[n][v].data>>
  <2>1. PICK v \in 1 .. Kept[n] : x = <<v, hist[n][v].data>>
    BY <1>1
  <2>2. v \in 1 .. Kept'[n] /\ x = <<v, hist'[n][v].data>>
    BY <2>1
  <2> QED
    BY <2>2 DEF Content
<1>2. CASE n \in DOMAIN doubt /\ x = <<doubt[n].version, doubt[n].payload>>
  <2>1. CASE n \in DOMAIN doubt' /\ doubt'[n] = doubt[n]
    BY <1>2, <2>1 DEF Content
  <2>2. CASE /\ doubt[n].version \in 1 .. Kept'[n]
             /\ hist'[n][doubt[n].version].data = doubt[n].payload
    <3>1. PICK v \in 1 .. Kept'[n] : v = doubt[n].version
      BY <2>2
    <3>2. x = <<v, hist'[n][v].data>>
      BY <1>2, <2>2, <3>1
    <3> QED
      BY <3>2 DEF Content
  <2> QED
    BY <1>2, <2>1, <2>2
<1> QED
  BY <1>1, <1>2 DEF Content

(* What is kept has been published.                                        *)
LEMMA KeptWithin ==
    ASSUME HeapInv, CrashInv, NEW n \in Names
    PROVE  Kept[n] \in Nat /\ Len(hist[n]) \in Nat /\ Kept[n] <= Len(hist[n])
<1>0. TypeInv /\ DoubtOK
  BY DEF HeapInv, SafeInv, CrashInv
<1>1. Kept[n] \in Nat /\ Len(hist[n]) \in Nat
  BY <1>0, KeptType DEF TypeInv, TypeOK
<1>2. CASE n \notin DOMAIN doubt
  BY <1>1, <1>2 DEF Kept
<1>3. CASE n \in DOMAIN doubt
  <2>1. Kept[n] = doubt[n].version - 1 /\ doubt[n].version \in Nat
    BY <1>0, <1>3 DEF Kept, DoubtOK
  <2>2. \/ Len(hist[n]) = doubt[n].version - 1
        \/ Len(hist[n]) = doubt[n].version
        \/ doubt[n].version = Len(hist[n]) + 1
    <3>1. CASE poisoned
      BY <1>0, <1>3, <3>1 DEF DoubtOK
    <3>2. CASE ~ poisoned
      <4>1. PICK t \in Threads : pc[t] \in {"barrier", "publish"}
        BY <1>0, <1>3, <3>2 DEF DoubtOK
      <4>2. BatchOK(t)
        BY <4>1 DEF CrashInv, StageOK
      <4> QED
        BY <1>3, <4>2 DEF BatchOK
    <3> QED
      BY <3>1, <3>2
  <2> QED
    BY <1>1, <2>1, <2>2
<1> QED
  BY <1>1, <1>2, <1>3

(* Publish: the next root of the batch gets the bytes that are in doubt.   *)
LEMMA PublishBytes ==
    ASSUME HeapInv, CrashInv, NEW t \in Threads, Publish(t), DoubtHeld,
           DoubtIs(t)
    PROVE  /\ \A n \in Names : \A v \in 1 .. Len(hist[n]) :
                  v \in 1 .. Len(hist'[n]) /\ hist'[n][v] = hist[n][v]
           /\ \A n \in DOMAIN doubt :
                  Len(hist'[n]) = doubt[n].version =>
                      hist'[n][doubt[n].version].data = doubt[n].payload
           /\ pc'[t] # "publish" =>
                  \A n \in DOMAIN doubt : Len(hist'[n]) = doubt[n].version
<1>0. TypeInv
  BY DEF HeapInv, SafeInv
<1>1. PICK m, w :
        /\ m = Head(call[t].todo).name
        /\ w = [tx |-> tx[t].id, data |-> tx[t].work[m].data]
  OBVIOUS
<1>2. /\ pc[t] = "publish"
      /\ hist' = [hist EXCEPT ![m] = Append(@, w)]
      /\ pc'[t] = IF Len(call[t].todo) = 1 THEN "threshold" ELSE "publish"
  BY <1>0, <1>1 DEF Publish, Goto, TypeInv, TypeOK
<1>3. call[t].todo \in Seq(Update) /\ call[t].todo # << >>
  BY <1>0, <1>2 DEF TypeInv, TypeOK, CallOK, Call
<1>4. PICK todo \in Seq(Update) : todo = call[t].todo
  BY <1>3
<1>5. Len(todo) \in Nat \ {0} /\ Head(todo) = todo[1]
  BY <1>3, <1>4
<1>6. /\ m \in Todo(t)
      /\ Len(todo) = 1 => \A n \in Todo(t) : n = m
  BY <1>1, <1>4, <1>5 DEF Todo
<1>7. /\ Todo(t) \subseteq DOMAIN doubt /\ DOMAIN doubt \subseteq Names
      /\ \A n \in DOMAIN doubt :
            /\ doubt[n].version \in Nat
            /\ n \in Todo(t) => Len(hist[n]) = doubt[n].version - 1
            /\ n \notin Todo(t) => Len(hist[n]) = doubt[n].version
  BY <1>2 DEF CrashInv, StageOK, BatchOK, DoubtOK
<1>8. m \in DOMAIN doubt /\ m \in Names /\ w.data = doubt[m].payload
  BY <1>1, <1>2, <1>6, <1>7 DEF DoubtIs
<1>9. hist \in [Names -> Seq(Version)]
  BY <1>0 DEF TypeInv, TypeOK
<1>10. PICK h \in Seq(Version) : h = hist[m]
  BY <1>8, <1>9
<1>11. /\ hist'[m] = Append(h, w)
       /\ \A n \in Names \ {m} : hist'[n] = hist[n]
  BY <1>2, <1>8, <1>9, <1>10
<1>12. /\ Len(h) \in Nat /\ Len(Append(h, w)) = Len(h) + 1
       /\ Append(h, w)[Len(h) + 1] = w
       /\ \A v \in 1 .. Len(h) : Append(h, w)[v] = h[v]
  BY <1>10
<1>13. Len(h) = doubt[m].version - 1
  BY <1>6, <1>7, <1>8, <1>10
<1>14. ASSUME NEW n \in Names, NEW v \in 1 .. Len(hist[n])
       PROVE  v \in 1 .. Len(hist'[n]) /\ hist'[n][v] = hist[n][v]
  BY <1>10, <1>11, <1>12
<1>15. ASSUME NEW n \in DOMAIN doubt, Len(hist'[n]) = doubt[n].version
       PROVE  hist'[n][doubt[n].version].data = doubt[n].payload
  <2>1. CASE n = m
    <3>1. doubt[n].version = Len(h) + 1
      BY <1>7, <1>12, <1>13, <2>1
    <3> QED
      BY <1>8, <1>11, <1>12, <2>1, <3>1
  <2>2. CASE n # m
    BY <1>7, <1>11, <1>15, <2>2 DEF DoubtHeld
  <2> QED
    BY <2>1, <2>2
<1>16. ASSUME pc'[t] # "publish", NEW n \in DOMAIN doubt
       PROVE  Len(hist'[n]) = doubt[n].version
  <2>1. Len(todo) = 1
    BY <1>2, <1>4, <1>16
  <2>2. CASE n = m
    BY <1>7, <1>11, <1>12, <1>13, <2>2
  <2>3. CASE n # m
    BY <1>6, <1>7, <1>11, <2>1, <2>3
  <2> QED
    BY <2>2, <2>3
<1> QED
  BY <1>14, <1>15, <1>16

(* No step of a running heap forgets a content.                            *)
LEMMA LearnsNext ==
    ASSUME HeapInv, CrashInv, BytesInv, Next, TrackDoubt
    PROVE  Learned(Contents, Contents') /\ DoubtHeld'
<1>0. TypeInv /\ DoubtOK /\ DoubtHeld
  BY DEF HeapInv, SafeInv, CrashInv, BytesInv
<1>1. ASSUME hist' = hist, doubt' = doubt
      PROVE  Learned(Contents, Contents') /\ DoubtHeld'
  <2>1. Contents' = Contents
    BY <1>1, ContentsSame
  <2> QED
    BY <1>0, <1>1, <2>1 DEF Learned, DoubtHeld
<1>2. CASE Close
  <2>1. hist' = hist /\ pc' = pc
    BY <1>2 DEF Close, control
  <2> QED
    BY <1>1, <2>1, DoubtIdle
<1>3. ASSUME NEW t \in Threads, AppendBatch(t) \/ AppendFails(t)
      PROVE  Learned(Contents, Contents') /\ DoubtHeld'
  <2>1. PICK order \in CommitOrder(tx[t].work) : TRUE
    BY <1>3 DEF AppendBatch, AppendFails
  <2>2. /\ Kept' = Kept /\ hist' = hist
        /\ DOMAIN doubt' = Dirty(tx[t].work)
        /\ \A n \in Dirty(tx[t].work) : doubt'[n].version = Len(hist[n]) + 1
    BY <1>3, <2>1, KeptAppend DEF AppendBatch, AppendFails
  <2>3. DOMAIN doubt = {}
    <3>1. snap \in Files /\ pc[t] = "append"
      BY <1>3 DEF Files, AppendBatch, AppendFails
    <3> QED
      BY <2>1, <3>1, BeforeAppend
  <2>4. Learned(Contents, Contents')
    BY <2>2, <2>3, LearnsFrom
  <2>5. \A n \in Names : Len(hist[n]) \in Nat
    BY <1>0 DEF TypeInv, TypeOK
  <2>6. DoubtHeld'
    BY <2>2, <2>5 DEF DoubtHeld, Dirty
  <2> QED
    BY <2>4, <2>6
<1>4. ASSUME NEW t \in Threads, Publish(t)
      PROVE  Learned(Contents, Contents') /\ DoubtHeld'
  <2>1. /\ \A n \in Names : \A v \in 1 .. Len(hist[n]) :
              v \in 1 .. Len(hist'[n]) /\ hist'[n][v] = hist[n][v]
        /\ \A n \in DOMAIN doubt :
              Len(hist'[n]) = doubt[n].version =>
                  hist'[n][doubt[n].version].data = doubt[n].payload
        /\ pc'[t] # "publish" =>
              \A n \in DOMAIN doubt : Len(hist'[n]) = doubt[n].version
    BY <1>0, <1>4, PublishBytes DEF BytesInv
  <2>2. \A n \in Names : Kept[n] <= Kept'[n]
    BY KeptGrows
  <2>3. TypeInv' /\ CrashInv' /\ HeapInv'
    BY CrashNext, HeapNext DEF HeapInv, SafeInv
  <2>4. \A n \in Names : Kept'[n] \in Nat /\ Len(hist'[n]) \in Nat
    <3>1. \A n \in Names : Len(hist'[n]) \in Nat
      BY <2>3 DEF TypeInv, TypeOK
    <3>2. \A n \in DOMAIN doubt' : doubt'[n].version \in Nat \ {0}
      BY <2>3 DEF CrashInv, DoubtOK
    <3> QED
      BY <3>1, <3>2 DEF Kept
  <2>5. \A n \in Names : \A v \in 1 .. Kept[n] :
           v \in 1 .. Kept'[n] /\ hist'[n][v] = hist[n][v]
    BY <2>1, <2>2, <2>4, KeptWithin
  <2>6. CallStep(t) /\ pc[t] = "publish"
    BY <1>4 DEF CallStep, CommitStep, Publish
  <2>7. CASE pc'[t] = "publish"
    <3>1. doubt' = doubt
      <4>1. ~ AppendBatch(t) /\ ~ AppendFails(t)
        BY <2>6 DEF AppendBatch, AppendFails
      <4> QED
        BY <1>0, <2>6, <2>7, <4>1, DoubtKept
    <3>2. Learned(Contents, Contents')
      BY <2>5, <3>1, LearnsFrom
    <3> QED
      BY <2>1, <3>1, <3>2 DEF DoubtHeld
  <2>8. CASE pc'[t] # "publish"
    <3>1. doubt' = NoDoubt /\ DOMAIN doubt' = {}
      BY <1>0, <1>4, <2>8, DoubtDone DEF NoDoubt
    <3>2. \A n \in Names : Kept'[n] = Len(hist'[n])
      BY <3>1 DEF Kept
    <3>3. \A n \in Names \cap DOMAIN doubt :
             /\ doubt[n].version \in 1 .. Kept'[n]
             /\ hist'[n][doubt[n].version].data = doubt[n].payload
      BY <1>0, <2>1, <2>8, <3>2 DEF DoubtOK
    <3>4. Learned(Contents, Contents')
      BY <2>5, <3>3, LearnsFrom
    <3> QED
      BY <3>1, <3>4 DEF DoubtHeld
  <2> QED
    BY <2>7, <2>8
<1>5. ASSUME NEW t \in Threads, Application(t) \/ CallStep(t)
      PROVE  Learned(Contents, Contents') /\ DoubtHeld'
  <2>1. CASE AppendBatch(t) \/ AppendFails(t)
    BY <1>3, <2>1
  <2>2. CASE Publish(t)
    BY <1>4, <2>2
  <2>3. CASE ~ (AppendBatch(t) \/ AppendFails(t) \/ Publish(t))
    BY <1>0, <1>1, <1>5, <2>3, DoubtKept, IndexKept
  <2> QED
    BY <2>1, <2>2, <2>3
<1> QED
  BY <1>2, <1>5 DEF Next

(* The batch in doubt is the one of the thread that writes it.             *)
LEMMA DoubtIsNext ==
    ASSUME TypeInv, MutexInv, \A u \in Threads : DoubtIs(u), Next, TrackDoubt
    PROVE  \A u \in Threads : DoubtIs(u)'
<1>1. CASE Close
  <2>1. tx' = tx /\ pc' = pc
    BY <1>1 DEF Close, control
  <2> QED
    BY <2>1, DoubtIdle DEF DoubtIs
<1>2. ASSUME NEW t \in Threads, Application(t) \/ CallStep(t),
             NEW u \in Threads
      PROVE  DoubtIs(u)'
  <2>1. CASE u # t
    <3>1. pc'[u] = pc[u] /\ tx'[u] = tx[u]
      BY <1>2, <2>1, OthersKept
    <3>2. CASE pc[u] \in {"barrier", "publish"}
      <4>1. pc[t] \notin {"append", "publish"}
        BY <2>1, <3>2, Alone DEF HoldsCommitMutex
      <4>2. ~ AppendBatch(t) /\ ~ AppendFails(t) /\ ~ Publish(t)
        BY <4>1 DEF AppendBatch, AppendFails, Publish
      <4>3. doubt' = doubt
        BY <1>2, <4>2, DoubtKept
      <4> QED
        BY <3>1, <4>3 DEF DoubtIs
    <3>3. CASE pc[u] \notin {"barrier", "publish"}
      BY <3>1, <3>3 DEF DoubtIs
    <3> QED
      BY <3>2, <3>3
  <2>2. CASE u = t
    <3> SUFFICES ASSUME pc'[t] \in {"barrier", "publish"}
                 PROVE  DoubtIs(t)'
      BY <2>2 DEF DoubtIs
    <3>1. AppendBatch(t) \/ Barrier(t) \/ Publish(t)
      <4>1. pc'[t] \in Committing /\ pc'[t] # "append"
        BY DEF Committing
      <4>2. ~ Validate(t)
        BY <4>1 DEF Validate, Goto, TypeInv, TypeOK
      <4> QED
        BY <1>2, <4>1, <4>2, IndexKept
    <3>2. tx' = tx
      BY <3>1 DEF AppendBatch, Barrier, Publish
    <3>3. CASE AppendBatch(t)
      <4>1. doubt' = [n \in Dirty(tx[t].work) |->
                         [version |-> tx[t].work[n].expected + 1,
                          payload |-> tx[t].work[n].data]]
        BY <3>3, DoubtAppend
      <4> QED
        BY <3>2, <4>1 DEF DoubtIs
    <3>4. CASE Barrier(t) \/ Publish(t)
      <4>1. pc[t] \in {"barrier", "publish"}
        BY <3>4 DEF Barrier, Publish
      <4>2. ~ AppendBatch(t) /\ ~ AppendFails(t)
        BY <4>1 DEF AppendBatch, AppendFails
      <4>3. Publish(t) => pc'[t] = "publish"
        BY DEF Publish, Goto, TypeInv, TypeOK
      <4>4. doubt' = doubt
        BY <1>2, <4>2, <4>3, DoubtKept
      <4> QED
        BY <3>2, <4>1, <4>4 DEF DoubtIs
    <3> QED
      BY <3>1, <3>3, <3>4
  <2> QED
    BY <2>1, <2>2
<1> QED
  BY <1>1, <1>2 DEF Next

(* The journals.                                                           *)
LEMMA JournalsNext ==
    ASSUME HeapInv, CrashInv, BytesInv, Next, TrackDoubt
    PROVE  JournalTrue(wal', Contents') /\ JournalTrue(walDisk', Contents')
<1>0. TypeInv /\ wal \in Seq(Record) /\ walDisk \in Seq(Record)
  BY FileTypes DEF HeapInv, SafeInv
<1>1. Learned(Contents, Contents')
  BY LearnsNext
<1>2. JournalTrue(wal, Contents') /\ JournalTrue(walDisk, Contents')
  BY <1>0, <1>1, JournalStays DEF BytesInv
<1>3. ASSUME NEW t \in Threads, AppendBatch(t)
      PROVE  JournalTrue(wal', Contents')
  <2>1. pc[t] = "append" /\ snap \in Files
    BY <1>3 DEF AppendBatch, Files
  <2>2. PICK order \in CommitOrder(tx[t].work) :
          wal' = wal \o Batch(tx[t].id, lastSeq, order, tx[t].work)
    BY <1>3 DEF AppendBatch
  <2>3. ~ poisoned
    BY <2>1, <2>2, BeforeAppend
  <2>4. WholeBatches(wal)
    BY <2>3 DEF CrashInv
  <2>5. doubt' = [n \in Dirty(tx[t].work) |->
                     [version |-> tx[t].work[n].expected + 1,
                      payload |-> tx[t].work[n].data]]
    BY <1>0, <1>3, DoubtAppend
  <2>6. ASSUME NEW n \in Dirty(tx[t].work)
        PROVE  <<tx[t].work[n].expected + 1, tx[t].work[n].data>>
                   \in Contents'[n]
    <3>1. /\ n \in Names /\ n \in DOMAIN doubt'
          /\ doubt'[n].version = tx[t].work[n].expected + 1
          /\ doubt'[n].payload = tx[t].work[n].data
      BY <2>5 DEF Dirty
    <3>2. <<doubt'[n].version, doubt'[n].payload>> \in Content(n)'
      BY <3>1 DEF Content
    <3> QED
      BY <3>1, <3>2 DEF Contents
  <2>7. tx[t].id \in Nat /\ tx[t].work \in [Names -> Work] /\ lastSeq \in Nat
    BY <1>0 DEF TypeInv, TypeOK, Transaction
  <2> QED
    BY <1>0, <1>2, <2>2, <2>4, <2>6, <2>7, JournalBatch
<1>4. ASSUME NEW t \in Threads, AppendFails(t)
      PROVE  JournalTrue(wal', Contents')
  <2>1. PICK order \in CommitOrder(tx[t].work) :
          \E part \in PartialBatches(Batch(tx[t].id, lastSeq, order,
                                           tx[t].work)) : wal' = wal \o part
    BY <1>4 DEF AppendFails
  <2>2. PICK part \in PartialBatches(Batch(tx[t].id, lastSeq, order,
                                           tx[t].work)) : wal' = wal \o part
    BY <2>1
  <2>3. tx[t].id \in Nat /\ tx[t].work \in [Names -> Work] /\ lastSeq \in Nat
    BY <1>0 DEF TypeInv, TypeOK, Transaction
  <2> QED
    BY <1>0, <1>2, <2>2, <2>3, JournalPartial
<1>5. JournalTrue(<< >>, Contents')
  BY DEF JournalTrue
<1>6. CASE Close
  BY <1>2, <1>6 DEF Close, storage
<1>7. ASSUME NEW t \in Threads, Application(t) \/ CallStep(t)
      PROVE  JournalTrue(wal', Contents') /\ JournalTrue(walDisk', Contents')
  <2>1. CASE ~ DurableStep(t)
    BY <1>0, <1>2, <1>7, <2>1, StorageKept DEF storage
  <2>2. CASE AppendBatch(t) \/ AppendFails(t)
    <3>1. walDisk' = walDisk
      BY <2>2 DEF AppendBatch, AppendFails
    <3> QED
      BY <1>2, <1>3, <1>4, <2>2, <3>1
  <2>3. CASE Barrier(t) \/ SyncWal(t)
    BY <1>2, <2>3 DEF Barrier, SyncWal
  <2>4. CASE Truncate(t)
    BY <1>2, <1>5, <2>4 DEF Truncate
  <2>5. CASE \/ Publish(t) \/ Save(t) \/ FlushTmp(t) \/ AtomicReplace(t)
             \/ SyncDirectory(t) \/ Install(t)
    BY <1>2, <2>5 DEF Publish, Save, FlushTmp, AtomicReplace, SyncDirectory,
                      Install, storage
  <2> QED
    BY <2>1, <2>2, <2>3, <2>4, <2>5 DEF DurableStep
<1> QED
  BY <1>6, <1>7 DEF Next

(* save() copies the last published version of every root.                 *)
LEMMA SavesContents ==
    ASSUME HeapInv, CrashInv, LocatorInv, NEW t \in Threads, Save(t),
           TrackDoubt
    PROVE  FileTrue(tmp', Contents')
<1>0. TypeInv /\ MutexInv /\ StoreInv
  BY DEF HeapInv, SafeInv
<1>1. /\ Contents' = Contents
      /\ \A n \in Names : Kept[n] = roots[n].version
  BY CheckpointKeeps, ContentsSame DEF Checkpointing
<1>2. /\ tmp'.index = SavedRoots(roots) /\ roots' = roots
      /\ pc'[t] \in {"flush_tmp", "replace"}
  BY <1>0 DEF Save, SavedFile, Goto, index, TypeInv, TypeOK
<1>3. RelocationOK(t)'
  BY <1>0, LocatorSave
<1>4. \A n \in Present(roots) :
         FileHolds(tmp', SavedRoots(roots)[n].payload)
  BY <1>2, <1>3 DEF RelocationOK, SavedIn
<1> SUFFICES ASSUME NEW n \in Names, tmp'.index[n].version > 0
             PROVE  LET entry == tmp'.index[n]
                    IN  /\ entry.payload.kind = "snapshot"
                        /\ entry.payload.size = Len(entry.payload.sum)
                        /\ FileHolds(tmp', entry.payload)
                        /\ <<entry.version, entry.payload.sum>>
                               \in Contents'[n]
  BY DEF FileTrue, EntryTrue
<1>5. n \in Present(roots)
  BY <1>2 DEF SavedRoots, NoRoot
<1>6. PICK entry : entry = tmp'.index[n]
  OBVIOUS
<1>7. /\ entry = SavedRoots(roots)[n]
      /\ entry.version = roots[n].version
      /\ entry.payload.kind = "snapshot"
      /\ entry.payload.size = roots[n].payload.size
      /\ entry.payload.sum = roots[n].payload.sum
  BY <1>2, <1>5, <1>6 DEF SavedRoots
<1>8. roots[n].version > 0 /\ roots[n].version \in Nat
  BY <1>0, <1>5, FileTypes DEF Present
<1>9. roots[n].payload.size = Len(roots[n].payload.sum)
  BY <1>8 DEF LocatorInv, Located
<1>10. /\ roots[n].version = Len(hist[n])
       /\ roots[n].payload.sum = hist[n][Len(hist[n])].data
  BY <1>0, <1>8 DEF StoreInv, IndexOK
<1>11. PICK v \in 1 .. Kept[n] : v = roots[n].version
  BY <1>1, <1>8
<1>12. <<v, hist[n][v].data>> \in Content(n)
  BY DEF Content
<1>13. <<entry.version, entry.payload.sum>> \in Contents'[n]
  BY <1>1, <1>7, <1>10, <1>11, <1>12 DEF Contents
<1> QED
  BY <1>4, <1>5, <1>6, <1>7, <1>9, <1>13

(* The snapshots.                                                          *)
LEMMA SnapshotsNext ==
    ASSUME HeapInv, CrashInv, BytesInv, LocatorInv, Next, TrackDoubt
    PROVE  /\ FileTrue(snap', Contents') /\ FileTrue(snapDisk', Contents')
           /\ \A u \in Threads : SavingTrue(u)'
<1>0. TypeInv /\ MutexInv /\ Learned(Contents, Contents')
  BY LearnsNext DEF HeapInv, SafeInv
<1>1. /\ FileTrue(snap, Contents') /\ FileTrue(snapDisk, Contents')
      /\ \A u \in Threads :
            pc[u] \in {"flush_tmp", "replace"} => FileTrue(tmp, Contents')
  BY <1>0, FileStays DEF BytesInv, SavingTrue
<1>2. CASE Close
  BY <1>1, <1>2 DEF Close, storage, control, SavingTrue
<1>3. ASSUME NEW t \in Threads, Application(t) \/ CallStep(t)
      PROVE  /\ FileTrue(snap', Contents') /\ FileTrue(snapDisk', Contents')
             /\ \A u \in Threads : SavingTrue(u)'
  <2>1. FileTrue(snap', Contents') /\ FileTrue(snapDisk', Contents')
    <3>1. CASE ~ DurableStep(t)
      BY <1>0, <1>1, <1>3, <3>1, StorageKept DEF storage
    <3>2. CASE AtomicReplace(t)
      BY <1>1, <3>2 DEF AtomicReplace
    <3>3. CASE SyncDirectory(t)
      BY <1>1, <3>3 DEF SyncDirectory
    <3>4. CASE DurableStep(t) /\ ~ AtomicReplace(t) /\ ~ SyncDirectory(t)
      BY <1>1, <3>4 DEF DurableStep, AppendBatch, AppendFails, Barrier,
         Publish, Save, FlushTmp, Install, Truncate, SyncWal, storage
    <3> QED
      BY <3>1, <3>2, <3>3, <3>4
  <2>2. SavingTrue(t)'
    <3> SUFFICES ASSUME pc'[t] \in {"flush_tmp", "replace"}
                 PROVE  FileTrue(tmp', Contents')
      BY DEF SavingTrue
    <3>1. Save(t) \/ FlushTmp(t)
      <4>1. DurableStep(t)
        BY <1>0, <1>3, StorageKept DEF Exposed
      <4> QED
        BY <1>0, <4>1 DEF DurableStep, AppendBatch, AppendFails, Barrier,
           Publish, AtomicReplace, SyncDirectory, Install, Truncate, SyncWal,
           Return, Leave, Goto, TypeInv, TypeOK
    <3>2. CASE Save(t)
      BY <3>2, SavesContents
    <3>3. CASE FlushTmp(t)
      <4>1. FileTrue(tmp, Contents')
        BY <1>1, <3>3 DEF FlushTmp
      <4>2. tmp'.index = tmp.index /\ tmp'.data = tmp.data
        BY <1>0, <3>3 DEF FlushTmp, TypeInv, TypeOK, File
      <4> QED
        BY <4>1, <4>2 DEF FileTrue, EntryTrue, FileHolds
    <3> QED
      BY <3>1, <3>2, <3>3
  <2>3. ASSUME NEW u \in Threads \ {t}
        PROVE  SavingTrue(u)'
    <3> SUFFICES ASSUME pc[u] \in {"flush_tmp", "replace"}
                 PROVE  FileTrue(tmp', Contents')
      BY <1>0, <1>3, OthersKept DEF SavingTrue
    <3>1. pc[t] \notin HoldsCommitMutex
      BY <1>0, Alone DEF HoldsCommitMutex
    <3>2. tmp' = tmp
      BY <1>0, <1>3, <3>1, DurableLocked, StorageKept DEF storage
    <3> QED
      BY <1>1, <3>2
  <2> QED
    BY <2>1, <2>2, <2>3
<1> QED
  BY <1>2, <1>3 DEF Next

LEMMA BytesNext ==
    ASSUME HeapInv, CrashInv, BytesInv, LocatorInv, Next, TrackDoubt
    PROVE  BytesInv'
<1>1. TypeInv /\ MutexInv
  BY DEF HeapInv, SafeInv
<1>2. \A u \in Threads : DoubtIs(u)'
  BY <1>1, DoubtIsNext DEF BytesInv
<1> QED
  BY <1>2, LearnsNext, JournalsNext, SnapshotsNext DEF BytesInv

-----------------------------------------------------------------------------
(* The crash forgets nothing either.                                       *)
LEMMA LearnsDown ==
    ASSUME HeapInv, CrashInv, Down
    PROVE  Learned(Contents, Contents')
<1>1. doubt' = doubt /\ Kept' = Kept
  BY DownKeeps
<1>2. hist' = [n \in Names |-> IF n \in DOMAIN doubt
                               THEN SubSeq(hist[n], 1, doubt[n].version - 1)
                               ELSE hist[n]]
  BY DEF Down
<1>3. hist \in [Names -> Seq(Version)]
  BY DEF HeapInv, SafeInv, TypeInv, TypeOK
<1>4. ASSUME NEW n \in Names, NEW v \in 1 .. Kept[n]
      PROVE  hist'[n][v] = hist[n][v]
  <2>1. CASE n \notin DOMAIN doubt
    BY <1>2, <2>1
  <2>2. CASE n \in DOMAIN doubt
    <3>1. PICK h \in Seq(Version) : h = hist[n]
      BY <1>3
    <3>2. PICK k \in 0 .. Len(h) : k = Kept[n]
      BY <3>1, KeptWithin
    <3>3. hist'[n] = SubSeq(h, 1, k)
      BY <1>2, <2>2, <3>1, <3>2 DEF Kept
    <3>4. v \in 1 .. k
      BY <3>2
    <3>5. SubSeq(h, 1, k)[v] = h[v]
      BY <3>1, <3>2, <3>4
    <3> QED
      BY <3>1, <3>3, <3>5
  <2> QED
    BY <2>1, <2>2
<1> QED
  BY <1>1, <1>4, LearnsFrom

LEMMA BytesDown ==
    ASSUME HeapInv, CrashInv, BytesInv, ProcessCrash \/ PowerLoss,
           PowerLoss => Strict
    PROVE  JournalTrue(wal', Contents') /\ FileTrue(snap', Contents')
<1>0. TypeInv /\ wal \in Seq(Record) /\ walDisk \in Seq(Record)
      /\ Len(wal) \in Nat
  BY FileTypes DEF HeapInv, SafeInv
<1>1. Learned(Contents, Contents')
  BY LearnsDown DEF ProcessCrash, PowerLoss
<1>2. /\ JournalTrue(wal, Contents') /\ JournalTrue(walDisk, Contents')
      /\ FileTrue(snap, Contents') /\ FileTrue(snapDisk, Contents')
  BY <1>0, <1>1, JournalStays, FileStays DEF BytesInv
<1>3. CASE ProcessCrash
  <2>1. snap' = snap
    BY <1>3 DEF ProcessCrash
  <2>2. CASE wal' = wal
    BY <1>2, <2>1, <2>2
  <2>3. CASE wal' # wal
    <3>1. PICK t \in Threads :
            \E order \in CommitOrder(tx[t].work) :
              \E part \in PartialBatches(Batch(tx[t].id, lastSeq, order,
                                              tx[t].work)) :
                 wal' = wal \o part
      BY <1>3, <2>3 DEF ProcessCrash
    <3>2. PICK order \in CommitOrder(tx[t].work) :
            \E part \in PartialBatches(Batch(tx[t].id, lastSeq, order,
                                             tx[t].work)) :
               wal' = wal \o part
      BY <3>1
    <3>3. PICK part \in PartialBatches(Batch(tx[t].id, lastSeq, order,
                                             tx[t].work)) :
               wal' = wal \o part
      BY <3>2
    <3>4. /\ tx[t].id \in Nat /\ tx[t].work \in [Names -> Work]
          /\ lastSeq \in Nat
      BY <1>0 DEF TypeInv, TypeOK, Transaction
    <3>5. JournalTrue(wal', Contents')
      BY <1>0, <1>2, <3>3, <3>4, JournalPartial
    <3> QED
      BY <1>2, <2>1, <3>5
  <2> QED
    BY <2>2, <2>3
<1>4. CASE PowerLoss
  <2>1. /\ wal' \in SurvivingJournals /\ snap' \in SurvivingSnapshots
        /\ Strict
    BY <1>4 DEF PowerLoss
  <2>2. snap' \in {snap, snapDisk}
    <3>1. \A f \in {snap, snapDisk} : f.flushed
      BY <2>1 DEF CrashInv, FilesOK, Files, Logs
    <3> QED
      BY <2>1, <3>1 DEF SurvivingSnapshots
  <2>3. Agreed \in 0 .. Len(wal)
    BY <1>0, AgreedIs
  <2>4. ASSUME NEW k \in Agreed .. Len(wal)
        PROVE  /\ SubSeq(wal, 1, k) \in Seq(Record)
               /\ JournalTrue(SubSeq(wal, 1, k), Contents')
    <3>1. k \in 0 .. Len(wal)
      BY <1>0, <2>3
    <3>2. /\ SubSeq(wal, 1, k) \in Seq(Record)
          /\ Part(SubSeq(wal, 1, k), wal)
      BY <1>0, <3>1, CutPart
    <3> QED
      BY <1>2, <3>2, JournalPart
  <2>5. JournalTrue(wal', Contents')
    <3>1. CASE wal' = walDisk
      BY <1>2, <3>1
    <3>2. CASE \E k \in Agreed .. Len(wal) : wal' = SubSeq(wal, 1, k)
      BY <2>4, <3>2
    <3>3. CASE \E k \in Agreed .. Len(wal) - 1 :
                  wal' = Append(SubSeq(wal, 1, k), Torn)
      <4>1. PICK k \in Agreed .. Len(wal) - 1 :
                  wal' = Append(SubSeq(wal, 1, k), Torn)
        BY <3>3
      <4>2. k \in Agreed .. Len(wal)
        BY <1>0, <2>3
      <4> QED
        BY <2>4, <4>1, <4>2, JournalTorn
    <3> QED
      BY <2>1, <3>1, <3>2, <3>3 DEF SurvivingJournals
  <2> QED
    BY <1>2, <2>2, <2>5
<1> QED
  BY <1>3, <1>4

-----------------------------------------------------------------------------
(* What the scan has in its index: entries of the snapshot, and locators   *)
(* of committed updates in front of its position.                          *)
Found(log, p, n, record) ==
    \E c \in 1 .. p - 1 : \E j \in 1 .. c - 1 :
        /\ log[c].type = "commit"
        /\ log[j].type = "root_update" /\ log[j].name = n
        /\ record = [version |-> log[j].version,
                     payload |-> JournalLoc(j, log[j].payload)]
ScanFinds(s, log, base) ==
    \A n \in Names : \/ s.roots[n] = base[n]
                     \/ Found(log, s.pos, n, s.roots[n])

LEMMA FoundLater ==
    ASSUME NEW log, NEW p \in Int, NEW n, NEW record, Found(log, p, n, record)
    PROVE  Found(log, p + 1, n, record)
<1>1. PICK c \in 1 .. p - 1 : \E j \in 1 .. c - 1 :
        /\ log[c].type = "commit"
        /\ log[j].type = "root_update" /\ log[j].name = n
        /\ record = [version |-> log[j].version,
                     payload |-> JournalLoc(j, log[j].payload)]
  BY DEF Found
<1>2. c \in 1 .. (p + 1) - 1
  OBVIOUS
<1> QED
  BY <1>1, <1>2 DEF Found

LEMMA ScanFindsMore ==
    ASSUME NEW s, NEW log, NEW base, LogOK(log), ScanOK(s, log, base),
           s.pos <= Len(log), log[s.pos].type # "torn",
           ScanFinds(s, log, base)
    PROVE  ScanFinds(Scanned(s, log), log, base)
<1>1. /\ s.pos \in 1 .. Len(log) /\ log \in Seq(Record) /\ s \in ScanType
      /\ log[s.pos].tx \in 1 .. MaxTx /\ Len(log) \in Nat
      /\ log[s.pos].type \in {"begin", "root_update", "commit"}
  BY ScanMeets
<1>2. PICK p \in 1 .. Len(log) : p = s.pos
  BY <1>1
<1>3. PICK d : d = Scanned(s, log)
  OBVIOUS
<1>4. \A n \in Names : s.roots[n] = base[n] \/ Found(log, p + 1, n, s.roots[n])
  BY <1>1, <1>2, FoundLater DEF ScanFinds
<1>5. CASE log[p].type # "commit"
  <2>1. \E entry : d = ScanNext(s, log, s.roots, entry)
    BY <1>1, <1>2, <1>3, <1>5, ScannedIs
  <2>2. d.pos = p + 1 /\ d.roots = s.roots
    BY <1>2, <2>1 DEF ScanNext, ScanAt
  <2> QED
    BY <1>3, <1>4, <2>2 DEF ScanFinds
<1>6. CASE log[p].type = "commit"
  <2>1. PICK b \in 1 .. p - 1 : OneOpen(s, log, b) /\ log[b].tx = log[p].tx
    BY <1>2, <1>6, ScanMeets
  <2>2. PICK new : new = Applied(s, log, log[p].tx)
    OBVIOUS
  <2>3. d = ScanNext(s, log, new, NoPending)
    BY <1>1, <1>2, <1>3, <1>6, <2>2, ScannedIs
  <2>4. d.pos = p + 1 /\ d.roots = new
    BY <1>2, <2>3 DEF ScanNext, ScanAt
  <2>5. ASSUME NEW n \in Names
        PROVE  new[n] = base[n] \/ Found(log, p + 1, n, new[n])
    <3>1. CASE new[n] = s.roots[n]
      BY <1>4, <3>1
    <3>2. CASE new[n] # s.roots[n]
      <4>1. PICK i \in b + 1 .. p - 1 :
              /\ log[i].name = n
              /\ new[n] = [version |-> log[i].version,
                           payload |-> JournalLoc(i, log[i].payload)]
        BY <1>2, <2>1, <2>2, <3>2, AppliedIs
      <4>2. log[i].type = "root_update"
        BY <1>2, <2>1 DEF OneOpen
      <4>3. p \in 1 .. (p + 1) - 1 /\ i \in 1 .. p - 1
        BY <1>1
      <4> QED
        BY <1>6, <4>1, <4>2, <4>3 DEF Found
    <3> QED
      BY <3>1, <3>2
  <2> QED
    BY <1>3, <2>4, <2>5 DEF ScanFinds
<1> QED
  BY <1>5, <1>6

(* The torn tail is behind everything the scan has found.                  *)
LEMMA ScanFindsCut ==
    ASSUME NEW s, NEW log \in Seq(Record), NEW base, NEW part,
           s.pos \in Int, Part(part, log), s.pos <= Len(part) + 1,
           ScanFinds(s, log, base)
    PROVE  ScanFinds(s, part, base)
<1> SUFFICES ASSUME NEW n \in Names, Found(log, s.pos, n, s.roots[n])
             PROVE  Found(part, s.pos, n, s.roots[n])
  BY DEF ScanFinds
<1>1. PICK c \in 1 .. s.pos - 1 : \E j \in 1 .. c - 1 :
        /\ log[c].type = "commit"
        /\ log[j].type = "root_update" /\ log[j].name = n
        /\ s.roots[n] = [version |-> log[j].version,
                         payload |-> JournalLoc(j, log[j].payload)]
  BY DEF Found
<1>2. /\ part[c] = log[c]
      /\ \A j \in 1 .. c - 1 : part[j] = log[j]
  BY DEF Part
<1> QED
  BY <1>1, <1>2 DEF Found

(* The locator the scan ends with designates a known content.              *)
LEMMA ScanReads ==
    ASSUME NEW s, NEW log \in Seq(Record), NEW file, NEW known,
           s.pos = Len(log) + 1, ScanFinds(s, log, file.index),
           JournalTrue(log, known), FileTrue(file, known),
           NEW n \in Names, s.roots[n].version > 0
    PROVE  LET where == s.roots[n].payload
           IN  /\ <<s.roots[n].version, where.sum>> \in known[n]
               /\ where.size = Len(where.sum)
               /\ where.kind = "journal" => JournalHolds(log, where)
               /\ where.kind = "snapshot" => FileHolds(file, where)
<1>1. PICK record : record = s.roots[n]
  OBVIOUS
<1>2. CASE record = file.index[n]
  BY <1>1, <1>2 DEF FileTrue, EntryTrue
<1>3. CASE record # file.index[n]
  <2>1. Found(log, s.pos, n, record)
    BY <1>1, <1>3 DEF ScanFinds
  <2>0. PICK c \in 1 .. Len(log) : \E j \in 1 .. c - 1 :
          /\ log[c].type = "commit"
          /\ log[j].type = "root_update" /\ log[j].name = n
          /\ record = [version |-> log[j].version,
                       payload |-> JournalLoc(j, log[j].payload)]
    BY <2>1 DEF Found
  <2>2. PICK j \in 1 .. c - 1 :
          /\ log[c].type = "commit"
          /\ log[j].type = "root_update" /\ log[j].name = n
          /\ record = [version |-> log[j].version,
                       payload |-> JournalLoc(j, log[j].payload)]
    BY <2>0
  <2>3. /\ record.version = log[j].version
        /\ record.payload.kind = "journal" /\ record.payload.at = j
        /\ record.payload.sum = log[j].payload
        /\ record.payload.size = Len(record.payload.sum)
    BY <2>2 DEF JournalLoc, Crc32c
  <2>4. <<log[j].version, log[j].payload>> \in known[n]
    BY <2>2 DEF JournalTrue
  <2>5. j \in 1 .. Len(log)
    BY <2>2
  <2>6. JournalHolds(log, record.payload)
    BY <2>2, <2>3, <2>5 DEF JournalHolds
  <2> QED
    BY <1>1, <2>3, <2>4, <2>6
<1> QED
  BY <1>2, <1>3

-----------------------------------------------------------------------------
(* Before the crash the files hold the contents; after it they still do,   *)
(* and the scan finds them; the heap it opens has locators that resolve.   *)
ContentInv ==
    /\ mode = "up" => StoreInv /\ LocatorInv
    /\ crashes = 0 => BytesInv
    /\ mode # "up" => JournalTrue(wal, Contents) /\ FileTrue(snap, Contents)
    /\ mode \in {"scan", "cut"} => ScanFinds(scan, wal, snap.index)

(* The constructor returns.                                                *)
LEMMA ContentOpened ==
    ASSUME RecoveryInv, AckInv, ContentInv, Opened
    PROVE  StoreInv' /\ LocatorInv'
<1>1. /\ mode = "scan" /\ scan.pos > Len(wal)
      /\ roots' = scan.roots
      /\ UNCHANGED <<wal, snap, pc>>
      /\ hist' = [n \in Names |->
                    IF scan.roots[n].version > Len(hist[n])
                    THEN Append(hist[n], [tx |-> 0, data |->
                           IF n \in DOMAIN doubt THEN doubt[n].payload
                                                 ELSE << >>])
                    ELSE SubSeq(hist[n], 1, scan.roots[n].version)]
  BY DEF Opened, storage, control
<1>2. /\ DownInv /\ ScanOK(scan, wal, snap.index) /\ TypeInv
      /\ JournalTrue(wal, Contents) /\ FileTrue(snap, Contents)
      /\ ScanFinds(scan, wal, snap.index)
      /\ \A t \in Threads : pc[t] = "idle"
  BY <1>1 DEF RecoveryInv, AckInv, ContentInv
<1>3. /\ \A n \in Names : Kept[n] = Len(hist[n]) /\ Len(hist[n]) \in Nat
      /\ \A n \in Names :
            \/ scan.roots[n].version = Len(hist[n])
            \/ n \in DOMAIN doubt /\ scan.roots[n].version = Len(hist[n]) + 1
  BY OpenedVersions
<1>4. wal \in Seq(Record) /\ Len(wal) \in Nat /\ scan.pos = Len(wal) + 1
  <2>1. wal \in Seq(Record) /\ Len(wal) \in Nat
    BY <1>2, FileTypes
  <2> QED
    BY <1>1, <1>2, <2>1 DEF ScanOK
<1>5. ASSUME NEW n \in Names, scan.roots[n].version > 0
      PROVE  LET where == scan.roots[n].payload
             IN  /\ <<scan.roots[n].version, where.sum>> \in Content(n)
                 /\ where.size = Len(where.sum)
                 /\ where.kind = "journal" => JournalHolds(wal, where)
                 /\ where.kind = "snapshot" => FileHolds(snap, where)
  <2>1. Contents[n] = Content(n)
    BY DEF Contents
  <2> QED
    BY <1>2, <1>4, <1>5, <2>1, ScanReads
<1>6. ASSUME NEW n \in Names
      PROVE  /\ roots'[n].version = Len(hist'[n])
             /\ Len(hist'[n]) > 0 =>
                    roots'[n].payload.sum = hist'[n][Len(hist'[n])].data
  <2>1. PICK h \in Seq(Version) : h = hist[n]
    BY <1>2 DEF DownInv
  <2>2. PICK record : record = scan.roots[n]
    OBVIOUS
  <2>3. roots'[n] = record /\ Len(h) \in Nat /\ Kept[n] = Len(h)
    BY <1>1, <1>3, <2>1, <2>2
  <2>4. record.version > 0 =>
          \/ \E v \in 1 .. Len(h) :
                record.version = v /\ record.payload.sum = h[v].data
          \/ /\ n \in DOMAIN doubt
             /\ record.version = Len(h) + 1
             /\ record.payload.sum = doubt[n].payload
    <3> SUFFICES ASSUME record.version > 0
                 PROVE  \/ \E v \in 1 .. Len(h) : /\ record.version = v
                                                  /\ record.payload.sum
                                                       = h[v].data
                        \/ /\ n \in DOMAIN doubt
                           /\ record.version = Len(h) + 1
                           /\ record.payload.sum = doubt[n].payload
      OBVIOUS
    <3>1. <<record.version, record.payload.sum>> \in Content(n)
      BY <1>5, <2>2
    <3>2. \A m \in DOMAIN doubt : doubt[m].version = Len(hist[m]) + 1
      BY <1>2 DEF DownInv
    <3> QED
      BY <2>1, <2>3, <3>1, <3>2 DEF Content
  <2>5. CASE record.version = Len(h)
    <3>1. hist'[n] = SubSeq(h, 1, Len(h))
      BY <1>1, <2>1, <2>2, <2>3, <2>5
    <3>2. hist'[n] = h
      BY <2>1, <3>1
    <3>3. Len(h) > 0 => record.payload.sum = h[Len(h)].data
      BY <2>3, <2>4, <2>5
    <3> QED
      BY <2>3, <2>5, <3>2, <3>3
  <2>6. CASE n \in DOMAIN doubt /\ record.version = Len(h) + 1
    <3>1. PICK w : w = [tx |-> 0, data |-> doubt[n].payload]
      OBVIOUS
    <3>2. hist'[n] = Append(h, w)
      BY <1>1, <2>1, <2>2, <2>3, <2>6, <3>1
    <3>3. Len(Append(h, w)) = Len(h) + 1 /\ Append(h, w)[Len(h) + 1] = w
      BY <2>1
    <3>4. record.payload.sum = w.data
      BY <2>3, <2>4, <2>6, <3>1
    <3> QED
      BY <2>3, <2>6, <3>2, <3>3, <3>4
  <2> QED
    BY <1>3, <2>1, <2>2, <2>5, <2>6
<1>7. StoreInv'
  <2>1. IndexOK'
    BY <1>6 DEF IndexOK
  <2>2. \A t \in Threads : TodoOK(t)'
    BY <1>1, <1>2 DEF TodoOK
  <2> QED
    BY <2>1, <2>2 DEF StoreInv
<1>8. LocatorInv'
  <2>1. \A n \in Names : Located(n)'
    BY <1>1, <1>5 DEF Located
  <2>2. \A t \in Threads : RelocationOK(t)'
    BY <1>1, <1>2 DEF RelocationOK
  <2> QED
    BY <2>1, <2>2 DEF LocatorInv
<1> QED
  BY <1>7, <1>8

(* The steps of a recovery.                                                *)
LEMMA ContentRecover ==
    ASSUME RecoveryInv, ContentInv, Open \/ Scan \/ CutTornTail \/ FlushCut,
           RecoveryInv'
    PROVE  ContentInv'
<1>1. /\ UNCHANGED <<snap, hist, doubt, crashes>>
      /\ mode # "up" /\ mode' # "up" /\ crashes # 0
  BY DEF Open, Scan, CutTornTail, FlushCut, RecoveryInv, vars, storage
<1>2. Contents' = Contents
  BY <1>1, ContentsSame
<1>3. /\ JournalTrue(wal, Contents) /\ FileTrue(snap, Contents)
      /\ DownInv /\ wal \in Seq(Record)
  BY <1>1, DownFacts DEF ContentInv, RecoveryInv
<1>4. CASE Open
  <2>1. /\ scan' = ScanStart(snap.index, snap.seq, 1 .. MaxTx)
        /\ wal' = wal
    BY <1>4 DEF Open, vars, storage
  <2>2. ScanFinds(scan', wal, snap.index)
    BY <2>1 DEF ScanFinds, ScanStart
  <2> QED
    BY <1>1, <1>2, <1>3, <2>1, <2>2 DEF ContentInv
<1>5. CASE Scan
  <2>1. /\ mode = "scan" /\ AtRecord(scan, wal) /\ wal' = wal
        /\ mode' = "corrupt" \/ scan' = Scanned(scan, wal)
    BY <1>5 DEF Scan, vars, storage
  <2>2. /\ ScanOK(scan, wal, snap.index) /\ ScanFinds(scan, wal, snap.index)
        /\ LogOK(wal)
    BY <1>3, <2>1, DownFacts DEF RecoveryInv, ContentInv
  <2>3. scan.pos <= Len(wal) /\ wal[scan.pos].type # "torn"
    <3>1. scan.pos <= Len(wal) /\ wal[scan.pos] # Torn
      BY <2>1 DEF AtRecord
    <3>2. scan.pos \in 1 .. Len(wal)
      BY <1>3, <2>2, <3>1 DEF ScanOK
    <3>3. wal[scan.pos] \in Record
      BY <1>3, <3>2
    <3> QED
      BY <3>1, <3>3, RecordKind
  <2>4. scan' = Scanned(scan, wal)
    BY <2>1 DEF RecoveryInv
  <2>5. ScanFinds(scan', wal, snap.index)
    BY <2>2, <2>3, <2>4, ScanFindsMore
  <2> QED
    BY <1>1, <1>2, <1>3, <2>1, <2>5 DEF ContentInv
<1>6. CASE CutTornTail
  <2>1. /\ mode = "scan" /\ scan.pos <= Len(wal) /\ scan' = scan
        /\ wal' = SubSeq(wal, 1, scan.pos - 1)
    BY <1>6 DEF CutTornTail
  <2>2. ScanFinds(scan, wal, snap.index) /\ scan.pos \in 1 .. Len(wal) + 1
    BY <2>1 DEF RecoveryInv, ScanOK, ContentInv
  <2>3. PICK k \in 0 .. Len(wal) : k = scan.pos - 1
    BY <1>3, <2>1, <2>2
  <2>4. wal' = SubSeq(wal, 1, k) /\ scan.pos \in Int /\ scan.pos = k + 1
    BY <1>3, <2>1, <2>2, <2>3
  <2>5. Part(wal', wal) /\ Len(wal') = k
    BY <1>3, <2>4, CutPart
  <2>6. JournalTrue(wal', Contents)
    BY <1>3, <2>5, JournalPart
  <2>7. ScanFinds(scan, wal', snap.index)
    <3>1. scan.pos <= Len(wal') + 1
      BY <2>4, <2>5
    <3>2. PICK part : part = wal'
      OBVIOUS
    <3>3. ScanFinds(scan, part, snap.index)
      BY <1>3, <2>2, <2>4, <2>5, <3>1, <3>2, ScanFindsCut
    <3> QED
      BY <3>2, <3>3
  <2> QED
    BY <1>1, <1>2, <1>3, <2>1, <2>6, <2>7 DEF ContentInv
<1>7. CASE FlushCut
  <2>1. mode = "cut" /\ wal' = wal /\ scan' = scan
    BY <1>7 DEF FlushCut
  <2> QED
    BY <1>1, <1>2, <1>3, <2>1 DEF ContentInv
<1> QED
  BY <1>4, <1>5, <1>6, <1>7

(* Every step preserves it.                                                *)
LEMMA ContentNext ==
    ASSUME OneCrash, "sync_directory" \notin Faults, RecoveryInv, AckInv,
           ContentInv, [RNext]_rvars, RecoveryInv'
    PROVE  ContentInv'
<1>0. TypeInv /\ MutexInv
  BY DEF AckInv
<1>1. CASE UNCHANGED rvars
  <2>1. UNCHANGED <<mode, crashes, scan, doubt, vars>>
    BY <1>1 DEF rvars
  <2>2. UNCHANGED <<wal, walDisk, snap, snapDisk, tmp, pc, tx, hist>>
    BY <2>1 DEF vars, storage, control
  <2>3. mode = "up" => StoreInv' /\ LocatorInv'
    <3> SUFFICES ASSUME mode = "up" PROVE StoreInv' /\ LocatorInv'
      OBVIOUS
    <3>1. StoreInv /\ [Next]_vars
      BY <2>1 DEF ContentInv
    <3>2. UNCHANGED <<storage, roots, pc, call>>
      BY <2>1 DEF vars, index, control
    <3>3. LocatorInv'
      BY <3>2 DEF ContentInv, LocatorInv, Located, Relocating, RelocationOK,
                  Appended, SavedIn, storage
    <3> QED
      BY <1>0, <3>1, <3>3, StoreNext
  <2>4. Contents' = Contents
    BY <2>1, <2>2, ContentsSame
  <2>5. BytesInv => BytesInv'
    BY <2>1, <2>2, <2>4 DEF BytesInv, DoubtHeld, DoubtIs, SavingTrue
  <2> QED
    BY <2>1, <2>2, <2>3, <2>4, <2>5 DEF ContentInv
<1>2. CASE Run
  <2>1. /\ mode = "up" /\ mode' = "up" /\ crashes' = crashes
        /\ Next /\ TrackDoubt
    BY <1>2 DEF Run
  <2>2. StoreInv /\ LocatorInv
    BY <2>1 DEF ContentInv
  <2>3. StoreInv' /\ LocatorInv'
    BY <1>0, <2>1, <2>2, StoreNext, LocatorNext
  <2>4. crashes = 0 => BytesInv'
    BY <2>1, <2>2, BytesNext DEF RecoveryInv, ContentInv
  <2> QED
    BY <2>1, <2>3, <2>4 DEF ContentInv
<1>3. CASE ProcessCrash \/ PowerLoss
  <2>1. crashes < MaxCrashes /\ Down
    BY <1>3 DEF ProcessCrash, PowerLoss
  <2>2. crashes = 0
    BY <2>1, RecoveryAssumption DEF OneCrash, RecoveryInv
  <2>3. HeapInv /\ CrashInv /\ BytesInv /\ (PowerLoss => Strict)
    BY <2>2 DEF RecoveryInv, ContentInv, PowerLoss, OneCrash
  <2>4. JournalTrue(wal', Contents') /\ FileTrue(snap', Contents')
    BY <1>3, <2>3, BytesDown
  <2>5. mode' = "down" /\ crashes' = 1
    BY <2>1, <2>2 DEF Down
  <2> QED
    BY <2>4, <2>5 DEF ContentInv
<1>4. CASE Opened
  <2>1. mode' = "up" /\ crashes' # 0
    BY <1>4 DEF Opened, RecoveryInv
  <2> QED
    BY <1>4, <2>1, ContentOpened DEF ContentInv
<1> QED
  BY <1>1, <1>2, <1>3, <1>4, ContentRecover DEF RNext

(* After the restart each root's locator designates the bytes of the       *)
(* version it carries, in the snapshot or in the journal the crash left,   *)
(* and every later load, commit and checkpoint keeps it so, unless a       *)
(* directory sync fails (journal::recover, snapshot_store::load).          *)
THEOREM RecoversContent ==
    ASSUME OneCrash, "sync_directory" \notin Faults
    PROVE  RSpec => []RecoveredContent
<1>1. RInit => AckInv /\ ContentInv
  <2> SUFFICES ASSUME RInit PROVE AckInv /\ ContentInv
    OBVIOUS
  <2>1. AckInv
    BY AckInit
  <2>2. /\ Init /\ doubt = NoDoubt /\ mode = "up"
    BY DEF RInit
  <2>3. StoreInv /\ LocatorInv
    BY <2>2, StoreInit, LocatorInit
  <2>4. /\ wal = << >> /\ walDisk = << >> /\ snap = EmptyFile
        /\ snapDisk = EmptyFile /\ \A t \in Threads : pc[t] = "idle"
    BY <2>2 DEF Init
  <2>5. JournalTrue(<< >>, Contents) /\ FileTrue(EmptyFile, Contents)
    BY DEF JournalTrue, FileTrue, EntryTrue, EmptyFile, NoRoots, NoRoot
  <2>6. BytesInv
    BY <2>2, <2>4, <2>5 DEF BytesInv, DoubtHeld, DoubtIs, SavingTrue, NoDoubt
  <2> QED
    BY <2>1, <2>2, <2>3, <2>6 DEF ContentInv
<1>2. RecoveryInv /\ AckInv /\ [RNext]_rvars => AckInv'
  BY AckNext
<1>3. RecoveryInv /\ RecoveryInv' /\ AckInv /\ ContentInv /\ [RNext]_rvars
        => ContentInv'
  BY ContentNext
<1>4. AckInv /\ ContentInv => RecoveredContent
  <2> SUFFICES ASSUME AckInv, ContentInv, mode = "up" PROVE LocatorsResolve
    BY DEF RecoveredContent
  <2>1. SafeInv /\ LocatorInv
    BY DEF AckInv, ContentInv, SafeInv
  <2> QED
    BY <2>1, LocatorGives
<1> QED
  BY <1>1, <1>2, <1>3, <1>4, RecoveryInvariant, PTL DEF RSpec


=============================================================================

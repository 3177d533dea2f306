-------------------------- MODULE SqlInterpreter --------------------------
(***************************************************************************)
(* The SQL interpreter (interpreter.hpp and the helpers it calls): tables  *)
(* are roots of a heap, described by one catalog root.  Every statement is *)
(* one transaction; sessions on the same heap interleave between the reads *)
(* of the catalog, of the table, and the commit.  The heap behaves as      *)
(* VersionedStore says: a commit is refused if a root it writes changed,   *)
(* and roots it only read are not validated.                               *)
(***************************************************************************)
EXTENDS Integers, Sequences, FiniteSets, SequencesExt

CONSTANTS Sessions, Tables,
          Statements,     \* parsed statements the sessions may submit
          MaxStatements   \* bound: statements submitted

VARIABLES catalog,   \* version and, per table, its column definitions
          table,     \* per table: version and rows
          sess,      \* per session: the statement being executed
          submitted,
          log        \* history: per table, the committed writes in order

qvars == <<catalog, table, sess, submitted, log>>

(* Literals and stored values: a type tag and a number for the value.      *)
Lit(type, v) == [type |-> type, v |-> v]
NullLit == Lit("null", 0)
Numeric == {"integer", "real"}
Failed == [ok |-> FALSE, rows |-> << >>, touched |-> 0]
Done(rows, touched) == [ok |-> TRUE, rows |-> rows, touched |-> touched]
NoTable == << >>    \* a table has at least one column
Idle == [pc |-> "idle"]

-----------------------------------------------------------------------------
(* Values: coerce, compare_value_literal, less_for_sort.                   *)

Coerce(lit, type) ==
    IF lit.type = "integer" /\ type = "real" THEN Lit("real", lit.v) ELSE lit
Accepts(lit, type) == lit.type = "null" \/ Coerce(lit, type).type = type

Sign(a, b) == IF a < b THEN -1 ELSE IF a > b THEN 1 ELSE 0
Comparable(a, b) == a.type = b.type \/ {a.type, b.type} \subseteq Numeric

LessForSort(a, b) ==
    a.type # "null" /\ (b.type = "null" \/ Sign(a.v, b.v) < 0)

Holds(op, sign) ==
    CASE op = "eq" -> sign = 0 [] op = "neq" -> sign # 0
      [] op = "lt" -> sign < 0 [] op = "lte" -> sign <= 0
      [] op = "gt" -> sign > 0 [] op = "gte" -> sign >= 0

(* evaluate(): "true", "false", or "error" where the code throws.          *)
Truth(b) == IF b THEN "true" ELSE "false"
Compare(expr, row) ==
    IF expr.column \notin DOMAIN row THEN "error"
    ELSE LET a == row[expr.column]
             b == expr.value
         IN  IF "null" \in {a.type, b.type} THEN "false"
             ELSE IF ~ Comparable(a, b) THEN "error"
             ELSE Truth(Holds(expr.op, Sign(a.v, b.v)))

RECURSIVE Evaluate(_, _)
Evaluate(expr, row) ==
    CASE expr.kind = "always" -> "true"      \* no WHERE clause
      [] expr.kind = "comparison" -> Compare(expr, row)
      [] expr.kind = "not" ->
            LET r == Evaluate(expr.operand, row)
            IN  IF r = "error" THEN r ELSE Truth(r = "false")
      [] expr.kind \in {"and", "or"} ->
            LET l == Evaluate(expr.left, row)
                decided == IF expr.kind = "and" THEN "false" ELSE "true"
            IN  IF l \in {"error", decided} THEN l
                ELSE Evaluate(expr.right, row)

-----------------------------------------------------------------------------
(* The statements as functions of the columns and rows a transaction read. *)

Names(columns) == [i \in DOMAIN columns |-> columns[i].name]
Known(columns, names) == ToSet(names) \subseteq ToSet(Names(columns))
TypeOf(columns, name) ==
    LET i == CHOOSE i \in DOMAIN columns : columns[i].name = name
             /\ \A j \in 1 .. i - 1 : columns[j].name # name
    IN  columns[i].type

(* coerce and assign_literal for each name in turn.                        *)
Assigned(columns, row, names, values) ==
    LET fits == \A i \in DOMAIN values :
                    Accepts(values[i], TypeOf(columns, names[i]))
        put(r, i) == [r EXCEPT ![names[i]] =
                          Coerce(values[i], TypeOf(columns, names[i]))]
    IN  [ok |-> fits,
         row |-> IF fits THEN FoldLeftDomain(put, row, values) ELSE row]

Insert(columns, rows, stmt) ==
    LET target == IF stmt.columns = << >> THEN Names(columns) ELSE stmt.columns
        blank == [c \in ToSet(Names(columns)) |-> NullLit]
        made == [i \in DOMAIN stmt.rows |->
                    IF Len(stmt.rows[i]) = Len(target)
                    THEN Assigned(columns, blank, target, stmt.rows[i])
                    ELSE [ok |-> FALSE, row |-> blank]]
    IN  IF Known(columns, target) /\ \A i \in DOMAIN made : made[i].ok
        THEN Done(rows \o [i \in DOMAIN made |-> made[i].row], Len(made))
        ELSE Failed

Hits(rows, where) == {i \in DOMAIN rows : Evaluate(where, rows[i]) = "true"}
Evaluable(rows, where) ==
    \A i \in DOMAIN rows : Evaluate(where, rows[i]) # "error"

(* SET assigns to rows already updated: where is evaluated row by row.     *)
Update(columns, rows, stmt) ==
    LET hits == Hits(rows, stmt.where)
        made == [i \in DOMAIN rows |->
                    IF i \in hits
                    THEN Assigned(columns, rows[i], stmt.columns, stmt.values)
                    ELSE [ok |-> TRUE, row |-> rows[i]]]
    IN  IF Known(columns, stmt.columns) /\ Evaluable(rows, stmt.where)
           /\ \A i \in DOMAIN made : made[i].ok
        THEN Done([i \in DOMAIN made |-> made[i].row], Cardinality(hits))
        ELSE Failed

Kept(rows, indices) ==
    LET order == SelectSeq([i \in DOMAIN rows |-> i], LAMBDA i : i \in indices)
    IN  [k \in DOMAIN order |-> rows[order[k]]]

Delete(columns, rows, stmt) ==
    IF Evaluable(rows, stmt.where)
    THEN LET hits == Hits(rows, stmt.where)
         IN  Done(Kept(rows, DOMAIN rows \ hits), Cardinality(hits))
    ELSE Failed

(* stable_sort by a comparator: rows that compare equal keep their order.  *)
SortedBy(rows, less(_, _)) ==
    LET before(i, j) == \/ less(rows[i], rows[j])
                        \/ ~ less(rows[j], rows[i]) /\ i < j
        at(k) == CHOOSE i \in DOMAIN rows :
                     Cardinality({j \in DOMAIN rows : before(j, i)}) = k - 1
    IN  [k \in DOMAIN rows |-> rows[at(k)]]


(* Descending order swaps the arguments of the ascending comparator, which *)
(* puts the NULLs first.                                                   *)
Ordered(rows, stmt) ==
    IF stmt.descending
    THEN SortedBy(rows, LAMBDA a, b : LessForSort(b[stmt.orderBy], a[stmt.orderBy]))
    ELSE SortedBy(rows, LAMBDA a, b : LessForSort(a[stmt.orderBy], b[stmt.orderBy]))

Select(columns, rows, stmt) ==
    LET projection == IF stmt.columns = << >> THEN Names(columns) ELSE stmt.columns
        matched == Kept(rows, Hits(rows, stmt.where))
        sorted == IF stmt.orderBy = "" THEN matched ELSE Ordered(matched, stmt)
        cut == IF stmt.limit >= 0 /\ stmt.limit < Len(sorted)
               THEN SubSeq(sorted, 1, stmt.limit) ELSE sorted
        order == IF stmt.orderBy = "" THEN << >> ELSE <<stmt.orderBy>>
    IN  IF Known(columns, projection \o order) /\ Evaluable(rows, stmt.where)
        THEN Done([i \in DOMAIN cut |->
                      [k \in DOMAIN projection |-> cut[i][projection[k]]]],
                  Len(cut))
        ELSE Failed

Run(columns, rows, stmt) ==
    CASE stmt.kind = "insert" -> Insert(columns, rows, stmt)
      [] stmt.kind = "update" -> Update(columns, rows, stmt)
      [] stmt.kind = "delete" -> Delete(columns, rows, stmt)
      [] stmt.kind = "select" -> Select(columns, rows, stmt)

-----------------------------------------------------------------------------
(* Execution.                                                              *)

SqlInit ==
    /\ catalog = [version |-> 0, of |-> [t \in Tables |-> NoTable]]
    /\ table = [t \in Tables |-> [version |-> 0, rows |-> << >>]]
    /\ sess = [s \in Sessions |-> Idle]
    /\ submitted = 0
    /\ log = [t \in Tables |-> << >>]

Outcome(s, stmt, result, columns) ==
    sess' = [sess EXCEPT ![s] = [pc |-> "done", stmt |-> stmt,
                                 result |-> result, columns |-> columns]]

(* parse, begin() and the read of the catalog; an error ends the statement.*)
(* tx.root() of a missing catalog materializes it, but nothing commits it. *)
Submit(s, stmt) ==
    LET columns == catalog.of[stmt.table]
        refused == (stmt.kind = "create") # (columns = NoTable)
    IN  /\ sess[s] = Idle /\ submitted < MaxStatements
        /\ submitted' = submitted + 1
        /\ IF refused
           THEN Outcome(s, stmt, Failed, columns)
           ELSE sess' = [sess EXCEPT ![s] =
                  [pc |-> "open", stmt |-> stmt, columns |-> columns,
                   base |-> catalog.version]]
        /\ UNCHANGED <<catalog, table, log>>

(* The read of the table's root, and the statement on the working copy.    *)
OpenTable(s) ==
    LET stmt == sess[s].stmt
        at == table[stmt.table]
        result == IF stmt.kind = "create" THEN Done(at.rows, 1)
                  ELSE Run(sess[s].columns, at.rows, stmt)
    IN  /\ sess[s].pc = "open"
        /\ IF result.ok /\ stmt.kind # "select" /\ result.touched > 0
           THEN sess' = [sess EXCEPT ![s] =
                  [pc |-> "commit", stmt |-> stmt, columns |-> sess[s].columns,
                   base |-> sess[s].base, expected |-> at.version,
                   result |-> result]]
           ELSE Outcome(s, stmt, result, sess[s].columns)
        /\ UNCHANGED <<catalog, table, submitted, log>>

(* Seeded faults for Conflict: the table's version, or the catalog's, is   *)
(* not compared.                                                           *)
CatalogConflict(s) ==
    sess[s].stmt.kind = "create" /\ sess[s].base # catalog.version
TableConflict(s) == sess[s].expected # table[sess[s].stmt.table].version

(* Only written roots are validated: CREATE writes both, the others the    *)
(* table.                                                                  *)
Conflict(s) == CatalogConflict(s) \/ TableConflict(s)

Commit(s) ==
    LET stmt == sess[s].stmt
        t == stmt.table
    IN  /\ sess[s].pc = "commit"
        /\ IF Conflict(s)
           THEN /\ Outcome(s, stmt, Failed, sess[s].columns)
                /\ UNCHANGED <<catalog, table, log>>
           ELSE /\ table' = [table EXCEPT ![t] =
                       [version |-> sess[s].expected + 1,
                        rows |-> sess[s].result.rows]]
                /\ catalog' = IF stmt.kind # "create" THEN catalog
                      ELSE [version |-> sess[s].base + 1,
                            of |-> [catalog.of EXCEPT ![t] = stmt.columns]]
                /\ log' = [log EXCEPT ![t] = Append(@, stmt)]
                /\ Outcome(s, stmt, sess[s].result, sess[s].columns)
        /\ UNCHANGED submitted

(* The result is printed; the session reads its next statement.            *)
Report(s) ==
    /\ sess[s].pc = "done"
    /\ sess' = [sess EXCEPT ![s] = Idle]
    /\ UNCHANGED <<catalog, table, submitted, log>>

SqlNext == \E s \in Sessions :
    \/ \E stmt \in Statements : Submit(s, stmt)
    \/ OpenTable(s) \/ Commit(s) \/ Report(s)

SqlSpec == SqlInit /\ [][SqlNext]_qvars

-----------------------------------------------------------------------------
(* Rows that have the columns declared, with values of the declared types. *)
Conform(rows, columns) ==
    \A i \in DOMAIN rows :
        /\ DOMAIN rows[i] = ToSet(Names(columns))
        /\ \A c \in DOMAIN rows[i] :
              rows[i][c].type \in {"null", TypeOf(columns, c)}

(* A table exists exactly when the catalog lists it, and its rows conform  *)
(* to the catalog: CREATE writes two roots, and the other statements trust *)
(* a catalog they read but do not validate at commit.                      *)
RowsConform ==
    \A t \in Tables :
        /\ (catalog.of[t] = NoTable) = (table[t].version = 0)
        /\ Conform(table[t].rows, catalog.of[t])

(* The rows after the first n committed writes of a table, one by one.     *)
Replay(t, n) ==
    FoldLeft(LAMBDA rows, stmt : IF stmt.kind = "create" THEN rows
                                 ELSE Run(catalog.of[t], rows, stmt).rows,
             << >>, SubSeq(log[t], 1, n))

(* Concurrent sessions never lose or invent a change: a table holds what   *)
(* its committed statements, executed one at a time, produce.              *)
SerialHistory == \A t \in Tables : table[t].rows = Replay(t, Len(log[t]))

(* A SELECT answers from one committed state of its table.                 *)
ReadsCommitted ==
    \A s \in Sessions :
        sess[s].pc = "done" /\ sess[s].stmt.kind = "select"
        /\ sess[s].result.ok =>
          \E n \in 0 .. Len(log[sess[s].stmt.table]) :
              sess[s].result = Select(catalog.of[sess[s].stmt.table],
                                      Replay(sess[s].stmt.table, n),
                                      sess[s].stmt)

(* The ORDER BY key of a row of the answer, if the answer shows it.        *)
OrderedAnswer(s) ==
    sess[s].pc = "done" /\ sess[s].stmt.kind = "select" /\ sess[s].result.ok
    /\ sess[s].stmt.orderBy \in ToSet(sess[s].stmt.columns)
KeyIn(row, stmt) ==
    row[CHOOSE k \in DOMAIN stmt.columns : stmt.columns[k] = stmt.orderBy]
WithKey(rows, stmt, key) == SelectSeq(rows, LAMBDA r : KeyIn(r, stmt) = key)

(* Keys ascend with NULLs last, or descend with NULLs first.  (The comment *)
(* above less_for_sort says that they come last in both directions.)       *)
InOrder(a, b) == b.type = "null" \/ (a.type # "null" /\ a.v <= b.v)
MayPrecede(stmt, a, b) ==
    IF stmt.descending THEN InOrder(b, a) ELSE InOrder(a, b)


=============================================================================

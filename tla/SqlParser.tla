----------------------------- MODULE SqlParser -----------------------------
(***************************************************************************)
(* The recursive-descent parser of parse_statement.hpp over sequences of   *)
(* tokens that end with "end".  A parser is an operator of the tokens and  *)
(* a position; it answers [ok, at, val]: whether it succeeded, the next    *)
(* position, and what it built.  The state machine submits the texts of    *)
(* well formed statements and what single edits make of them.              *)
(***************************************************************************)
EXTENDS Integers, Sequences, SequencesExt, FiniteSets

CONSTANTS Idents, Ints, Types, Comparators,  \* classes of tokens
          Statements,   \* statements whose texts are submitted
          MaxEdits      \* bound: edits of a submitted text

VARIABLES tokens, edits
pvars == <<tokens, edits>>

Literals == Ints \cup {"'x'", "true", "null"}
Punctuation == {"(", ")", ",", "*", ";"}
Keywords == {"create", "table", "insert", "into", "values", "select", "from",
             "where", "order", "by", "asc", "desc", "limit", "update", "set",
             "delete", "and", "or", "not"}
Tokens == Idents \cup Literals \cup Types \cup Comparators
          \cup Punctuation \cup Keywords
Always == [kind |-> "always"]      \* no WHERE clause

-----------------------------------------------------------------------------
(* token_stream: match() and expect() for a run of token classes.          *)

Good(at, val) == [ok |-> TRUE, at |-> at, val |-> val]
Bad(at, val) == [ok |-> FALSE, at |-> at, val |-> val]
Looking(ts, i, token) == ts[i] = token
Skip(ts, i, token) == IF Looking(ts, i, token) THEN i + 1 ELSE i

Take(ts, i, shape) ==
    IF /\ i + Len(shape) - 1 <= Len(ts)
       /\ \A k \in DOMAIN shape : ts[i + k - 1] \in shape[k]
    THEN Good(i + Len(shape), SubSeq(ts, i, i + Len(shape) - 1))
    ELSE Bad(i, << >>)

(* One or more items of a shape, separated by commas.                      *)
RECURSIVE TakeList(_, _, _)
TakeList(ts, i, shape) ==
    LET item == Take(ts, i, shape)
        rest == TakeList(ts, item.at + 1, shape)
    IN  IF ~ item.ok THEN Bad(i, << >>)
        ELSE IF ~ Looking(ts, item.at, ",") THEN Good(item.at, <<item.val>>)
        ELSE [rest EXCEPT !.val = <<item.val>> \o @]

NameShape == <<Idents>>
ColumnShape == <<Idents, Types>>
LiteralShape == <<Literals>>
AssignmentShape == <<Idents, {"="}, Literals>>
ComparisonShape == <<Idents, Comparators, Literals>>

-----------------------------------------------------------------------------
(* Expressions: NOT binds tighter than AND, AND tighter than OR, and both  *)
(* associate to the left.                                                  *)

Negation(operand) == [kind |-> "not", operand |-> operand]
Comparison(parts) == [kind |-> "comparison", of |-> parts]

RECURSIVE ParseExpression(_, _)
RECURSIVE ParseUnary(_, _)
ParseUnary(ts, i) ==
    IF Looking(ts, i, "not")
    THEN LET operand == ParseUnary(ts, i + 1)
         IN  [operand EXCEPT !.val = Negation(@)]
    ELSE IF Looking(ts, i, "(")
    THEN LET inner == ParseExpression(ts, i + 1)
         IN  IF inner.ok /\ Looking(ts, inner.at, ")")
             THEN Good(inner.at + 1, inner.val) ELSE Bad(i, Always)
    ELSE LET cmp == Take(ts, i, ComparisonShape)
         IN  [cmp EXCEPT !.val = Comparison(@)]

Logical(op, left, right) == [kind |-> op, left |-> left, right |-> right]

RECURSIVE AndRest(_, _)
AndRest(ts, left) ==
    IF ~ left.ok \/ ~ Looking(ts, left.at, "and") THEN left
    ELSE LET right == ParseUnary(ts, left.at + 1)
         IN  AndRest(ts, [right EXCEPT !.val = Logical("and", left.val, @)])
ParseAnd(ts, i) == AndRest(ts, ParseUnary(ts, i))

RECURSIVE OrRest(_, _)
OrRest(ts, left) ==
    IF ~ left.ok \/ ~ Looking(ts, left.at, "or") THEN left
    ELSE LET right == ParseAnd(ts, left.at + 1)
         IN  OrRest(ts, [right EXCEPT !.val = Logical("or", left.val, @)])
ParseExpression(ts, i) == OrRest(ts, ParseAnd(ts, i))

ParseWhere(ts, i) ==
    IF Looking(ts, i, "where") THEN ParseExpression(ts, i + 1)
    ELSE Good(i, Always)

-----------------------------------------------------------------------------
(* Statements.                                                             *)

ParseCreateTable(ts) ==
    LET head == Take(ts, 1, <<{"create"}, {"table"}, Idents, {"("}>>)
        columns == TakeList(ts, head.at, ColumnShape)
        tail == Take(ts, columns.at, <<{")"}>>)
    IN  IF head.ok /\ columns.ok /\ tail.ok
        THEN Good(tail.at, [kind |-> "create", table |-> head.val[3],
                            columns |-> columns.val])
        ELSE Bad(1, Always)

(* "(" items ")", and one or more of them (parse_value_tuple).             *)
TakeGroup(ts, i, shape) ==
    LET items == TakeList(ts, i + 1, shape)
    IN  IF Looking(ts, i, "(") /\ items.ok /\ Looking(ts, items.at, ")")
        THEN Good(items.at + 1, items.val) ELSE Bad(i, << >>)

RECURSIVE TakeTuples(_, _)
TakeTuples(ts, i) ==
    LET tuple == TakeGroup(ts, i, LiteralShape)
        rest == TakeTuples(ts, tuple.at + 1)
    IN  IF ~ tuple.ok THEN Bad(i, << >>)
        ELSE IF ~ Looking(ts, tuple.at, ",") THEN Good(tuple.at, <<tuple.val>>)
        ELSE [rest EXCEPT !.val = <<tuple.val>> \o @]

ParseInsert(ts) ==
    LET head == Take(ts, 1, <<{"insert"}, {"into"}, Idents>>)
        columns == IF Looking(ts, head.at, "(")
                   THEN TakeGroup(ts, head.at, NameShape) ELSE Good(head.at, << >>)
        values == Take(ts, columns.at, <<{"values"}>>)
        rows == TakeTuples(ts, values.at)
    IN  IF head.ok /\ columns.ok /\ values.ok /\ rows.ok
        THEN Good(rows.at, [kind |-> "insert", table |-> head.val[3],
                            columns |-> columns.val, rows |-> rows.val])
        ELSE Bad(1, Always)

(* ORDER BY name [ASC | DESC], and LIMIT n.                                *)
ParseOrder(ts, i) ==
    LET by == Take(ts, i, <<{"order"}, {"by"}, Idents>>)
    IN  IF ~ Looking(ts, i, "order")
        THEN Good(i, [by |-> "", descending |-> FALSE])
        ELSE IF ~ by.ok THEN Bad(i, Always)
        ELSE LET descending == Looking(ts, by.at, "desc")
             IN  Good(IF descending THEN by.at + 1 ELSE Skip(ts, by.at, "asc"),
                      [by |-> by.val[3], descending |-> descending])
ParseLimit(ts, i) ==
    IF Looking(ts, i, "limit") THEN Take(ts, i, <<{"limit"}, Ints>>)
    ELSE Good(i, << >>)

ParseSelect(ts) ==
    LET columns == IF Looking(ts, 2, "*") THEN Good(3, << >>)
                   ELSE TakeList(ts, 2, NameShape)
        from == Take(ts, columns.at, <<{"from"}, Idents>>)
        where == ParseWhere(ts, from.at)
        order == ParseOrder(ts, where.at)
        limit == ParseLimit(ts, order.at)
    IN  IF columns.ok /\ from.ok /\ where.ok /\ order.ok /\ limit.ok
        THEN Good(limit.at, [kind |-> "select", table |-> from.val[2],
                             columns |-> columns.val, where |-> where.val,
                             order |-> order.val, limit |-> limit.val])
        ELSE Bad(1, Always)

ParseUpdate(ts) ==
    LET head == Take(ts, 1, <<{"update"}, Idents, {"set"}>>)
        set == TakeList(ts, head.at, AssignmentShape)
        where == ParseWhere(ts, set.at)
    IN  IF head.ok /\ set.ok /\ where.ok
        THEN Good(where.at, [kind |-> "update", table |-> head.val[2],
                             set |-> set.val, where |-> where.val])
        ELSE Bad(1, Always)

ParseDelete(ts) ==
    LET head == Take(ts, 1, <<{"delete"}, {"from"}, Idents>>)
        where == ParseWhere(ts, head.at)
    IN  IF head.ok /\ where.ok
        THEN Good(where.at, [kind |-> "delete", table |-> head.val[3],
                             where |-> where.val])
        ELSE Bad(1, Always)

ParseKind(ts) ==
    CASE ts[1] = "create" -> ParseCreateTable(ts)
      [] ts[1] = "insert" -> ParseInsert(ts)
      [] ts[1] = "select" -> ParseSelect(ts)
      [] ts[1] = "update" -> ParseUpdate(ts)
      [] ts[1] = "delete" -> ParseDelete(ts)
      [] OTHER -> Bad(1, Always)      \* empty or unrecognized statement

(* Seeded fault for Parse: what follows the statement is not looked at.    *)
ParsePrefix(ts) == ParseKind(ts)

Finish(ts, stmt) ==
    IF stmt.ok /\ Looking(ts, Skip(ts, stmt.at, ";"), "end")
    THEN stmt ELSE Bad(1, Always)
Parse(ts) == Finish(ts, ParseKind(ts))

-----------------------------------------------------------------------------
(* The reference: the text of a statement, with no parenthesis that        *)
(* precedence and left association make superfluous.                       *)

Parens(text) == <<"(">> \o text \o <<")">>
Listed(items) == FoldLeft(LAMBDA text, item :
                     IF text = << >> THEN item ELSE text \o <<",">> \o item,
                     << >>, items)

RECURSIVE Text(_)
TextUnless(kinds, e) == IF e.kind \in kinds THEN Parens(Text(e)) ELSE Text(e)
Text(e) ==
    CASE e.kind = "comparison" -> e.of
      [] e.kind = "not" -> <<"not">> \o TextUnless({"and", "or"}, e.operand)
      [] e.kind = "and" -> TextUnless({"or"}, e.left) \o <<"and">>
                           \o TextUnless({"and", "or"}, e.right)
      [] e.kind = "or" -> Text(e.left) \o <<"or">> \o TextUnless({"or"}, e.right)

WhereText(e) == IF e = Always THEN << >> ELSE <<"where">> \o Text(e)
OrderText(order) ==
    IF order.by = "" THEN << >>
    ELSE <<"order", "by", order.by>>
         \o IF order.descending THEN <<"desc">> ELSE << >>
StatementText(s) ==
    CASE s.kind = "create" ->
            <<"create", "table", s.table>> \o Parens(Listed(s.columns))
      [] s.kind = "insert" ->
            <<"insert", "into", s.table>>
            \o (IF s.columns = << >> THEN << >> ELSE Parens(Listed(s.columns)))
            \o <<"values">>
            \o Listed([i \in DOMAIN s.rows |-> Parens(Listed(s.rows[i]))])
      [] s.kind = "select" ->
            <<"select">>
            \o (IF s.columns = << >> THEN <<"*">> ELSE Listed(s.columns))
            \o <<"from", s.table>> \o WhereText(s.where)
            \o OrderText(s.order) \o s.limit
      [] s.kind = "update" ->
            <<"update", s.table, "set">> \o Listed(s.set) \o WhereText(s.where)
      [] s.kind = "delete" -> <<"delete", "from", s.table>> \o WhereText(s.where)

-----------------------------------------------------------------------------
(* Submitted texts.                                                        *)

ParserInit == /\ tokens \in {Append(StatementText(s), "end") : s \in Statements}
              /\ edits = 0

(* One token is left out, added, or typed in the place of another.         *)
Edit == \E i \in 1 .. Len(tokens) :
    /\ edits < MaxEdits
    /\ edits' = edits + 1
    /\ \E insert \in {<< >>} \cup {<<t>> : t \in Tokens}, drop \in {0, 1} :
          /\ i + drop <= Len(tokens)
          /\ tokens' = SubSeq(tokens, 1, i - 1) \o insert
                       \o SubSeq(tokens, i + drop, Len(tokens))

ParserSpec == ParserInit /\ [][Edit]_pvars

-----------------------------------------------------------------------------
Submitted(s) == Append(StatementText(s), "end")
Gives(parsed, s) == parsed.ok /\ parsed.val = s

(* Every statement is parsed back from its text: precedence and            *)
(* association of NOT, AND and OR are those of the reference.              *)
RoundTrip ==
    edits = 0 => \E s \in Statements : /\ tokens = Submitted(s)
                                       /\ Gives(Parse(tokens), s)

Words(ts) == SelectSeq(ts, LAMBDA t : t \notin {"(", ")", "asc", ";", "end"})
Understood(parsed) ==
    parsed.ok => /\ Words(Submitted(parsed.val)) = Words(tokens)
                 /\ Gives(Parse(Submitted(parsed.val)), parsed.val)

(* What the parser accepts it also understands: apart from parentheses,    *)
(* ASC and a final semicolon, the text of what it built is the text it was *)
(* given, and that text means the same statement.                          *)
NothingIgnored == Understood(Parse(tokens))
=============================================================================

----------------------------- MODULE MCModules ------------------------------
(***************************************************************************)
(* An instance of the command line and SQL modules for TLC: the statements *)
(* of concurrent interpreters (SqlInterpreter), the lines typed into the   *)
(* SQL shell (SqlRepl), and commands given to the command line (Cli).  The *)
(* three keep no state in common; a behaviour is about one of them.        *)
(***************************************************************************)
EXTENDS Integers, Sequences, SequencesExt, TLC

CONSTANTS Sessions,
          MaxStatements, MaxLines, MaxCommands    \* bounds

VARIABLES part,
          catalog, table, sess, submitted, log,        \* SqlInterpreter
          buffer, executed, entered, lines, pc,        \* SqlRepl
          heap, proc, possible, started                \* Cli

qvars == <<catalog, table, sess, submitted, log>>
lvars == <<buffer, executed, entered, lines, pc>>
clvars == <<heap, proc, possible, started>>
mvars == <<part, qvars, lvars, clvars>>

-----------------------------------------------------------------------------
(* One table with two possible schemas, and statements that succeed, fail  *)
(* before any row, fail in the middle of the rows, and touch none.         *)

Lit(type, v) == [type |-> type, v |-> v]
NullLit == Lit("null", 0)
Int1 == Lit("integer", 1)
Int2 == Lit("integer", 2)
TextA == Lit("text", 1)
Column(name, type) == [name |-> name, type |-> type]
Cmp(column, op, value) ==
    [kind |-> "comparison", column |-> column, op |-> op, value |-> value]
Always == [kind |-> "always"]
Create(columns) == [kind |-> "create", table |-> 1, columns |-> columns]
InsertInto(columns, rows) ==
    [kind |-> "insert", table |-> 1, columns |-> columns, rows |-> rows]
UpdateSet(columns, values, where) ==
    [kind |-> "update", table |-> 1, columns |-> columns, values |-> values,
     where |-> where]
DeleteFrom(where) == [kind |-> "delete", table |-> 1, where |-> where]
SelectFrom(columns, where, orderBy, descending, limit) ==
    [kind |-> "select", table |-> 1, columns |-> columns, where |-> where,
     orderBy |-> orderBy, descending |-> descending, limit |-> limit]

MCStatements == {
    Create(<<Column("a", "real"), Column("b", "text")>>),
    Create(<<Column("b", "integer")>>),
    InsertInto(<< >>, <<<<Int1, TextA>>, <<NullLit, NullLit>>,
                        <<Int1, NullLit>>, <<NullLit, TextA>>>>),
    InsertInto(<<"b">>, <<<<TextA>>, <<Int2>>>>),
    InsertInto(<<"b">>, <<<<Int2>>>>),
    UpdateSet(<<"a">>, <<Int2>>, [kind |-> "not", operand |-> Cmp("a", "lt", Int2)]),
    UpdateSet(<<"a", "b">>, <<NullLit, Int1>>, Always),
    DeleteFrom([kind |-> "or", left |-> Cmp("b", "eq", TextA),
                right |-> Cmp("a", "gte", Int2)]),
    SelectFrom(<< >>, [kind |-> "and", left |-> Cmp("b", "neq", NullLit),
                       right |-> Cmp("b", "lte", Int1)], "", FALSE, 1),
    SelectFrom(<<"a", "b">>, Always, "a", FALSE, 3),
    SelectFrom(<<"b", "a">>, Always, "a", TRUE, -1)}

Q == INSTANCE SqlInterpreter WITH Tables <- {1}, Statements <- MCStatements

-----------------------------------------------------------------------------
(* Lines of one or two characters, and some with a literal or a comment,   *)
(* plain or with a quote or semicolon.                                     *)

MCExit == <<".", "a">>
MCTables == <<".", "b">>
MCLines == SeqOf({"a", "'", ";", " ", "\f", "-", "!"}, 2)
           \cup {<<"1", ".", "1">>, <<"'", "'", "'">>, <<"'", ";", "'">>,
                 <<"!", "=">>, <<"-", "-", "a">>, <<"-", "-", "'">>, <<"-", "-", ";">>,
                 <<"a", ";", "-", "-">>, MCExit, MCTables}

R == INSTANCE SqlRepl WITH Lines <- MCLines, ExitLine <- MCExit, TablesLine <- MCTables

-----------------------------------------------------------------------------
(* Every command with the right and a wrong number of arguments.  A root   *)
(* with a dot has the name of a path into another, and objects have a key  *)
(* that is empty and one with a dot, as JSON allows.                       *)

Null == [kind |-> "null"]
Scalar == [kind |-> "scalar"]
Object(of) == [kind |-> "object", of |-> of]
Nested == Object(<<"k">> :> Object(<<"j">> :> Scalar @@ <<"">> :> Null)
                 @@ <<"k", "j">> :> Null)
MCRoots == {<<"a">>, <<"a", "k">>}
Invocation(commands, args, names, payloads) ==
    {[command |-> c, args |-> n, name |-> m, payload |-> p] :
        c \in commands, n \in args, m \in names, p \in payloads}
MCInvocations ==
    Invocation({"", "help", "checkpoint", "verify", "inspect"}, {0, 1}, {<<"a">>}, {Null})
    \cup Invocation({"get"}, {0, 1, 2},
                    MCRoots \cup {<<"a", "k", "j">>, <<"a", "">>, <<"", "a">>, <<"">>}, {Null})
    \cup Invocation({"delete"}, {1, 2}, MCRoots \cup {<<"">>}, {Null})
    \cup Invocation({"create", "update", "rename"}, {1, 2, 3}, MCRoots,
                    {Scalar, Nested, Null, [kind |-> "malformed"]})

L == INSTANCE Cli WITH RootNames <- MCRoots, Invocations <- MCInvocations

-----------------------------------------------------------------------------
ModulesInit == /\ part \in {"interpreter", "repl", "cli"}
               /\ Q!SqlInit /\ R!ReplInit /\ L!CliInit

Execute == part = "interpreter" /\ Q!SqlNext /\ UNCHANGED <<part, lvars, clvars>>
Type == part = "repl" /\ R!ReplNext /\ UNCHANGED <<part, qvars, clvars>>
Invoke == part = "cli" /\ L!CliNext /\ UNCHANGED <<part, qvars, lvars>>

ModulesNext == Execute \/ Type \/ Invoke
ModulesSpec == ModulesInit /\ [][ModulesNext]_mvars

MCSymmetry == Permutations(Sessions)

-----------------------------------------------------------------------------
(* A table exists exactly when the catalog lists it, and its rows conform  *)
(* to the catalog, which statements read and do not validate at commit.    *)
RowsConform == Q!RowsConform

(* Concurrent interpreters lose and invent nothing: a table holds what its *)
(* committed statements produce one at a time, and a SELECT answers from   *)
(* one committed state of its table.                                       *)
Serializable == Q!SerialHistory /\ Q!ReadsCommitted


(* However text is spread over lines, the shell executes the statements    *)
(* the tokenizer sees between its semicolons, unless a comment holds a     *)
(* quote or a semicolon, and it reads literals as written.                 *)
ShellFollowsLexer == R!SplitsAsLexed /\ R!LiteralsReread

(* get answers with the last acknowledged write, or with one that may have *)
(* happened, though processes die around their commit; and create replaces *)
(* no value that users were told of.                                       *)
GetTellsLastWrite == L!GetTellsLastWrite /\ L!CreateReplacesNothing

(* Every value that inspect prints under a root name and keys a path can   *)
(* name is printed by get of that path.                                    *)
InspectedIsReachable == L!InspectedIsReachable
=============================================================================

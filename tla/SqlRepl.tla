------------------------------ MODULE SqlRepl ------------------------------
(***************************************************************************)
(* The text side of the SQL module: tokenize() (tokenize.hpp), the search  *)
(* for the end of a statement (statement_splitter.hpp), and the loop of    *)
(* run() (run.hpp) that gathers lines in a buffer and executes the         *)
(* statements it finds.  Texts are sequences of one-character strings.     *)
(***************************************************************************)
EXTENDS Integers, Sequences, SequencesExt, FiniteSets

CONSTANTS Lines,                  \* lines a user may type
          ExitLine, TablesLine,   \* ".exit" and ".tables"
          MaxLines                \* bound: lines typed

VARIABLES buffer,     \* text not yet executed
          executed,   \* history: texts handed to the interpreter
          entered,    \* history: all text that went into the buffer
          lines, pc
lvars == <<buffer, executed, entered, lines, pc>>

NewLine == "\n"
Blanks == {" ", NewLine}             \* is_blank(): " \t\r\n"
Spaces == Blanks \cup {"\f"}          \* isspace(): \v and \f as well
Letters == {"a", "b"}
Digits == {"1", "2"}
Quote == "'"

-----------------------------------------------------------------------------
(* tokenize().  A token is its kind and its text; where the code throws,   *)
(* the token is unexpected or unterminated and the scan goes on after it.  *)

Token(kind, text, next) == [kind |-> kind, text |-> text, next |-> next]
CharAt(text, i) == IF i <= Len(text) THEN text[i] ELSE ""
From(text, i, j) == SubSeq(text, i, j - 1)

(* The first position from i on that is not in a class of characters.      *)
Span(text, i, class) ==
    CHOOSE j \in i .. Len(text) + 1 :
        /\ \A k \in i .. j - 1 : text[k] \in class
        /\ CharAt(text, j) \notin class

LineEnd(text, i) ==
    CHOOSE j \in i .. Len(text) + 1 :
        /\ \A k \in i .. j - 1 : text[k] # NewLine
        /\ j = Len(text) + 1 \/ text[j] = NewLine

LexNumber(text, i) ==
    LET whole == Span(text, i, Digits)
        real == CharAt(text, whole) = "." /\ CharAt(text, whole + 1) \in Digits
        next == IF real THEN Span(text, whole + 1, Digits) ELSE whole
    IN  Token(IF real THEN "real" ELSE "integer", From(text, i, next), next)

(* The literal whose characters so far are value; two quotes stand for one.*)
RECURSIVE LexString(_, _, _)
LexString(text, i, value) ==
    IF i > Len(text) THEN Token("unterminated", << >>, i)
    ELSE IF text[i] # Quote THEN LexString(text, i + 1, Append(value, text[i]))
    ELSE IF CharAt(text, i + 1) = Quote
         THEN LexString(text, i + 2, Append(value, Quote))
    ELSE Token("string", value, i + 1)

LexOne(text, i) ==
    LET c == text[i]
        two == c \o CharAt(text, i + 1)
    IN  CASE c \in Spaces -> Token("skip", << >>, i + 1)
          [] two = "--" ->
                Token("comment", From(text, i, LineEnd(text, i)), LineEnd(text, i))
          [] c \in Letters ->
                LET next == Span(text, i, Letters \cup Digits)
                IN  Token("word", From(text, i, next), next)
          [] c \in Digits -> LexNumber(text, i)
          [] c = Quote -> LexString(text, i + 1, << >>)
          [] two \in {"!=", "<>", "<=", ">="} -> Token(two, << >>, i + 2)
          [] two \notin {"--", "!=", "<>", "<=", ">="}
             /\ c \in {",", ".", "*", ";", "(", ")", "=", "<", ">"} ->
                Token(c, << >>, i + 1)
          [] OTHER -> Token("unexpected", << >>, i + 1)

RECURSIVE LexFrom(_, _)
LexFrom(text, i) ==
    IF i > Len(text) THEN << >>
    ELSE LET t == LexOne(text, i)
         IN  <<[kind |-> t.kind, text |-> t.text]>> \o LexFrom(text, t.next)
Lex(text) == SelectSeq(LexFrom(text, 1), LAMBDA t : t.kind \notin {"skip", "comment"})

-----------------------------------------------------------------------------
(* statement_splitter.hpp and is_blank().                                  *)

(* Seeded fault for InString: quotes are not looked at.                    *)
NeverInString(text, i) == FALSE

(* in_string after the characters before i: it flips at every quote.       *)
InString(text, i) ==
    Cardinality({k \in 1 .. i - 1 : text[k] = Quote}) % 2 = 1

Ends(text) == {i \in DOMAIN text : text[i] = ";" /\ ~ InString(text, i)}
FirstEnd(text) == CHOOSE i \in Ends(text) : \A j \in Ends(text) : i <= j
Blank(text) == ToSet(text) \subseteq Blanks

-----------------------------------------------------------------------------
(* run()                                                                   *)

ReplInit == /\ buffer = << >> /\ executed = << >> /\ entered = << >>
            /\ lines = 0 /\ pc = "read"

(* .exit and .tables are commands only while the buffer is empty.          *)
ReadLine(line) ==
    /\ pc = "read" /\ lines < MaxLines
    /\ lines' = lines + 1
    /\ UNCHANGED executed
    /\ IF buffer = << >> /\ line \in {ExitLine, TablesLine}
       THEN /\ pc' = IF line = ExitLine THEN "ended" ELSE "read"
            /\ UNCHANGED <<buffer, entered>>
       ELSE /\ pc' = "extract"
            /\ buffer' = buffer \o line \o <<NewLine>>
            /\ entered' = entered \o line \o <<NewLine>>

(* The next statement is taken out of the buffer and executed; an error is *)
(* printed and the loop goes on.                                           *)
Extract ==
    /\ pc = "extract" /\ Ends(buffer) # {}
    /\ LET end == FirstEnd(buffer)
           text == SubSeq(buffer, 1, end - 1)
       IN  /\ buffer' = SubSeq(buffer, end + 1, Len(buffer))
           /\ executed' = IF Blank(text) THEN executed ELSE Append(executed, text)
    /\ UNCHANGED <<entered, lines, pc>>

Settle ==
    /\ pc = "extract" /\ Ends(buffer) = {}
    /\ buffer' = IF Blank(buffer) THEN << >> ELSE buffer
    /\ pc' = "read"
    /\ UNCHANGED <<executed, entered, lines>>

(* End of input; like .exit it ends in checkpoint(), and an unfinished     *)
(* statement is dropped.                                                   *)
EndOfInput == pc = "read" /\ pc' = "ended"
              /\ UNCHANGED <<buffer, executed, entered, lines>>

ReplNext == (\E line \in Lines : ReadLine(line)) \/ Extract \/ Settle \/ EndOfInput
ReplSpec == ReplInit /\ [][ReplNext]_lvars

-----------------------------------------------------------------------------
(* The reference: the tokens of everything entered, cut after every ";".   *)
Cut(ts) ==
    FoldLeft(LAMBDA acc, t :
                 IF t.kind # ";" THEN [acc EXCEPT !.open = Append(@, t)]
                 ELSE [done |-> IF acc.open = << >> THEN acc.done
                                ELSE Append(acc.done, acc.open),
                       open |-> << >>],
             [done |-> << >>, open |-> << >>], ts)

(* The splitter knows no comments: it takes a quote or a semicolon in one  *)
(* for the edge of a literal or the end of a statement.                    *)
CommentsPlain(text) ==
    \A t \in ToSet(LexFrom(text, 1)) :
        t.kind = "comment" => {Quote, ";"} \cap ToSet(t.text) = {}

(* However the text is spread over lines, splitter and tokenizer agree on  *)
(* what is inside a string literal and what ends a statement: those        *)
(* executed are the ones the tokenizer sees between the semicolons of the  *)
(* whole text (and texts without a token, which it refuses), and what      *)
(* waits in the buffer is the statement begun since.  So .exit and .tables *)
(* are never taken out of a statement.  (The converse fails: a buffer with *)
(* only a form feed or a comment is not empty, and .exit no command.)      *)
SplitsAsLexed ==
    pc = "read" /\ CommentsPlain(entered) =>
        LET cut == Cut(Lex(entered))
        IN  /\ SelectSeq([i \in DOMAIN executed |-> Lex(executed[i])],
                         LAMBDA ts : ts # << >>) = cut.done
            /\ Lex(buffer) = cut.open

(* A token written out: the spelling that tokenize() reads it from.        *)
Spelled(t) ==
    IF t.kind # "string" THEN t.text
    ELSE <<Quote>> \o FlattenSeq([i \in DOMAIN t.text |->
            IF t.text[i] = Quote THEN <<Quote, Quote>> ELSE <<t.text[i]>>])
         \o <<Quote>>

(* Words, numbers and strings are read as written: spelling a literal and  *)
(* reading it back gives the literal (doubled quotes, digits after a dot). *)
LiteralsReread ==
    pc = "extract" => \A i \in DOMAIN Lex(entered) :
        LET t == Lex(entered)[i]
        IN  t.kind \in {"word", "integer", "real", "string"}
                => Lex(Spelled(t)) = <<t>>
=============================================================================

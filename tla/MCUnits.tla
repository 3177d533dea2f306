------------------------------ MODULE MCUnits -------------------------------
(***************************************************************************)
(* The sequential units for TLC: payload bytes (Codec), JSON texts (Json), *)
(* SQL token sequences (SqlParser), the payload cache (PayloadCache) and   *)
(* the value trees of transactions (ValueTree).                            *)
(* A behaviour is about one unit; for the three formats, `subject` is what *)
(* was written and `input` is what is read, after some edits.  Bytes of    *)
(* payloads have 8 values and words two bytes; values are nested twice;    *)
(* escapes are at the borders of the UTF-8 lengths and of the surrogates;  *)
(* SQL expressions have two levels and there is a statement for each       *)
(* optional clause; the cache has three bytes and payloads of one, two and *)
(* four, so that puts evict none, some, all, or are refused; trees start   *)
(* from committed roots, in three scenarios: one transaction that edits    *)
(* two roots and copies values between them; one that is moved, and out of *)
(* whose tree values are moved; and two, one after the other.              *)
(***************************************************************************)
EXTENDS Integers, Sequences, SequencesExt, TLC

CONSTANTS CodecEdits, JsonEdits, SqlEdits,   \* bounds: edits of an input
          TreeEdits,                         \* bound: edits of a tree
          MaxOps                             \* bound: operations on the cache

VARIABLES unit,
          subject, input, edits,
          lru, bytes, hits, misses, evictions, used,
          tx, store, held, begun
fvars == <<subject, input, edits>>
kvars == <<lru, bytes, hits, misses, evictions, used>>
treevars == <<tx, store, held, begun>>

Null == [tag |-> "null"]
Bool(b) == [tag |-> "boolean", on |-> b]
Whole(n) == [tag |-> "integer", num |-> n]
Num(n) == [tag |-> "number", num |-> n]
Str(s) == [tag |-> "string", items |-> s]
Arr(s) == [tag |-> "array", items |-> s]
Obj(s) == [tag |-> "object", items |-> s]

-----------------------------------------------------------------------------
(* Payloads: every kind of value, and the typed containers.                *)

CodecItems == {Null, Bool(TRUE), Str(<<5>>)}
CodecValues ==
    {Null, Bool(TRUE), Bool(FALSE), Whole(-32), Whole(31), Whole(-1), Num(63),
     Str(<< >>), Str(<<7, 0>>), Arr(<<Arr(<< >>), Obj(<< >>)>>)}
    \cup {Arr(s) : s \in SeqOf(CodecItems, 2)}
    \cup {Obj(<<<<<<1>>, v>>>>) : v \in CodecItems \cup {Arr(<<Null>>)}}
    \cup {Obj(<<<<<< >>, v>>, <<<<2>>, w>>>>) : v, w \in {Null, Bool(FALSE)}}

Type(t) == [t |-> t]
MapType(key, type) == [t |-> "map", key |-> Type(key), of |-> Type(type)]
Integers2 == [t |-> "vector", of |-> [t |-> "property", of |-> Type("integer")]]
Of(type, vals) == {[type |-> type, val |-> v] : v \in vals}
MCTyped == Of(Type("value"), CodecValues)
           \cup Of(Integers2, {<< >>, <<-1>>, <<9, -32>>})
           \cup Of(MapType("integer", "double"), {<< >>, <<<<-2, 3>>, <<1, 0>>>>})
           \cup Of(MapType("string", "string"), {<<<<<<3>>, <<4, 4>>>>>>})

C == INSTANCE Codec WITH Base <- 8, Width <- 2, Typed <- MCTyped,
         MaxEdits <- CodecEdits, original <- subject, bytes <- input

-----------------------------------------------------------------------------
(* JSON: values, and texts besides.                                        *)

KeyA == <<97>>
KeyAB == <<97, 98>>
JsonItems == {Null, Whole(10), Num(-50), Obj(<< >>)}
MCValues ==
    {Null, Bool(TRUE), Bool(FALSE), Whole(0), Whole(-7), Whole(99), Whole(-100), Num(50), Num(-105),
     Num(-10000), Num(10000), Num(-10100), Str(<< >>), Str(<<34, 92>>), Str(<<10, 31>>), Str(<<195, 169>>)}
    \cup {Arr(<<Obj(<< >>), Null>>)} \cup {Arr(s) : s \in SeqOf({Whole(10), Num(-50)}, 2)}
    \cup {Obj(<<<<KeyA, v>>>>) : v \in JsonItems}
    \cup {Obj(<<<<KeyA, Whole(1)>>, <<KeyAB, Whole(2)>>>>), Obj(<<<<KeyA, Arr(<<Null>>)>>>>)}

HexText(n) == [k \in 1 .. 4 |-> LET d == (n \div 16 ^ (4 - k)) % 16
                                IN  IF d < 10 THEN 48 + d ELSE 87 + d]
Escaped(n) == <<92, 117>> \o HexText(n)
Quoted(t) == <<34>> \o t \o <<34>>
MCSamples ==
    {Quoted(Escaped(n)) : n \in {0, 127, 128, 2047, 2048, 55295, 57344, 65535}}
    \cup {Quoted(Escaped(55296) \o Escaped(56320)), Quoted(Escaped(56319) \o Escaped(57343))}
    \cup {<<32, 45, 49, 46, 53, 101, 43, 49>>, <<49, 48, 101, 45, 50>>, <<49, 101, 57>>, <<49, 101, 45, 57>>,
          <<91, 32, 49, 32, 44, 10, 50, 93>>}

J == INSTANCE Json WITH MaxInt <- 99, MaxDouble <- 1000000, Values <- MCValues,
         Samples <- MCSamples, Alphabet <- {32, 34, 44, 45, 46, 48, 92, 93, 100, 101, 117},
         MaxEdits <- JsonEdits, value <- subject, text <- input

-----------------------------------------------------------------------------
(* SQL statements.                                                         *)

Comparisons == {[kind |-> "comparison", of |-> <<"a", "=", "1">>],
                [kind |-> "comparison", of |-> <<"b", "<", "null">>]}
Deeper(es) == es \cup {[kind |-> "not", operand |-> e] : e \in es}
                 \cup {[kind |-> op, left |-> l, right |-> r] :
                          op \in {"and", "or"}, l, r \in es}
Always == [kind |-> "always"]
Order(by, descending) == [by |-> by, descending |-> descending]
SelectStmt(columns, where, order, limit) ==
    [kind |-> "select", table |-> "b", columns |-> columns, where |-> where,
     order |-> order, limit |-> limit]

MCStatements ==
    {SelectStmt(<< >>, e, Order("", FALSE), << >>) : e \in Deeper(Deeper(Comparisons))}
    \cup {SelectStmt(c, w, o, l) :
            c \in {<< >>, <<<<"a">>>>, <<<<"b">>, <<"a">>>>},
            w \in {Always} \cup Comparisons,
            o \in {Order("", FALSE), Order("a", FALSE), Order("a", TRUE)},
            l \in {<< >>, <<"limit", "1">>}}
    \cup {[kind |-> "delete", table |-> "a", where |-> w] : w \in {Always} \cup Comparisons}
    \cup {[kind |-> "update", table |-> "a", set |-> s, where |-> w] :
            s \in {<<<<"a", "=", "1">>>>, <<<<"b", "=", "null">>, <<"a", "=", "1">>>>},
            w \in {Always} \cup Comparisons}
    \cup {[kind |-> "insert", table |-> "a", columns |-> c, rows |-> r] :
            c \in {<< >>, <<<<"a">>>>, <<<<"a">>, <<"b">>>>},
            r \in {<<<<<<"1">>>>>>, <<<<<<"1">>, <<"null">>>>, <<<<"true">>>>>>}}
    \cup {[kind |-> "create", table |-> "a", columns |-> c] :
            c \in {<<<<"a", "text">>>>, <<<<"a", "text">>, <<"b", "integer">>>>}}

P == INSTANCE SqlParser WITH Idents <- {"a", "b"}, Ints <- {"1"},
         Types <- {"integer", "text"}, Comparators <- {"=", "<"},
         Statements <- MCStatements, MaxEdits <- SqlEdits, tokens <- input

-----------------------------------------------------------------------------
(* The cache.                                                              *)

K == INSTANCE PayloadCache WITH
         Names <- {1, 2, 3}, Versions <- {1, 2}, Limit <- 3,
         Payloads <- {<<1>>, <<2, 3>>, <<4, 5, 6, 7>>}, NullPayload <- <<1>>

-----------------------------------------------------------------------------
(* The value trees.                                                        *)

Text1 == [kind |-> "string", size |-> 1]
List2 == [kind |-> "array", kids |-> <<[kind |-> "scalar", number |-> 7], Text1>>]
Map1 == [kind |-> "object", kids |-> ("k" :> Text1)]

E == INSTANCE ValueTree WITH
         Addresses <- {1}, Names <- {1, 2}, Keys <- {"k"}, Numbers <- {7},
         Committed <- {List2}, Uses <- {"copy_out"}, MaxTx <- 1,
         MaxEdits <- TreeEdits, MaxSize <- 2, MaxText <- 1
U == INSTANCE ValueTree WITH
         Addresses <- {1, 2}, Names <- {1}, Keys <- {"k"}, Numbers <- {7},
         Committed <- {Map1}, Uses <- {"move_transaction", "copy_out", "move_out"},
         MaxTx <- 1, MaxEdits <- TreeEdits, MaxSize <- 2, MaxText <- 1
A == INSTANCE ValueTree WITH
         Addresses <- {1}, Names <- {1}, Keys <- {"k"}, Numbers <- {7},
         Committed <- {Map1}, Uses <- {"move_out"}, MaxTx <- 2,
         MaxEdits <- TreeEdits, MaxSize <- 2, MaxText <- 1

-----------------------------------------------------------------------------
NoInput == subject = Null /\ input = << >> /\ edits = 0
NoTree == tx = << >> /\ store = << >> /\ held = Null /\ begun = 0

UnitsInit == /\ K!CacheInit
             /\ \/ unit = "codec" /\ C!CodecInit /\ NoTree
                \/ unit = "json" /\ J!JsonInit /\ NoTree
                \/ unit = "sql" /\ P!ParserInit /\ subject = Null /\ NoTree
                \/ unit = "cache" /\ NoInput /\ NoTree
                \/ unit = "edits" /\ NoInput /\ E!TreeInit
                \/ unit = "uses" /\ NoInput /\ U!TreeInit
                \/ unit = "again" /\ NoInput /\ A!TreeInit

DamageBytes == unit = "codec" /\ C!Damage /\ UNCHANGED <<unit, kvars, treevars>>
EditText == unit = "json" /\ J!Edit /\ UNCHANGED <<unit, kvars, treevars>>
EditTokens == unit = "sql" /\ P!Edit /\ UNCHANGED <<unit, subject, kvars, treevars>>
UseCache == unit = "cache" /\ K!CacheNext /\ UNCHANGED <<unit, fvars, treevars>>
UseTree == /\ \/ unit = "edits" /\ E!TreeNext
              \/ unit = "uses" /\ U!TreeNext
              \/ unit = "again" /\ A!TreeNext
           /\ UNCHANGED <<unit, subject, input, kvars>>

UnitsNext == DamageBytes \/ EditText \/ EditTokens \/ UseCache \/ UseTree
UnitsSpec == UnitsInit /\ [][UnitsNext]_<<unit, fvars, kvars, treevars>>

-----------------------------------------------------------------------------
(* What is written is read back, in all three formats: every payload by    *)
(* the codec that wrote it, every value from its JSON text apart from the  *)
(* kind of its whole numbers, every statement from the text with the       *)
(* fewest parentheses.                                                     *)
WrittenIsRead == /\ unit = "codec" => C!ReadsBack
                 /\ unit = "json" => J!WrittenIsRead
                 /\ unit = "sql" => P!RoundTrip

(* A payload cut short, or followed by anything, is refused by its codec.  *)
CutIsRefused == unit = "codec" => C!CutIsRefused

(* Damaged bytes that a codec accepts stand for a value a program can      *)
(* hold, and one commit of that value settles them.                        *)
AcceptedSettles == unit = "codec" => C!AcceptedSettles

(* No count in damaged bytes makes a decoder reserve memory for more       *)
(* elements than there are bytes.                                          *)
ReserveBounded == unit = "codec" => C!ReserveBounded

(* What the JSON parser accepts, write_json writes so that it is read with *)
(* the same meaning; whole numbers have one spelling; and escapes never    *)
(* give malformed UTF-8.                                                   *)
AcceptedIsWritable == unit = "json" => /\ J!AcceptedIsWritable
                                       /\ J!IntegersExact
                                       /\ J!EscapesGiveUtf8

(* What the SQL parser accepts it also understands: no token is ignored.   *)
NothingIgnored == unit = "sql" => P!NothingIgnored

(* The byte count that put's eviction loop works with is exactly the size  *)
(* of the retained payloads, and never over the configured limit.          *)
BytesExact == unit = "cache" => K!BytesExact

(* A put evicts from the cold end: an entry that survives an eviction was  *)
(* hit or stored later than every entry evicted.                           *)
EvictsColdest == [][unit = "cache" => K!EvictColdest]_kvars

(* Each operation of the cache does to the entries what the abstract cache *)
(* of HeapState may do, and keeps one entry per name.                      *)
ImplementsCache == [][unit = "cache" => K!AbstractStep]_kvars

(* No lost update: a working root whose content differs from what was      *)
(* loaded is dirty, whatever sequence of conversions, insertions, moves    *)
(* and copies changed it and at whatever depth (transaction::changed);     *)
(* except for a string moved out of it, which is left empty without an     *)
(* event, and edits after its transaction was moved.                       *)
DirtyComplete == /\ unit = "edits" => E!DirtyComplete
                 /\ unit = "uses" => U!DirtyComplete
                 /\ unit = "again" => A!DirtyComplete

(* Every node of a working root, container and string in it included, is   *)
(* bound to its own transaction and root (value::bind, rebind_all), unless *)
(* the transaction was moved since the root was opened.                    *)
BoundTogether == /\ unit = "edits" => E!BoundTogether
                 /\ unit = "uses" => U!BoundTogether
                 /\ unit = "again" => A!BoundTogether
=============================================================================

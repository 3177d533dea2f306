-------------------------------- MODULE Json --------------------------------
(***************************************************************************)
(* The JSON parser and writer (json_parser.hpp, write_json.hpp,            *)
(* write_string.hpp).  Texts are sequences of byte codes.  A parser is an  *)
(* operator of the text and a position; it answers [ok, at, val].  An      *)
(* integer is at most MaxInt and at least -MaxInt - 1 (int64), and a       *)
(* double counts hundredths up to MaxDouble.  The state machine submits    *)
(* the texts of values and what edits make of them.                        *)
(***************************************************************************)
EXTENDS Integers, Sequences, SequencesExt, FiniteSets

CONSTANTS MaxInt, MaxDouble,
          Values,     \* values whose texts are submitted
          Samples,    \* texts submitted besides
          Alphabet,   \* bytes that edits put in
          MaxEdits    \* bound: edits of a submitted text

VARIABLES text, value, edits
jvars == <<text, value, edits>>

None == [tag |-> "none"]       \* the text was not written from a value
Space == {32, 10, 13, 9}
Digits == 48 .. 57
Zero == 48
Minus == 45
Plus == 43
Dot == 46
QuoteMark == 34
Backslash == 92
Comma == 44
Colon == 58
OpenArray == 91
CloseArray == 93
OpenObject == 123
CloseObject == 125
LetterU == 117
NullText == <<110, 117, 108, 108>>
TrueText == <<116, 114, 117, 101>>
FalseText == <<102, 97, 108, 115, 101>>

-----------------------------------------------------------------------------
(* Scanning.                                                               *)

Good(at, val) == [ok |-> TRUE, at |-> at, val |-> val]
Bad == [ok |-> FALSE, at |-> 1, val |-> None]
At(t, i) == IF i <= Len(t) THEN t[i] ELSE -1
Span(t, i, class) == CHOOSE j \in i .. Len(t) + 1 :
    /\ \A k \in i .. j - 1 : t[k] \in class
    /\ At(t, j) \notin class
SkipSpace(t, i) == Span(t, i, Space)
Expect(t, i, word, val) ==
    IF i + Len(word) - 1 <= Len(t) /\ SubSeq(t, i, i + Len(word) - 1) = word
    THEN Good(i + Len(word), val) ELSE Bad

-----------------------------------------------------------------------------
(* Numbers.                                                                *)

Number(digits) == FoldLeft(LAMBDA n, d : 10 * n + d - Zero, 0, digits)
Piece(t, i, j) == SubSeq(t, i, j - 1)

Fits(n) == n \in -MaxInt - 1 .. MaxInt

(* from_chars: an integer if it fits in one; otherwise, and with a         *)
(* fraction or an exponent, a double.  One too large, or too small to      *)
(* differ from zero, is out of range.                                      *)
Converted(minus, whole, fraction, exponent, floating) ==
    LET sign == IF minus THEN -1 ELSE 1
        mantissa == Number(whole \o fraction)
        power == exponent - Len(fraction) + 2
        size == IF mantissa = 0 \/ power < -6 THEN 0
                ELSE IF power > 6 THEN MaxDouble + 1
                ELSE IF power >= 0 THEN mantissa * 10 ^ power
                ELSE mantissa \div 10 ^ (-power)
    IN  IF ~ floating /\ Fits(sign * Number(whole))
        THEN [ok |-> TRUE, val |-> [tag |-> "integer", num |-> sign * Number(whole)]]
        ELSE [ok |-> size <= MaxDouble /\ (size = 0 => mantissa = 0),
              val |-> [tag |-> "number", num |-> sign * size]]

(* Seeded fault for WholeOK: leading zeros are let through.                *)
AnyDigits(t, i, j) == j > i

WholeOK(t, i, j) == j > i /\ (t[i] = Zero => j = i + 1)

ParseNumber(t, i) ==
    LET minus == At(t, i) = Minus
        first == IF minus THEN i + 1 ELSE i
        point == Span(t, first, Digits)
        fractional == At(t, point) = Dot
        tail == IF fractional THEN Span(t, point + 1, Digits) ELSE point
        scaled == At(t, tail) \in {69, 101}     \* E, e
        signed == At(t, tail + 1) \in {Plus, Minus}
        power == IF signed THEN tail + 2 ELSE tail + 1
        end == IF scaled THEN Span(t, power, Digits) ELSE tail
        exponent == IF ~ scaled THEN 0
                    ELSE IF At(t, tail + 1) = Minus THEN -Number(Piece(t, power, end))
                    ELSE Number(Piece(t, power, end))
        r == Converted(minus, Piece(t, first, point), Piece(t, point + 1, tail),
                       exponent, fractional \/ scaled)
    IN  IF /\ WholeOK(t, first, point)
           /\ fractional => tail > point + 1
           /\ scaled => end > power
        THEN IF r.ok THEN Good(end, r.val) ELSE Bad
        ELSE Bad

-----------------------------------------------------------------------------
(* Strings.                                                                *)

HexDigit(c) == CASE c \in Digits -> c - Zero
                 [] c \in 97 .. 102 -> c - 87
                 [] c \in 65 .. 70 -> c - 55
                 [] OTHER -> 16
ParseHex(t, i) ==
    IF i + 3 > Len(t) \/ \E k \in i .. i + 3 : HexDigit(t[k]) = 16 THEN Bad
    ELSE Good(i + 4, FoldLeft(LAMBDA n, c : 16 * n + HexDigit(c), 0,
                              SubSeq(t, i, i + 3)))

AppendUtf8(out, code) ==
    out \o
    IF code <= 127 THEN <<code>>
    ELSE IF code <= 2047 THEN <<192 + code \div 64, 128 + (code % 64)>>
    ELSE IF code <= 65535
    THEN <<224 + code \div 4096, 128 + ((code \div 64) % 64), 128 + (code % 64)>>
    ELSE <<240 + code \div 262144, 128 + ((code \div 4096) % 64),
           128 + ((code \div 64) % 64), 128 + (code % 64)>>

High == 55296 .. 56319      \* D800 to DBFF
Low == 56320 .. 57343       \* DC00 to DFFF

(* A high surrogate needs a low one after it.                              *)
ParseEscapedCode(t, i) ==
    LET code == ParseHex(t, i)
        low == ParseHex(t, i + 6)
    IN  IF ~ code.ok \/ code.val \in Low THEN Bad
        ELSE IF code.val \notin High THEN code
        ELSE IF /\ At(t, i + 4) = Backslash /\ At(t, i + 5) = LetterU
                /\ low.ok /\ low.val \in Low
             THEN Good(i + 10, 65536 + (code.val - 55296) * 1024 + low.val - 56320)
             ELSE Bad

(* The escapes of one character, and what they stand for.                  *)
Escapes == (34 :> 34) @@ (92 :> 92) @@ (47 :> 47) @@ (98 :> 8) @@ (102 :> 12)
           @@ (110 :> 10) @@ (114 :> 13) @@ (116 :> 9)

RECURSIVE ParseChars(_, _, _)
ParseChars(t, i, out) ==
    LET c == At(t, i)
        e == At(t, i + 1)
        code == ParseEscapedCode(t, i + 2)
    IN  CASE c = QuoteMark -> Good(i + 1, out)
          [] c < 32 -> Bad              \* control character, or unterminated
          [] c \notin {QuoteMark, Backslash} /\ c >= 32 ->
                ParseChars(t, i + 1, Append(out, c))
          [] c = Backslash ->
                IF e \in DOMAIN Escapes
                THEN ParseChars(t, i + 2, Append(out, Escapes[e]))
                ELSE IF e = LetterU /\ code.ok
                THEN ParseChars(t, code.at, AppendUtf8(out, code.val))
                ELSE Bad
ParseString(t, i) ==
    IF At(t, i) # QuoteMark THEN Bad ELSE ParseChars(t, i + 1, << >>)

-----------------------------------------------------------------------------
(* Values.                                                                 *)

RECURSIVE ParseValue(_, _)
RECURSIVE ParseItems(_, _, _)
AfterItem(t, item, items) ==
    LET next == SkipSpace(t, item.at)
        all == Append(items, item.val)
    IN  IF ~ item.ok THEN Bad
        ELSE IF At(t, next) = CloseArray
        THEN Good(next + 1, [tag |-> "array", items |-> all])
        ELSE IF At(t, next) = Comma THEN ParseItems(t, next + 1, all)
        ELSE Bad
ParseItems(t, i, items) == AfterItem(t, ParseValue(t, SkipSpace(t, i)), items)
ParseArray(t, i) ==
    LET next == SkipSpace(t, i + 1)
    IN  IF At(t, next) = CloseArray
        THEN Good(next + 1, [tag |-> "array", items |-> << >>])
        ELSE ParseItems(t, next, << >>)

(* Objects are sequences of pairs in the order of their keys.              *)
KeyBefore(a, b) == \E n \in DOMAIN b : /\ n - 1 <= Len(a)
                                       /\ SubSeq(a, 1, n - 1) = SubSeq(b, 1, n - 1)
                                       /\ n > Len(a) \/ a[n] < b[n]
Keys(pairs) == {pairs[i][1] : i \in DOMAIN pairs}
Put(pairs, k, v) ==
    SelectSeq(pairs, LAMBDA p : KeyBefore(p[1], k)) \o <<<<k, v>>>>
    \o SelectSeq(pairs, LAMBDA p : KeyBefore(k, p[1]))

RECURSIVE ParsePairs(_, _, _)
AfterPair(t, key, item, pairs) ==
    LET next == SkipSpace(t, item.at)
        all == Put(pairs, key, item.val)
    IN  IF key \in Keys(pairs) \/ ~ item.ok THEN Bad
        ELSE IF At(t, next) = CloseObject
        THEN Good(next + 1, [tag |-> "object", items |-> all])
        ELSE IF At(t, next) = Comma THEN ParsePairs(t, next + 1, all)
        ELSE Bad
AfterKey(t, key, pairs) ==
    LET colon == SkipSpace(t, key.at)
    IN  IF ~ key.ok \/ At(t, colon) # Colon THEN Bad
        ELSE AfterPair(t, key.val, ParseValue(t, SkipSpace(t, colon + 1)), pairs)
ParsePairs(t, i, pairs) == AfterKey(t, ParseString(t, SkipSpace(t, i)), pairs)
ParseObject(t, i) ==
    LET next == SkipSpace(t, i + 1)
    IN  IF At(t, next) = CloseObject
        THEN Good(next + 1, [tag |-> "object", items |-> << >>])
        ELSE ParsePairs(t, next, << >>)

StringValue(s) ==
    IF s.ok THEN Good(s.at, [tag |-> "string", items |-> s.val]) ELSE Bad
ParseValue(t, i) ==
    LET c == At(t, i)
    IN  CASE c = 110 -> Expect(t, i, NullText, [tag |-> "null"])
          [] c = 116 -> Expect(t, i, TrueText, [tag |-> "boolean", on |-> TRUE])
          [] c = 102 -> Expect(t, i, FalseText, [tag |-> "boolean", on |-> FALSE])
          [] c = QuoteMark -> StringValue(ParseString(t, i))
          [] c = OpenArray -> ParseArray(t, i)
          [] c = OpenObject -> ParseObject(t, i)
          [] OTHER -> ParseNumber(t, i)

Finish(t, r) == IF r.ok /\ SkipSpace(t, r.at) = Len(t) + 1 THEN r ELSE Bad
Parse(t) == Finish(t, ParseValue(t, SkipSpace(t, 1)))

-----------------------------------------------------------------------------
(* Writing.                                                                *)

HexChar(d) == IF d < 10 THEN Zero + d ELSE 87 + d
WriteChar(c) ==
    LET letters == {e \in DOMAIN Escapes \ {47} : Escapes[e] = c}
    IN  IF letters # {} THEN <<Backslash, CHOOSE e \in letters : TRUE>>
        ELSE IF c < 32
        THEN <<Backslash, LetterU, Zero, Zero, HexChar(c \div 16), HexChar(c % 16)>>
        ELSE <<c>>
WriteString(s) ==
    <<QuoteMark>> \o FlattenSeq([i \in DOMAIN s |-> WriteChar(s[i])]) \o <<QuoteMark>>

RECURSIVE Decimal(_)
Decimal(n) == IF n < 10 THEN <<Zero + n>> ELSE Decimal(n \div 10) \o <<Zero + (n % 10)>>
Magnitude(n) == IF n < 0 THEN -n ELSE n
SignText(n) == IF n < 0 THEN <<Minus>> ELSE << >>

(* The shortest text of a double: a whole one is written without a point.  *)
WriteDouble(n) ==
    LET whole == Magnitude(n) \div 100
        rest == Magnitude(n) % 100
    IN  SignText(n) \o Decimal(whole)
        \o IF rest = 0 THEN << >>
           ELSE <<Dot>> \o IF rest % 10 = 0 THEN <<Zero + rest \div 10>>
                           ELSE <<Zero + rest \div 10, Zero + (rest % 10)>>

Joined(open, parts, close) ==
    <<open>> \o FoldLeft(LAMBDA t, part :
                   IF t = << >> THEN part ELSE t \o <<Comma>> \o part, << >>, parts)
    \o <<close>>

RECURSIVE Write(_)
Write(v) ==
    CASE v.tag = "null" -> NullText
      [] v.tag = "boolean" -> IF v.on THEN TrueText ELSE FalseText
      [] v.tag = "integer" -> SignText(v.num) \o Decimal(Magnitude(v.num))
      [] v.tag = "number" -> WriteDouble(v.num)
      [] v.tag = "string" -> WriteString(v.items)
      [] v.tag = "array" ->
            Joined(OpenArray, [i \in DOMAIN v.items |-> Write(v.items[i])], CloseArray)
      [] v.tag = "object" ->
            Joined(OpenObject, [i \in DOMAIN v.items |->
                       WriteString(v.items[i][1]) \o <<Colon>> \o Write(v.items[i][2])],
                   CloseObject)

-----------------------------------------------------------------------------
JsonInit == /\ edits = 0
            /\ \/ \E v \in Values : value = v /\ text = Write(v)
               \/ \E t \in Samples : value = None /\ text = t

Edit == \E i \in 1 .. Len(text) + 1, insert \in {<< >>} \cup {<<c>> : c \in Alphabet},
           drop \in {0, 1} :
    /\ edits < MaxEdits /\ edits' = edits + 1
    /\ i + drop <= Len(text) + 1
    /\ text' = SubSeq(text, 1, i - 1) \o insert \o SubSeq(text, i + drop, Len(text))
    /\ value' = None

JsonSpec == JsonInit /\ [][Edit]_jvars

-----------------------------------------------------------------------------
(* The value that the text of v stands for: JSON has one kind of number,   *)
(* and a double without a fraction comes back as an integer if it fits.    *)
RECURSIVE Reread(_)
Reread(v) ==
    CASE v.tag = "number" ->
            IF v.num % 100 = 0 /\ Fits(v.num \div 100)
            THEN [tag |-> "integer", num |-> (v.num \div 100)] ELSE v
      [] v.tag = "array" ->
            [v EXCEPT !.items = [i \in DOMAIN @ |-> Reread(@[i])]]
      [] v.tag = "object" ->
            [v EXCEPT !.items = [i \in DOMAIN @ |-> <<@[i][1], Reread(@[i][2])>>]]
      [] OTHER -> v

Gives(r, v) == r.ok /\ r.val = v

(* What is written is read back: every value, apart from the kind of its   *)
(* whole numbers, survives write_json and the parser.                      *)
WrittenIsRead == value # None => Gives(Parse(text), Reread(value))

Writable(r) == r.ok => Gives(Parse(Write(r.val)), Reread(r.val))

(* What the parser accepts can be written and read again with the same     *)
(* meaning: control characters and escapes, fractions and exponents.       *)
AcceptedIsWritable == Writable(Parse(text))

Exact(r) == r.ok /\ r.val.tag = "integer" =>
    SelectSeq(text, LAMBDA c : c \notin Space) \in {Write(r.val), <<Minus, Zero>>}

(* Whole numbers have one spelling: a text that is read as an integer is   *)
(* the text write_json writes for it, with nothing before or after it.     *)
IntegersExact == Exact(Parse(text))

(* A code point of UTF-8, and texts that are well formed.                  *)
Continues(s, i, n) == \A k \in 1 .. n : At(s, i + k) \in 128 .. 191
RECURSIVE Utf8From(_, _)
Utf8From(s, i) ==
    \/ i > Len(s)
    \/ s[i] < 128 /\ Utf8From(s, i + 1)
    \/ s[i] \in 194 .. 223 /\ Continues(s, i, 1) /\ Utf8From(s, i + 2)
    \/ /\ s[i] \in 224 .. 239 /\ Continues(s, i, 2)
       /\ s[i] = 224 => s[i + 1] >= 160
       /\ s[i] = 237 => s[i + 1] < 160          \* no surrogates
       /\ Utf8From(s, i + 3)
    \/ /\ s[i] \in 240 .. 244 /\ Continues(s, i, 3)
       /\ s[i] = 240 => s[i + 1] >= 144
       /\ s[i] = 244 => s[i + 1] < 144
       /\ Utf8From(s, i + 4)

WellFormed(r) == r.ok /\ r.val.tag = "string" => Utf8From(r.val.items, 1)

(* Escapes never produce malformed UTF-8: a text of ASCII characters gives *)
(* a well formed string, whatever its surrogates.                          *)
EscapesGiveUtf8 == ToSet(text) \subseteq 0 .. 127 => WellFormed(Parse(text))
=============================================================================

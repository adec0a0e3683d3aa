------------------------------- MODULE Lexing -------------------------------
(***************************************************************************)
(* The lexer of the C compiler (src-c/src/lexer.c) and the loop of         *)
(* --dump-tokens (main.c, run_dump_tokens) that asks it for tokens until   *)
(* the end of the file or an error.                                        *)
(*                                                                         *)
(* One step is one call of uc_lexer_next; there is an action for every     *)
(* scanner it dispatches to.  A text is a sequence of characters, and a    *)
(* token keeps the place of its first and last character, the position     *)
(* reported for it and its value.                                          *)
(***************************************************************************)
EXTENDS Integers, Sequences, FiniteSetsExt

CONSTANTS
  Texts,       \* the source texts considered
  InitialCap,  \* the size the buffers of a string literal start with (32)
  Half         \* half the number of values an integer literal can have (2^63)

ASSUME SizesAssumption == InitialCap \in Nat /\ InitialCap >= 4 /\ Half \in Nat \ {0}
ASSUME TextsAssumption == \A text \in Texts : text \in Seq(STRING)

VARIABLES
  src,     \* l->source
  at,      \* l->pos (counted from 1), l->line and l->column
  tokens,  \* the tokens returned
  over     \* has a buffer of a string literal been written beyond its end?
           \* ("raw" the one of the lexeme, "val" the one of the value)

vars == <<src, at, tokens, over>>

Digit   == {"0", "1", "2", "3", "4", "5", "6", "7", "8", "9"}
HexLow  == {"a", "b", "c", "d", "e", "f"}
HexHigh == {"A", "B", "C", "D", "E", "F"}
Hex     == Digit \cup HexLow \cup HexHigh
Alpha   == HexLow \cup HexHigh \cup
  {"g", "h", "i", "j", "k", "l", "m", "n", "o", "p", "q", "r", "s", "t", "u", "v", "w", "x", "y", "z",
   "G", "H", "I", "J", "K", "L", "M", "N", "O", "P", "Q", "R", "S", "T", "U", "V", "W", "X", "Y", "Z"}
is_ident_start == Alpha \cup {"_"}
is_ident_cont  == is_ident_start \cup Digit \cup {"$"}
Blank == {" ", "\t", "\n", "\r"}

Size == Len(src)
Has(i, c) == i <= Size /\ src[i] = c

\* The text from i to j as one string.
Spelt(i, j) ==
  LET spelt[k \in i - 1..j] == IF k = i - 1 THEN "" ELSE spelt[k - 1] \o src[k]
  IN  spelt[j]
\* The first place from i on whose character is not in S.
Past(i, S) == Min({k \in i..Size + 1 : k > Size \/ src[k] \notin S})

-----------------------------------------------------------------------------
(***************************************************************************)
(* Positions.                                                              *)
(***************************************************************************)
\* Mutant: the column goes on in the next line.
advance_one_on(l) ==
  IF l.pos > Size THEN l
  ELSE [pos |-> l.pos + 1, line |-> IF src[l.pos] = "\n" THEN l.line + 1 ELSE l.line,
        column |-> l.column + 1]
advance_one(l) ==
  IF l.pos > Size THEN l
  ELSE [pos    |-> l.pos + 1,
        line   |-> IF src[l.pos] = "\n" THEN l.line + 1 ELSE l.line,
        column |-> IF src[l.pos] = "\n" THEN 1 ELSE l.column + 1]

\* advance_one until l->pos is i or the text ends.
To(l, i) ==
  LET moved[n \in 0..i - l.pos] == IF n = 0 THEN l ELSE advance_one(moved[n - 1])
  IN  IF i <= l.pos THEN l ELSE moved[i - l.pos]

(***************************************************************************)
(* skip_whitespace_and_comments.  A block comment that is not closed ends  *)
(* before the last character of the text.                                  *)
(***************************************************************************)
CommentEnd(i) ==
  LET closed == Min({k \in i..Size : k = Size \/ (src[k] = "*" /\ src[k + 1] = "/")})
  IN  IF i >= Size THEN i ELSE IF closed = Size THEN Size ELSE closed + 2
LineEnd(i) == Min({k \in i..Size + 1 : k > Size \/ src[k] = "\n"})

\* Mutant: the search for the end of a comment starts at its star.
skip_from_star(i) ==
  IF i > Size THEN i
  ELSE IF src[i] \in Blank THEN i + 1
  ELSE IF src[i] = "/" /\ Has(i + 1, "/") THEN LineEnd(i)
  ELSE IF src[i] = "/" /\ Has(i + 1, "*") THEN CommentEnd(i + 1) ELSE i
skip_one(i) ==
  IF i > Size THEN i
  ELSE IF src[i] \in Blank THEN i + 1
  ELSE IF src[i] = "/" /\ Has(i + 1, "/") THEN LineEnd(i)
  ELSE IF src[i] = "/" /\ Has(i + 1, "*") THEN CommentEnd(i + 2) ELSE i
\* A turn moves on or is the last; there are at most Size that move on.
skip_whitespace_and_comments(i) ==
  LET skipped[n \in 0..Size] == IF n = 0 THEN i ELSE skip_one(skipped[n - 1])
  IN  skipped[Size]

\* Where the next token starts.
Start == To(at, skip_whitespace_and_comments(at.pos))
First == Start.pos

-----------------------------------------------------------------------------
(***************************************************************************)
(* Tokens.                                                                 *)
(***************************************************************************)
Token(kind, l, last) ==
  [kind |-> kind, first |-> l.pos, last |-> last, line |-> l.line, column |-> l.column,
   num |-> 0, text |-> << >>]

Return(t, l) ==
  /\ tokens' = Append(tokens, t)
  /\ at' = l
  /\ UNCHANGED src

Ended == tokens # << >> /\ tokens[Len(tokens)].kind \in {"Eof", "Error"}
Starts(S) == ~Ended /\ First <= Size /\ src[First] \in S

\* A token from the start to `last`.
Plain(kind, last) == Return(Token(kind, Start, last), To(Start, last + 1))

Init ==
  /\ src \in Texts
  /\ at = [pos |-> 1, line |-> 1, column |-> 1]
  /\ tokens = << >>
  /\ over = {}

ScanEof ==
  /\ ~Ended /\ First > Size
  /\ Return(Token("Eof", Start, First - 1), Start)
  /\ UNCHANGED over

-----------------------------------------------------------------------------
(***************************************************************************)
(* Directives, words and operators.                                        *)
(***************************************************************************)
PoundKind(name) ==
  CASE name = "import" -> "#import" [] name = "include" -> "#include" [] name = "define" -> "#define"
    [] name = "ifdef" -> "#ifdef" [] name = "ifndef" -> "#ifndef" [] name = "endif" -> "#endif"
    [] OTHER -> "Pound"

scan_preprocessor ==
  /\ Starts({"#"})
  /\ LET last == Past(First + 1, Alpha) - 1
     IN  Plain(PoundKind(Spelt(First + 1, last)), last)
  /\ UNCHANGED over

uc_keyword_at_lookup ==
  {<<"i", "f", "d", "e", "f">>, <<"i", "f">>, <<"e", "l", "s", "e">>, <<"e", "l", "i", "f">>, <<"e", "n", "d">>}

\* An `@` that no directive follows is an error, which is about the `@` alone
\* when no name follows it, and takes one more character.
scan_at_directive ==
  /\ Starts({"@"})
  /\ LET last == Past(First + 1, is_ident_cont) - 1
         name == SubSeq(src, First + 1, last)
     IN  IF First + 1 > Size \/ src[First + 1] \notin is_ident_start
         THEN Return(Token("Error", Start, First), To(Start, First + 2))
         ELSE Return([Token(IF name \in uc_keyword_at_lookup THEN "At" ELSE "Error", Start, last)
                        EXCEPT !.text = name], To(Start, last + 1))
  /\ UNCHANGED over

uc_keyword_lookup ==
  {"if", "else", "while", "for", "return", "struct", "export", "import", "const", "unique", "move",
   "free", "alloc", "null", "true", "false", "void", "extern", "unsafe", "as", "static", "clone",
   "asm", "break", "continue", "is_null", "sizeof", "alignof", "volatile", "mod", "unmod", "shared",
   "__thread", "move_to_thread", "typedef"}

\* Mutant: a `$` ends a word.
WordEndAtDollar(i) == Past(i, is_ident_cont \ {"$"}) - 1
WordEnd(i) == Past(i, is_ident_cont) - 1
scan_identifier ==
  /\ Starts(is_ident_start)
  /\ LET word == Spelt(First, WordEnd(First))
     IN  Plain(IF word \in uc_keyword_lookup THEN word ELSE "Ident", WordEnd(First))
  /\ UNCHANGED over

\* The characters that may follow a character in an operator; `<<` and `>>`
\* may be followed by one more.
Follow == [c \in {"+", "-", "*", "/", "%", "=", "!", "<", ">", "&", "|", "^", "~", "(", ")", "{", "}",
                  "[", "]", ",", ";", ":", ".", "?"} |->
  IF c \in {"+", "&", "|"} THEN {c, "="} ELSE IF c = "-" THEN {"-", "=", ">"}
  ELSE IF c \in {"<", ">"} THEN {"=", c} ELSE IF c = ":" THEN {":"}
  ELSE IF c \in {"*", "/", "%", "=", "!", "^"} THEN {"="} ELSE {}]
OperatorEnd(i) ==
  IF i + 1 > Size \/ src[i + 1] \notin Follow[src[i]] THEN i
  ELSE IF src[i] \in {"<", ">"} /\ src[i + 1] = src[i] /\ Has(i + 2, "=") THEN i + 2 ELSE i + 1
\* Some assignments are given the kind of the bare operator.
OperatorKind(o) ==
  IF o \in {<<"&", "=">>, <<"|", "=">>, <<"^", "=">>, <<"<", "<", "=">>, <<">", ">", "=">>}
  THEN SubSeq(o, 1, Len(o) - 1) ELSE o

scan_operator ==
  /\ Starts(DOMAIN Follow)
  /\ LET last == OperatorEnd(First)
     IN  Return([Token("Operator", Start, last) EXCEPT !.text = OperatorKind(SubSeq(src, First, last))],
                To(Start, last + 1))
  /\ UNCHANGED over

unknown_character ==
  /\ ~Ended /\ First <= Size
  /\ src[First] \notin DOMAIN Follow \cup is_ident_start \cup Digit \cup {"#", "@", "\"", "'"}
  /\ Return([Token("Error", Start, First) EXCEPT !.column = @ - 1], advance_one(Start))
  /\ UNCHANGED over

-----------------------------------------------------------------------------
(***************************************************************************)
(* Numbers.  A hexadecimal or binary literal is shifted in digit by digit  *)
(* and wraps; a decimal one is read by strtoll, which stops at the largest *)
(* value and takes no notice of a leading zero.                            *)
(***************************************************************************)
Low  == <<"0", "1", "2", "3", "4", "5", "6", "7", "8", "9", "a", "b", "c", "d", "e", "f">>
High == <<"0", "1", "2", "3", "4", "5", "6", "7", "8", "9", "A", "B", "C", "D", "E", "F">>
DigitValue(c) == CHOOSE n \in 0..15 : c \in {Low[n + 1], High[n + 1]}

Largest == Half - 1
\* Mutant: the value is collected without its sign.
WrappedUnsigned(n) == n % (2 * Half)
Wrapped(n) == ((n + Half) % (2 * Half)) - Half
Saturated(n) == IF n > Largest THEN Largest ELSE n

Shift(first, last, base) ==
  LET num[k \in first - 1..last] ==
        IF k = first - 1 THEN 0 ELSE Wrapped(num[k - 1] * base + DigitValue(src[k]))
  IN  num[last]
strtoll(first, last) ==
  LET num[k \in first - 1..last] ==
        IF k = first - 1 THEN 0 ELSE Saturated(num[k - 1] * 10 + DigitValue(src[k]))
  IN  num[last]

Prefixed(X) == src[First] = "0" /\ First + 1 <= Size /\ src[First + 1] \in X
scan_prefixed(base, digits) ==
  LET last == Past(First + 2, digits) - 1
  IN  Return([Token("Int", Start, last) EXCEPT !.num = Shift(First + 2, last, base)], To(Start, last + 1))

\* One point, and one exponent mark after it or without it; no sign.
DecimalEnd(i) ==
  LET point == Past(i, Digit)
      rest  == IF Has(point, ".") THEN Past(point + 1, Digit) ELSE point
  IN  IF Has(rest, "e") \/ Has(rest, "E") THEN Past(rest + 1, Digit) - 1 ELSE rest - 1

scan_decimal ==
  LET last == DecimalEnd(First)
  IN  IF \A k \in First..last : src[k] \in Digit
      THEN Return([Token("Int", Start, last) EXCEPT !.num = strtoll(First, last)], To(Start, last + 1))
      ELSE Plain("Float", last)

scan_number ==
  /\ Starts(Digit)
  /\ \/ Prefixed({"x", "X"}) /\ scan_prefixed(16, Hex)
     \/ Prefixed({"b", "B"}) /\ scan_prefixed(2, {"0", "1"})
     \/ ~Prefixed({"x", "X", "b", "B"}) /\ scan_decimal
  /\ UNCHANGED over

-----------------------------------------------------------------------------
(***************************************************************************)
(* String and character literals.                                          *)
(***************************************************************************)
Escapes == [c \in {"n", "t", "r", "\\", "'", "\""} |->
  IF c = "n" THEN "\n" ELSE IF c = "t" THEN "\t" ELSE IF c = "r" THEN "\r" ELSE c]
\* Mutant: the letter of an escape is kept.
DecodedRaw(c) == c
Decoded(c) == IF c \in DOMAIN Escapes THEN Escapes[c] ELSE c
\* The byte of a \xHH, named by its digits.
Byte(hi, lo) == "x" \o Low[DigitValue(hi) + 1] \o Low[DigitValue(lo) + 1]
IsHexEscape(i) == Has(i, "x") /\ i + 2 <= Size /\ src[i + 1] \in Hex /\ src[i + 2] \in Hex

\* A buffer has len characters of its cap.  Write adds n characters: those
\* that do not fit are written beyond the end.
Grow(b, needed) == IF needed > b.cap THEN [b EXCEPT !.cap = 2 * @] ELSE b
Write(b, n) ==
  [len |-> b.len + n, cap |-> b.cap, over |-> IF b.len + n > b.cap THEN TRUE ELSE b.over]
Buffer(len) == [len |-> len, cap |-> InitialCap, over |-> FALSE]

\* Mutant: the lexeme is not grown for a hexadecimal escape.
HexLexemeNotGrown(b) == Write(Write(b, 1), 3)
HexLexeme(b) == Write(Grow(Write(b, 1), b.len + 5), 3)

\* What one turn of the loop does at i: s holds the place, the buffers, the
\* value and whether the closing quote has been read.
String(i, raw, val, text, closed) == [i |-> i, raw |-> raw, val |-> val, text |-> text, closed |-> closed]
StringTurn(s) ==
  LET i    == s.i
      raw  == Grow(s.raw, s.raw.len + 2)
      val  == Grow(s.val, s.val.len + 2)
  IN  IF src[i] = "\"" THEN String(i + 1, Write(raw, 1), s.val, s.text, TRUE)
      ELSE IF src[i] # "\\"
      THEN String(i + 1, Write(raw, 1), Write(s.val, 1), Append(s.text, src[i]), FALSE)
      ELSE IF i = Size THEN String(i + 1, Write(raw, 1), s.val, s.text, FALSE)
      ELSE IF IsHexEscape(i + 1)
      THEN String(i + 4, HexLexeme(raw), Write(val, 1), Append(s.text, Byte(src[i + 2], src[i + 3])), FALSE)
      ELSE String(i + 2, Write(raw, 2), Write(val, 1), Append(s.text, Decoded(src[i + 1])), FALSE)
StringLoop(start) ==
  LET Turn(s) == IF s.closed \/ s.i > Size THEN s ELSE StringTurn(s)
      after[n \in 0..Size] == IF n = 0 THEN start ELSE Turn(after[n - 1])
  IN  after[Size]

\* The error for an unterminated literal is placed by the length of the lexeme
\* from where the text ends.
scan_string ==
  /\ Starts({"\""})
  /\ LET s == StringLoop(String(First + 1, Write(Buffer(0), 1), Buffer(0), << >>, FALSE))
         end == To(Start, s.i)
     IN  /\ Return(IF s.closed
                   THEN [Token("String", Start, s.i - 1) EXCEPT !.text = s.text]
                   ELSE [Token("Error", Start, s.i - 1) EXCEPT !.line = end.line,
                                                               !.column = end.column - s.raw.len], end)
         /\ over' = over \cup (IF s.raw.over THEN {"raw"} ELSE {}) \cup (IF s.val.over THEN {"val"} ELSE {})

\* A character or an escape, if the next character is not a quote, and the
\* closing quote if it is there.  \x and \" have no meaning of their own here.
scan_char ==
  /\ Starts({"'"})
  /\ LET i == First + 1
         escape == Has(i, "\\")
         body == IF i > Size \/ Has(i, "'") THEN 0 ELSE IF escape /\ i < Size THEN 2 ELSE 1
         value == IF body = 0 \/ (escape /\ body = 1) THEN << >>
                  ELSE IF escape THEN <<Decoded(src[i + 1])>> ELSE <<src[i]>>
         last == IF Has(i + body, "'") THEN i + body ELSE i + body - 1
     IN  Return([Token("Char", Start, last) EXCEPT !.text = value], To(Start, last + 1))
  /\ UNCHANGED over

Next ==
  \/ ScanEof \/ scan_preprocessor \/ scan_at_directive \/ scan_identifier \/ scan_operator
  \/ scan_number \/ scan_string \/ scan_char \/ unknown_character

Spec == Init /\ [][Next]_vars

-----------------------------------------------------------------------------
(***************************************************************************)
(* Properties.                                                             *)
(***************************************************************************)
Kinds == uc_keyword_lookup
  \cup {"#import", "#include", "#define", "#ifdef", "#ifndef", "#endif"}
  \cup {"Ident", "Int", "Float", "String", "Char", "Operator", "At", "Pound", "Eof", "Error"}

\* The position stays in the text, and every token has its kind and its place.
TypeOK ==
  /\ at.pos \in 1..Size + 1 /\ at.line \in 1..Size + 1 /\ at.column \in 1..Size + 1
  /\ over \subseteq {"raw", "val"}
  /\ \A n \in 1..Len(tokens) :
       LET t == tokens[n]
       IN  /\ t.kind \in Kinds
           /\ t.first \in 1..Size + 1 /\ t.last \in 0..Size
           /\ t.num \in -Half..Largest

Good(n) == tokens[n].kind # "Error"
GapStart(n) == IF n = 1 THEN 1 ELSE tokens[n - 1].last + 1

(***************************************************************************)
(* Nothing of the text is lost: what lies before a token is made of blanks *)
(* and whole comments.  A comment is the text from its opening to the next *)
(* newline, or to the first closing after the opening; a block comment     *)
(* that is never closed is the one thing that may lose part of the text.   *)
(***************************************************************************)
ClosingStar(i) == {k \in i + 2..Size - 1 : src[k] = "*" /\ src[k + 1] = "/"}
LineComment(i, j) ==
  /\ j > i /\ src[i] = "/" /\ src[i + 1] = "/"
  /\ \A k \in i..j : src[k] # "\n"
  /\ j = Size \/ src[j + 1] = "\n"
BlockComment(i, j) ==
  /\ j >= i + 3 /\ src[i] = "/" /\ src[i + 1] = "*"
  /\ j - 1 \in ClosingStar(i) /\ \A k \in ClosingStar(i) : k >= j - 1
Piece(i, j) == (j = i /\ src[i] \in Blank) \/ LineComment(i, j) \/ BlockComment(i, j)
\* The text from i to j falls into pieces, which start at cuts.
Skippable(i, j) ==
  \E cuts \in SUBSET (i..j + 1) :
    /\ {i, j + 1} \subseteq cuts
    /\ \A a, b \in cuts : a < b /\ cuts \cap a + 1..b - 1 = {} => Piece(a, b - 1)
\* A comment that is never closed swallows the text up to its last character.
LeftOpen(i, j) == j >= Size - 1 /\ \E k \in i..j - 1 :
  Skippable(i, k - 1) /\ src[k] = "/" /\ src[k + 1] = "*" /\ ClosingStar(k) = {}
NothingLost ==
  \A n \in 1..Len(tokens) :
    \/ Skippable(GapStart(n), tokens[n].first - 1)
    \/ LeftOpen(GapStart(n), tokens[n].first - 1)

\* A token's position is the one a reader counts: its line is one more than
\* the newlines before it, its column one more than the characters since the
\* last of them.
Newlines(i) == {k \in 1..i - 1 : src[k] = "\n"}
LineOf(i) == 1 + Cardinality(Newlines(i))
ColumnOf(i) == i - Max({0} \cup Newlines(i))
PositionsRight ==
  \A n \in 1..Len(tokens) : Good(n) =>
    tokens[n].line = LineOf(tokens[n].first) /\ tokens[n].column = ColumnOf(tokens[n].first)

(***************************************************************************)
(* The lexemes of the reference (docs/UltraCPP-v0.3.6-spec-en.md, sections *)
(* 2.2 to 2.6 and 12).  It leaves open what a `character` of a literal is: *)
(* in a string, all but a quote that no backslash escapes; in a character  *)
(* literal, which has no escapes, all but a quote and a backslash.         *)
(***************************************************************************)
All(i, j, S) == \A k \in i..j : src[k] \in S
Escaped(i) == \E k \in 0..i - 2 :
  /\ k % 2 = 0 /\ All(i - 1 - k, i - 1, {"\\"})
  /\ i - 2 - k < 1 \/ src[i - 2 - k] # "\\"
\* Digits with one point before, between or after them.
Pointed(i, j) == \E k \in i..j : src[k] = "." /\ All(i, k - 1, Digit) /\ All(k + 1, j, Digit)
OctalDigit == Digit \ {"8", "9"}

WordLexeme(i, j) == src[i] \in is_ident_start /\ All(i, j, is_ident_start \cup Digit)
IntLexeme(i, j) ==
  \/ src[i] \in Digit \ {"0"} /\ All(i, j, Digit)
  \/ src[i] = "0" /\ All(i, j, OctalDigit)
  \/ j > i + 1 /\ src[i] = "0" /\ src[i + 1] = "x" /\ All(i + 2, j, Hex)
  \/ j > i + 1 /\ src[i] = "0" /\ src[i + 1] = "b" /\ All(i + 2, j, {"0", "1"})
FloatLexeme(i, j) == j > i /\ Pointed(i, j)
Closing(i) == src[i] = "\"" /\ ~Escaped(i)
StringLexeme(i, j) ==
  j > i /\ src[i] = "\"" /\ Closing(j) /\ \A k \in i + 1..j - 1 : ~Closing(k)
CharLexeme(i, j) == j = i + 2 /\ src[i] = "'" /\ src[j] = "'" /\ src[i + 1] \notin {"'", "\\"}
DirectiveLexeme(i, j) == src[i] = "#" /\ SubSeq(src, i + 1, j) \in
  {<<"i", "m", "p", "o", "r", "t">>, <<"i", "n", "c", "l", "u", "d", "e">>, <<"d", "e", "f", "i", "n", "e">>,
   <<"m", "o", "d", "l", "a", "w">>, <<"i", "f", "d", "e", "f">>, <<"i", "f", "n", "d", "e", "f">>,
   <<"i", "f">>, <<"e", "l", "i", "f">>, <<"e", "l", "s", "e">>, <<"e", "n", "d">>,
   <<"e", "n", "d", "i", "f">>, <<"e", "r", "r", "o", "r">>, <<"w", "a", "r", "n", "i", "n", "g">>}
OperatorLexeme(i, j) ==
  \/ j = i /\ src[i] \in {"+", "-", "*", "/", "%", "=", "!", "<", ">", "&", "|", "^", "~", "(", ")",
                         "{", "}", "[", "]", ",", ";", ":", ".", "?"}
  \/ j = i + 1 /\ <<src[i], src[j]>> \in
       {<<"+", "+">>, <<"-", "-">>, <<"-", ">">>, <<":", ":">>, <<"&", "&">>, <<"|", "|">>, <<"<", "<">>,
        <<">", ">">>, <<"<", "=">>, <<">", "=">>, <<"=", "=">>, <<"!", "=">>, <<"+", "=">>, <<"-", "=">>,
        <<"*", "=">>, <<"/", "=">>, <<"%", "=">>, <<"&", "=">>, <<"|", "=">>, <<"^", "=">>}
  \/ j = i + 2 /\ <<src[i], src[i + 1], src[j]>> \in {<<"<", "<", "=">>, <<">", ">", "=">>}
ReferenceLexeme(i, j) ==
  \/ WordLexeme(i, j) \/ IntLexeme(i, j) \/ FloatLexeme(i, j) \/ StringLexeme(i, j)
  \/ CharLexeme(i, j) \/ DirectiveLexeme(i, j) \/ OperatorLexeme(i, j)

(***************************************************************************)
(* What the lexer reads beyond the reference: a `$` in a word; an 8 or a 9 *)
(* after a leading zero, a capital X or B in a prefix, a prefix without    *)
(* digits, an exponent; an empty character literal and one with an escape; *)
(* other letters after a `#`, and the directives that start with an `@`.   *)
(***************************************************************************)
OwnWord(i, j) == src[i] \in is_ident_start /\ All(i, j, is_ident_cont)
OwnNumber(i, j) ==
  \/ src[i] \in Digit /\ All(i, j, Digit)
  \/ j > i /\ src[i] = "0" /\ src[i + 1] \in {"x", "X"} /\ All(i + 2, j, Hex)
  \/ j > i /\ src[i] = "0" /\ src[i + 1] \in {"b", "B"} /\ All(i + 2, j, {"0", "1"})
  \/ src[i] \in Digit /\ \E k \in i + 1..j :
       /\ src[k] \in {"e", "E"} /\ All(k + 1, j, Digit)
       /\ All(i, k - 1, Digit) \/ Pointed(i, k - 1)
OwnChar(i, j) ==
  /\ src[i] = "'" /\ src[j] = "'"
  /\ j = i + 1 \/ (j = i + 3 /\ src[i + 1] = "\\")
OwnDirective(i, j) ==
  \/ src[i] = "#" /\ All(i + 1, j, Alpha)
  \/ src[i] = "@" /\ SubSeq(src, i + 1, j) \in uc_keyword_at_lookup
OwnLexeme(i, j) == OwnWord(i, j) \/ OwnNumber(i, j) \/ OwnChar(i, j) \/ OwnDirective(i, j)

(***************************************************************************)
(* And what it misses: a number that starts with its point.                *)
(***************************************************************************)
Missed(i, j) == src[i] = "." /\ FloatLexeme(i, j)

\* A token is the longest lexeme that starts where it does, of those of the
\* reference that are not missed and the lexer's own.  A character literal that
\* is not closed is a token all the same, of what there is of it.
Lexeme(i, j) == (ReferenceLexeme(i, j) /\ ~Missed(i, j)) \/ OwnLexeme(i, j)
Longest(t) ==
  /\ \/ Lexeme(t.first, t.last)
     \/ t.kind = "Char" /\ \A j \in t.first..t.last : ~Lexeme(t.first, j)
  /\ \A j \in t.last + 1..Size : ~Lexeme(t.first, j)
LongestToken == \A n \in 1..Len(tokens) : Good(n) /\ tokens[n].kind # "Eof" => Longest(tokens[n])

\* A number of the reference is one token, whatever it starts with ("'.'
\* [0-9]+", section 2.5): no number is longer than the token at its place.
NumbersWhole ==
  \A n \in 1..Len(tokens) : Good(n) =>
    \A j \in tokens[n].last + 1..Size : ~FloatLexeme(tokens[n].first, j)

\* Each operator of the reference (section 2.2) is a token of its own: the one
\* of its lexeme, not that of a shorter operator.
OperatorsKept ==
  \A n \in 1..Len(tokens) : LET t == tokens[n] IN
    t.kind = "Operator" => t.text = SubSeq(src, t.first, t.last)

(***************************************************************************)
(* A literal has the value the reference gives it: a string that of its    *)
(* characters and escapes, when its buffer holds it; an integer that of    *)
(* its digits in its base.  Of an integer too large for the word, about    *)
(* which the reference is silent, a decimal one gives the largest value    *)
(* and one with a prefix its low bits.  Octal literals are left out: they  *)
(* are read in base 10, as OctalValues shows.  An escape the reference     *)
(* does not list stands for its letter.                                    *)
(***************************************************************************)
HexTail(first, i) == \E k \in {i - 1, i - 2} :
  k > first /\ Escaped(k) /\ src[k] = "x" /\ IsHexEscape(k)
UnitStarts(t) == {i \in t.first + 1..t.last - 1 : ~Escaped(i) /\ ~HexTail(t.first, i)}
Unit(i) ==
  IF src[i] # "\\" THEN src[i]
  ELSE IF IsHexEscape(i + 1) THEN Byte(src[i + 2], src[i + 3])
  ELSE IF src[i + 1] \in DOMAIN Escapes THEN Escapes[src[i + 1]] ELSE src[i + 1]
MeansString(t) ==
  /\ Len(t.text) = Cardinality(UnitStarts(t))
  /\ \A i \in UnitStarts(t) : t.text[Cardinality({k \in UnitStarts(t) : k <= i})] = Unit(i)

Octal(t) == t.last > t.first /\ src[t.first] = "0" /\ All(t.first + 1, t.last, OctalDigit)
Base(t) ==
  IF t.last = t.first \/ src[t.first] # "0" THEN 10
  ELSE IF src[t.first + 1] \in {"x", "X"} THEN 16 ELSE IF src[t.first + 1] \in {"b", "B"} THEN 2
  ELSE IF Octal(t) THEN 8 ELSE 10
Digits(i, j, base) ==
  LET num[k \in i - 1..j] == IF k = i - 1 THEN 0 ELSE base * num[k - 1] + DigitValue(src[k])
  IN  num[j]
IntegerOf(t) == Digits(IF Base(t) \in {2, 16} THEN t.first + 2 ELSE t.first, t.last, Base(t))

MeansInteger(t) ==
  LET n == IntegerOf(t)
  IN  IF n <= Largest THEN t.num = n
      ELSE IF Base(t) \in {8, 10} THEN t.num = Largest ELSE t.num % (2 * Half) = n % (2 * Half)
ValuesRight ==
  \A n \in 1..Len(tokens) : LET t == tokens[n] IN
    /\ t.kind = "String" /\ "val" \notin over => MeansString(t)
    /\ t.kind = "Int" /\ ~Octal(t) => MeansInteger(t)

\* An octal literal ("'0'[0-7]+", section 2.5) is read in base 8.
OctalValues ==
  \A n \in 1..Len(tokens) : LET t == tokens[n] IN t.kind = "Int" /\ Octal(t) => MeansInteger(t)

\* The lexeme of a string literal of any length stays in its buffer, whatever
\* mixture of plain characters and escapes it is made of.
RawFits == "raw" \notin over

\* A string literal may have any number of characters (language reference,
\* section 2.5): its value stays in the buffer it is collected in.
ValueFits == "val" \notin over
=============================================================================

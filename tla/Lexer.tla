-------------------------------- MODULE Lexer --------------------------------
(***************************************************************************)
(* The scanner of runtime/lexer, on sources that are sequences of          *)
(* characters: one step for every piece of trivia and every token.         *)
(* One keyword stands for all; what a string's escapes mean is left out.   *)
(***************************************************************************)
EXTENDS Naturals, Sequences, SequencesExt, FiniteSets

CONSTANT Sources   \* sequences of characters

VARIABLES
  source,
  cursor,     \* characters advanced over
  position,   \* [byte, line, column] of the cursor
  tokens,     \* [kind, from, to, start, end]: characters from + 1 .. to
  error       \* Nothing, or the kind and the span of the error

vars == <<source, cursor, position, tokens, error>>
-----------------------------------------------------------------------------
Nothing == [kind |-> "nothing"]

Letters == {"a", "e", "i", "f", "_"}
Digits == {"1", "2"}
Quotes == {"\"", "'"}
Spaces == {" ", "\n", "\r"}
KeywordTexts == {<<"i", "f">>}
Width(ch) == IF ch = "é" THEN 2 ELSE 1   \* len_utf8

\* peek and peek_next after k more characters.
Char(k) == IF cursor + k < Len(source) THEN source[cursor + k + 1] ELSE "end"

\* advance over one character.
Past(p, ch) ==
  [byte |-> p.byte + Width(ch),
   line |-> IF ch = "\n" THEN p.line + 1 ELSE p.line,
   column |-> IF ch = "\n" THEN 1 ELSE p.column + 1]
PastAll(p, chars) == FoldLeft(Past, p, chars)

\* consume_while: how many characters from offset k on belong to set.
While(k, set) ==
  CHOOSE n \in 0..Len(source) :
    /\ \A j \in 0 .. n - 1 : Char(k + j) \in set
    /\ Char(k + n) \notin set

Init ==
  /\ source \in Sources
  /\ cursor = 0
  /\ position = [byte |-> 0, line |-> 1, column |-> 1]
  /\ tokens = <<>>
  /\ error = Nothing

Ended == error # Nothing \/ cursor = Len(source)
-----------------------------------------------------------------------------
Advance(n) ==
  /\ cursor' = cursor + n
  /\ position' = PastAll(position, SubSeq(source, cursor + 1, cursor + n))
  /\ UNCHANGED source

Skip(n) ==
  /\ Advance(n)
  /\ UNCHANGED <<tokens, error>>

Produce(kind, n) ==
  /\ Advance(n)
  /\ tokens' = Append(tokens, [kind |-> kind, from |-> cursor, to |-> cursor + n,
                               start |-> position, end |-> position'])
  /\ UNCHANGED error

Fail(kind, n) ==
  /\ Advance(n)
  /\ error' = [kind |-> kind, from |-> cursor, start |-> position, end |-> position']
  /\ UNCHANGED tokens

SkipWhitespace ==
  /\ ~Ended /\ Char(0) \in Spaces
  /\ Skip(1)

AtComment == Char(0) = "/" /\ Char(1) \in {"/", "*"}

SkipLineComment ==
  /\ ~Ended /\ AtComment /\ Char(1) = "/"
  /\ LET ends == {n \in 2..Len(source) : Char(n) \in {"\n", "end"}}
     IN  Skip(CHOOSE n \in ends : \A m \in ends : n <= m)

\* skip_block_comment.
SkipBlockComment ==
  LET ends == {n \in 2..Len(source) : Char(n) = "*" /\ Char(n + 1) = "/"}
  IN  /\ ~Ended /\ AtComment /\ Char(1) = "*"
      /\ \/ /\ ends # {}
            /\ Skip((CHOOSE n \in ends : \A m \in ends : n <= m) + 2)
         \/ /\ ends = {}
            /\ Fail("unterminated block comment", Len(source) - cursor)

\* identifier_or_keyword.
Identifier ==
  LET n == While(0, Letters \union Digits)
  IN  /\ ~Ended /\ Char(0) \in Letters
      /\ Produce(IF SubSeq(source, cursor + 1, cursor + n) \in KeywordTexts THEN "keyword"
                                                                           ELSE "identifier", n)

\* The characters of an exponent at offset k; none when no digit follows, and
\* the cursor is set back.
Exponent(k) ==
  LET sign == IF Char(k + 1) \in {"+", "-"} THEN 1 ELSE 0
      digits == While(k + 1 + sign, Digits)
  IN  IF Char(k) = "e" /\ digits > 0 THEN 1 + sign + digits ELSE 0

\* A dot belongs to a number whatever comes after it.
NumberLengthGreedy ==
  LET whole == While(0, Digits)
      fraction == IF Char(whole) = "." THEN 1 + While(whole + 1, Digits) ELSE 0
  IN  whole + fraction + Exponent(whole + fraction)

NumberLength ==
  LET whole == While(0, Digits)
      fraction == IF Char(whole) = "." /\ Char(whole + 1) \in Digits
                    THEN 1 + While(whole + 1, Digits) ELSE 0
  IN  whole + fraction + Exponent(whole + fraction)

\* number_literal.
Number ==
  /\ ~Ended /\ Char(0) \in Digits
  /\ Produce("number", NumberLength)

\* The offset of the character that ends a string: the quote, the end of the
\* line or the end of the source.  A backslash takes the next character along,
\* whatever it is.
StringEnd ==
  LET step(s, k) ==
        CASE s.found \/ s.next # k -> s
          [] ~s.found /\ s.next = k /\ Char(k) = "\\" -> [s EXCEPT !.next = k + 2]
          [] OTHER -> IF Char(k) \in {Char(0), "\n", "\r", "end"}
                        THEN [s EXCEPT !.found = TRUE] ELSE [s EXCEPT !.next = k + 1]
      last == Len(source) - cursor
      scanned == FoldLeft(step, [next |-> 1, found |-> FALSE], [k \in 1..last |-> k])
  IN  IF scanned.found THEN scanned.next ELSE last

\* string_literal.
String ==
  /\ ~Ended /\ Char(0) \in Quotes
  /\ \/ Char(StringEnd) = Char(0) /\ Produce("string", StringEnd + 1)
     \/ Char(StringEnd) # Char(0) /\ Fail("unterminated string", StringEnd)

\* match_char and match_or: the longest operator; a lone & or | is none.
OperatorLength ==
  LET ch == Char(0)
      equals == IF Char(1) = "=" THEN 1 ELSE 0
  IN  CASE ch \in {"+", "-", "*", "/", "%", "<", ">"} -> 1 + equals
        [] ch = "=" /\ Char(1) = ">" -> 2
        [] ch \in {"=", "!"} /\ ~(ch = "=" /\ Char(1) = ">") ->
             1 + equals + IF equals = 1 /\ Char(2) = "=" THEN 1 ELSE 0
        [] ch \in {"&", "|"} -> IF Char(1) = ch THEN 2 ELSE 0
        [] ch = "?" -> IF Char(1) = "?" THEN 2 ELSE 1
        [] ch \in {":", ";", ",", ".", "(", ")", "{", "}", "[", "]"} -> 1
        [] OTHER -> 0

Operator ==
  /\ ~Ended /\ ~AtComment /\ OperatorLength > 0
  /\ Produce("operator", OperatorLength)

UnexpectedCharacter ==
  /\ ~Ended /\ OperatorLength = 0
  /\ Char(0) \notin Letters \union Digits \union Quotes \union Spaces
  /\ Fail("unexpected character", 1)

Next ==
  \/ SkipWhitespace \/ SkipLineComment \/ SkipBlockComment
  \/ Identifier \/ Number \/ String \/ Operator \/ UnexpectedCharacter

Spec == Init /\ [][Next]_vars
-----------------------------------------------------------------------------
(* The texts of tokens and trivia, without saying how they are found.  *)

OperatorTexts ==
  {<<c, "=">> : c \in {"+", "-", "*", "/", "%", "<", ">", "!", "="}}
    \union {<<c>> : c \in {"+", "-", "*", "/", "%", "<", ">", "!", "=", "?", ":", ";", ",", ".",
                           "(", ")", "{", "}", "[", "]"}}
    \union {<<"=", "=", "=">>, <<"!", "=", "=">>, <<"=", ">">>, <<"&", "&">>, <<"|", "|">>, <<"?", "?">>}

All(text, set) == text # <<>> /\ Range(text) \subseteq set
Upto(text, n) == SubSeq(text, 1, n)
From(text, n) == SubSeq(text, n, Len(text))

IsDecimal(text) ==
  \/ All(text, Digits)
  \/ \E d \in DOMAIN text :
       text[d] = "." /\ All(Upto(text, d - 1), Digits) /\ All(From(text, d + 1), Digits)

IsNumber(text) ==
  \/ IsDecimal(text)
  \/ \E x \in DOMAIN text :
       /\ text[x] = "e" /\ IsDecimal(Upto(text, x - 1))
       /\ \/ All(From(text, x + 1), Digits)
          \/ /\ x < Len(text) /\ text[x + 1] \in {"+", "-"}
             /\ All(From(text, x + 2), Digits)

\* Escaped by an odd number of backslashes before it.
EscapedAt(text, k) ==
  Cardinality({j \in 2 .. k - 1 : \A i \in j .. k - 1 : text[i] = "\\"}) % 2 = 1

IsString(text) ==
  /\ Len(text) >= 2 /\ text[1] \in Quotes
  /\ \A k \in 2..Len(text) :
       (text[k] \in {text[1], "\n", "\r"} /\ ~EscapedAt(text, k)) => k = Len(text)
  /\ text[Len(text)] = text[1] /\ ~EscapedAt(text, Len(text))

Kinds(text) ==
  (IF All(text, Letters \union Digits) /\ text[1] \in Letters
     THEN {IF text \in KeywordTexts THEN "keyword" ELSE "identifier"} ELSE {})
    \union (IF IsNumber(text) THEN {"number"} ELSE {})
    \union (IF IsString(text) THEN {"string"} ELSE {})
    \union (IF text \in OperatorTexts THEN {"operator"} ELSE {})

IsComment(text) ==
  /\ Len(text) >= 2 /\ text[1] = "/"
  /\ \/ text[2] = "/" /\ "\n" \notin Range(text)
     \/ /\ text[2] = "*" /\ Len(text) >= 4
        /\ {k \in 4..Len(text) : text[k - 1] = "*" /\ text[k] = "/"} = {Len(text)}

\* Text made of spaces and comments; a line comment goes on to the end of its line.
IsTrivia(text) ==
  \E cuts \in SUBSET (1..Len(text)) :
    LET ends == cuts \union {0, Len(text)}
        pieces == {p \in ends \X ends : p[1] < p[2] /\ \A c \in ends : ~(p[1] < c /\ c < p[2])}
    IN  \A p \in pieces :
          LET piece == SubSeq(text, p[1] + 1, p[2])
          IN  \/ Len(piece) = 1 /\ piece[1] \in Spaces
              \/ IsComment(piece) /\ (piece[2] = "/" => p[2] = Len(text) \/ text[p[2] + 1] = "\n")

Text(from, to) == SubSeq(source, from + 1, to)
Longest(from, to) == \A n \in to + 1 .. Len(source) : Kinds(Text(from, n)) = {}

\* Two characters that are no operators, even where no comment comes of them.
CommentBegins(n) ==
  n + 2 <= Len(source) /\ Text(n, n + 2) \in {<<"/", "/">>, <<"/", "*">>}

\* Where a place in the source is.
Place(n) ==
  LET before == Text(0, n)
      breaks == {k \in DOMAIN before : before[k] = "\n"}
      lastBreak == CHOOSE k \in breaks \union {0} : \A j \in breaks : j <= k
  IN  [byte |-> n + Cardinality({k \in DOMAIN before : before[k] = "é"}),
       line |-> 1 + Cardinality(breaks), column |-> n - lastBreak + 1]

\* The tokens are what the grammar of tokens makes of the source: each is the
\* longest token that starts where it does, of the kind its text has, only
\* spaces and comments are between them, and its span is where it stands, lines
\* and columns counted and bytes of wide characters too; what is left over at
\* the end is trivia, and an error stands where no token and no comment begins.
\* Cutting at the wrong place shifts everything after it: a dot or an e that
\* does not belong to the number before it, a comment within a comment, an
\* escaped quote.
LexesLongest ==
  LET n == Len(tokens)
      upTo(k) == IF k = 0 THEN 0 ELSE tokens[k].to
  IN  /\ \A k \in 1..n :
           LET t == tokens[k]
           IN  /\ t.kind \in Kinds(Text(t.from, t.to)) /\ Longest(t.from, t.to)
               /\ ~CommentBegins(t.from)
               /\ IsTrivia(Text(upTo(k - 1), t.from))
               /\ t.start = Place(t.from) /\ t.end = Place(t.to)
      /\ Ended /\ error = Nothing => IsTrivia(Text(upTo(n), Len(source)))
      /\ error # Nothing =>
           /\ IsTrivia(Text(upTo(n), error.from))
           /\ \A m \in error.from + 1 .. Len(source) :
                /\ ~IsComment(Text(error.from, m))
                /\ CommentBegins(error.from) \/ Kinds(Text(error.from, m)) = {}
           /\ error.start = Place(error.from) /\ error.end = Place(cursor)
=============================================================================

------------------------- MODULE TranslationPhases --------------------------
(***************************************************************************)
(* The first translation phases of C99 (5.1.1.2) and the tokens of 6.4:    *)
(* what a source file means, as functions of its characters.               *)
(*                                                                         *)
(* Letters are one-letter words here: PPID says which of them are the      *)
(* names of directives. "nl" and "cr" are the ends of lines, and "eof" is  *)
(* no character of a file.                                                 *)
(***************************************************************************)
EXTENDS Integers, Sequences, SequencesExt

Digit    == {"0", "1", "8"}
Octal    == {"0", "1"}
Letter   == {"a", "b", "d", "e", "i", "l", "p", "u", "x", "L"}
HexDigit == Digit \cup {"a", "b", "d", "e"}
Blank    == {" "}

PPID(w) ==
  CASE w = << "l" >> -> "line" [] w = << "p" >> -> "pragma" [] w = << "b" >> -> "error"
    [] w = << "d" >> -> "define" [] w = << "i" >> -> "ifdef"
    [] w = << "x" >> -> "STDC" [] w = << "u" >> -> "FP_CONTRACT" [] w = << "e" >> -> "ON" [] OTHER -> "none"

\* 6.4.6, with the digraphs.
Punctuator ==
  { << a >> : a \in {"[", "]", "(", ")", "{", "}", ".", "&", "*", "+", "-", "~", "!", "/", "%",
                     "<", ">", "^", "|", "?", ":", ";", "=", ",", "#"} }
  \cup { << a, "=" >> : a \in {"*", "/", "%", "+", "-", "&", "^", "|", "<", ">", "=", "!"} }
  \cup { << a, a >> : a \in {"+", "-", "<", ">", "&", "|", "#"} }
  \cup { << "-", ">" >>, << ".", ".", "." >>, << "<", "<", "=" >>, << ">", ">", "=" >>,
         << "<", ":" >>, << ":", ">" >>, << "<", "%" >>, << "%", ">" >>,
         << "%", ":" >>, << "%", ":", "%", ":" >> }

Digraph(p) ==
  CASE p = << "<", ":" >> -> << "[" >> [] p = << ":", ">" >> -> << "]" >>
    [] p = << "<", "%" >> -> << "{" >> [] p = << "%", ">" >> -> << "}" >>
    [] p = << "%", ":" >> -> << "#" >> [] p = << "%", ":", "%", ":" >> -> << "#", "#" >>
    [] OTHER -> p

Trigraph ==
  [ t \in {"=", "(", "/", ")", "'", "<", "!", ">", "-"} |->
      CASE t = "=" -> "#" [] t = "(" -> "["  [] t = "/" -> "\\" [] t = ")" -> "]" [] t = "'" -> "^"
        [] t = "<" -> "{" [] t = "!" -> "|"  [] t = ">" -> "}"  [] t = "-" -> "~" ]

\* Escape sequences of one letter.
SimpleEscape == {"\"", "'", "\\", "?", "a", "b", "e"}

-----------------------------------------------------------------------------
(***************************************************************************)
(* Phases 1 and 2                                                          *)
(***************************************************************************)
\* The sequence s, which TLC then evaluates once.
Tuple(s) == SubSeq(s, 1, Len(s))

Pick(s, Test(_)) ==
  LET kept == SelectSeq(Tuple([i \in DOMAIN s |-> i]), Test) IN Tuple([j \in DOMAIN kept |-> s[kept[j]]])

\* UTF-8: how many bytes follow a first one. The characters that are no ASCII
\* ones are not told apart. "C0" begins characters that have a shorter form.
Follow == [b \in {"C0", "C3", "E2", "F0"} |-> CASE b \in {"C0", "C3"} -> 1 [] b = "E2" -> 2 [] b = "F0" -> 3]
Continuation == {"82"}
Ascii(b) == b \notin DOMAIN Follow \cup Continuation

\* Where a character ends, if the bytes are well-formed.
utf8(bytes) ==
  LET Whole(i, n) == i + n <= Len(bytes) /\ \A k \in 1 .. n : bytes[i + k] \in Continuation
      first == SelectSeq([i \in DOMAIN bytes |-> i], LAMBDA i : bytes[i] \notin Continuation)
  IN [ ok |-> /\ \A i \in DOMAIN bytes : bytes[i] \in DOMAIN Follow => bytes[i] # "C0" /\ Whole(i, Follow[bytes[i]])
              /\ \A i \in DOMAIN bytes : bytes[i] \in Continuation =>
                   \E k \in 1 .. 3 : /\ k < i /\ bytes[i - k] \in DOMAIN Follow /\ k <= Follow[bytes[i - k]]
                                     /\ Whole(i - k, k),
       chars |-> Tuple([j \in DOMAIN first |-> IF Ascii(bytes[first[j]]) THEN bytes[first[j]] ELSE "wide"]) ]

EndsOfLines(s) ==
  LET t == Pick(s, LAMBDA i : ~ (s[i] = "nl" /\ i > 1 /\ s[i - 1] = "cr"))
  IN Tuple([i \in DOMAIN t |-> IF t[i] = "cr" THEN "nl" ELSE t[i]])

Lined(s) ==
  Tuple([i \in DOMAIN s |-> [c |-> s[i], line |-> 1 + Len(SelectSeq(SubSeq(s, 1, i - 1), LAMBDA x : x = "nl"))]])

Trigraphs(s) ==
  LET At(i) == i \in 1 .. Len(s) - 2 /\ s[i].c = "?" /\ s[i + 1].c = "?" /\ s[i + 2].c \in DOMAIN Trigraph
      t == Tuple([i \in DOMAIN s |-> IF At(i - 2) THEN [s[i] EXCEPT !.c = Trigraph[@]] ELSE s[i]])
  IN Pick(t, LAMBDA i : ~ At(i) /\ ~ At(i - 1))

Splices(s) ==
  LET At(i) == i \in 1 .. Len(s) - 1 /\ s[i].c = "\\" /\ s[i + 1].c = "nl"
  IN Pick(s, LAMBDA i : ~ At(i) /\ ~ At(i - 1))

Logical(chars) == Splices(Trigraphs(Lined(EndsOfLines(chars))))
LastLine(chars) == 1 + Len(SelectSeq(EndsOfLines(chars), LAMBDA x : x = "nl"))

-----------------------------------------------------------------------------
(***************************************************************************)
(* Phase 3: where what begins at i of the text s ends, up to the end of    *)
(* the file and the first error                                            *)
(***************************************************************************)
Run(s, i, S) ==   \* the first place behind those of S
  CHOOSE j \in i .. Len(s) + 1 : (\A k \in i .. j - 1 : s[k] \in S) /\ (j <= Len(s) => s[j] \notin S)

All(s, S) == \A i \in DOMAIN s : s[i] \in S

\* 6.4.8: the characters of a preprocessing number.
EndOfNumber(s, i) ==
  CHOOSE j \in i + 1 .. Len(s) + 1 :
    LET In(k) == s[k] \in Digit \cup Letter \cup {"."} \/ (s[k] \in {"+", "-"} /\ k > i /\ s[k - 1] \in {"e", "p"})
    IN (\A k \in i .. j - 1 : In(k)) /\ (j <= Len(s) => ~ In(j))

\* 6.4.4: fractions and exponents, with the given digits.
Exponent(s, e) ==
  /\ s # << >> /\ s[1] = e
  /\ LET d == IF Len(s) > 1 /\ s[2] \in {"+", "-"} THEN 3 ELSE 2
     IN d <= Len(s) /\ All(SubSeq(s, d, Len(s)), Digit)

Floating(s, digits, e) ==
  \E d \in 0 .. Len(s) :
    LET mantissa == SubSeq(s, 1, d)
        exponent == SubSeq(s, d + 1, Len(s))
    IN /\ Len(SelectSeq(mantissa, LAMBDA x : x = ".")) <= 1
       /\ All(mantissa, digits \cup {"."}) /\ \E k \in DOMAIN mantissa : mantissa[k] \in digits
       /\ IF exponent = << >> THEN Contains(mantissa, ".") /\ e = "e" ELSE Exponent(exponent, e)

KindOf(prefix, s) ==
  IF s = << >> THEN "none"
  ELSE IF prefix THEN
    CASE All(s, HexDigit) -> "hex" [] Floating(s, HexDigit, "p") -> "hex float" [] OTHER -> "none"
  ELSE
    CASE All(s, Octal) /\ s[1] = "0" -> "octal" [] All(s, Digit) /\ s[1] # "0" -> "integer"
      [] Floating(s, Digit, "e") -> "float" [] OTHER -> "none"

\* A number: 0x, the digits and a suffix. f is left out: it is a digit too.
SuffixLetter == {"l", "u"}

NumberOf(prefix, s, ends) ==
  IF ends = {} THEN [type |-> "error", text |-> << >>]
  ELSE [type |-> KindOf(prefix, SubSeq(s, 1, Max(ends))), text |-> SubSeq(s, 1, Max(ends))]

DigitsOf(prefix, s) ==
  NumberOf(prefix, s, { k \in DOMAIN s : /\ KindOf(prefix, SubSeq(s, 1, k)) # "none"
                                         /\ All(SubSeq(s, k + 1, Len(s)), SuffixLetter) })

Number(s) ==
  IF Len(s) > 1 /\ s[1] = "0" /\ s[2] = "x" THEN DigitsOf(TRUE, SubSeq(s, 3, Len(s))) ELSE DigitsOf(FALSE, s)

\* A literal from behind its quote; its text has a name for each escape.
Octals == << "octal", "octal2", "octal3" >>
Literal(s, i, quote) ==
  LET f[j \in Nat] ==
        LET More(element, next) == [f[next] EXCEPT !.text = << element >> \o @]
            oct == IF j + 1 > Len(s) THEN 0
                   ELSE CHOOSE n \in 0 .. 3 :
                          /\ \A k \in 1 .. n : j + k <= Len(s) /\ s[j + k] \in Octal
                          /\ n < 3 /\ j + n + 1 <= Len(s) => s[j + n + 1] \notin Octal
        IN IF j > Len(s) \/ s[j] = "nl" THEN [end |-> 0, text |-> << >>]
           ELSE IF s[j] = quote THEN [end |-> j + 1, text |-> << >>]
           ELSE IF s[j] # "\\" THEN More(s[j], j + 1)
           ELSE IF oct > 0 THEN More(Octals[oct], j + 1 + oct)
           ELSE IF j < Len(s) /\ s[j + 1] \in SimpleEscape THEN More("escape", j + 2)
           ELSE IF j + 1 < Len(s) /\ s[j + 1] = "x" /\ s[j + 2] \in HexDigit
           THEN More("hex", Run(s, j + 2, HexDigit))
           ELSE [end |-> 0, text |-> << >>]
  IN f[i]

\* Behind the end of a comment, or 0.
EndOfComment(s, i) == LET ends == { j \in i + 3 .. Len(s) : s[j - 1] = "*" /\ s[j] = "/" }
                      IN IF ends = {} THEN 0 ELSE 1 + Min(ends)

\* The token at i, and where it ends.
Token(type, text, end) == [type |-> type, text |-> text, end |-> end]

LiteralToken(type, l, i) == IF l.end = 0 THEN Token("error", << >>, i) ELSE Token(type, l.text, l.end)
NumberToken(n, end) == Token(n.type, n.text, end)
Longest(s, i, ends) == IF ends = {} THEN Token("error", << >>, i)
                       ELSE Token("punctuator", Digraph(SubSeq(s, i, Max(ends) - 1)), Max(ends))

TokenAt(s, i) ==
  CASE s[i] = "\"" -> LiteralToken("string", Literal(s, i + 1, s[i]), i)
    [] s[i] = "'" -> LiteralToken("character", Literal(s, i + 1, s[i]), i)
    [] s[i] = "L" /\ i < Len(s) /\ s[i + 1] = "\"" -> LiteralToken("wide string", Literal(s, i + 2, s[i + 1]), i)
    [] s[i] = "L" /\ i < Len(s) /\ s[i + 1] = "'" -> LiteralToken("wide character", Literal(s, i + 2, s[i + 1]), i)
    [] s[i] = "nl" -> Token("nl", << >>, i + 1)
    [] s[i] \in Digit \/ (s[i] = "." /\ i < Len(s) /\ s[i + 1] \in Digit) ->
         NumberToken(Number(SubSeq(s, i, EndOfNumber(s, i) - 1)), EndOfNumber(s, i))
    [] s[i] \in Letter /\ (s[i] = "L" /\ i < Len(s) => s[i + 1] \notin {"\"", "'"}) ->
         Token("identifier", SubSeq(s, i, Run(s, i, Letter \cup Digit) - 1), Run(s, i, Letter \cup Digit))
    [] OTHER -> IF s[i] = "." /\ i < Len(s) /\ s[i + 1] \in Digit THEN Token("error", << >>, i)
                ELSE Longest(s, i, { n \in i + 1 .. i + 4 : n <= Len(s) + 1 /\ SubSeq(s, i, n - 1) \in Punctuator })

\* Its lines: its first, and that of the place where it can be told from
\* anything longer, and from a splice.
LineAt(t, i, last) == IF i <= Len(t) THEN t[i].line ELSE last
Told(s, i) == Run(s, IF i <= Len(s) /\ s[i] \in {".", "%"} THEN i + 1 ELSE i, {"\\"})
Located(token, t, s, from, last) ==
  [type |-> token.type, text |-> token.text, from |-> from, end |-> token.end,
   to |-> LineAt(t, Told(s, token.end), last)]

\* The preprocessing tokens of a text of lined characters, up to an error;
\* s are the characters.
Error == [type |-> "error", text |-> << >>, from |-> 0, to |-> 0, end |-> 0]

PPTokensOf(t, s, last) ==
  LET next(i) == Located(TokenAt(s, i), t, s, t[i].line, last)
      Two(i, a, b) == i < Len(s) /\ s[i] = a /\ s[i + 1] = b
      f[i \in Nat] ==
        LET Then(token) == << token >> \o IF token.type = "error" THEN << >> ELSE f[token.end]
        IN CASE i > Len(s) -> << >>
             [] i <= Len(s) /\ s[i] \in Blank -> f[i + 1]
             [] Two(i, "/", "/") -> f[Run(s, i, ToSet(s) \ {"nl"})]
             [] Two(i, "/", "*") -> IF EndOfComment(s, i) = 0 THEN << Error >> ELSE f[EndOfComment(s, i)]
             [] OTHER -> Then(next(i))
  IN f[1]

PPTokens(t, last) == PPTokensOf(t, Tuple([i \in DOMAIN t |-> t[i].c]), last)

\* The value of a digit sequence.
Number10(text) ==
  FoldLeft(LAMBDA n, d : 10 * n + (CASE d = "0" -> 0 [] d = "1" -> 1 [] d = "8" -> 8), 0, text)

\* Phase 4 of a text that has been preprocessed: line directives, and
\* pragmas, which are left out. Where the line of the token k ends:
EndOfLineOf(ts, k) ==
  LET ends == { j \in k .. Len(ts) : ts[j].type \in {"nl", "error"} }
  IN IF ends = {} THEN Len(ts) + 1 ELSE Min(ends)

\* A directive, from behind its #: how far it shifts the lines behind it.
Words(d) == [i \in DOMAIN d |-> IF d[i].type = "identifier" THEN PPID(d[i].text) ELSE d[i].type]
IsPragma(w) ==
  /\ Len(w) > 1 /\ w[1] = "pragma" /\ w[2] \notin {"string", "integer", "octal", "punctuator", "wide string"}
  /\ w[2] = "STDC" => Len(w) > 3 /\ w[3] = "FP_CONTRACT" /\ w[4] = "ON"
IsLine(w) == w \in {<< "line", "integer" >>, << "line", "integer", "string" >>}

Shift(d, w, old, from) ==
  CASE IsLine(w) -> [legal |-> TRUE, by |-> Number10(d[2].text) - (from + 1)]
    [] IsLine(<< "line" >> \o w) -> [legal |-> TRUE, by |-> Number10(d[1].text) - (from + 1)]
    [] OTHER -> [legal |-> w = << >> \/ IsPragma(w), by |-> old]

TokensOf(ts) ==
  LET f[k \in Nat, by \in Int] ==
        LET After(shift, end) == IF shift.legal THEN f[end + 1, shift.by] ELSE << Error >>
            Directive(end, d) == IF end > Len(ts) \/ ts[end].type = "error" THEN << Error >>
                                 ELSE After(Shift(d, Words(d), by, ts[end].from), end)
        IN CASE k > Len(ts) -> << >>
             [] k <= Len(ts) /\ ts[k].type = "nl" -> f[k + 1, by]
             [] k <= Len(ts) /\ ts[k].type = "punctuator" /\ ts[k].text = << "#" >> ->
                  IF k > 1 /\ ts[k - 1].type # "nl" THEN << Error >>
                  ELSE Directive(EndOfLineOf(ts, k), SubSeq(ts, k + 1, EndOfLineOf(ts, k) - 1))
             [] OTHER -> << [ts[k] EXCEPT !.from = @ + by, !.to = @ + by] >> \o f[k + 1, by]
  IN f[1, 0]

Tokens(t, last) == TokensOf(PPTokens(t, last))
=============================================================================

------------------------------- MODULE Lexer --------------------------------
(***************************************************************************)
(* The lexer of cparser (src/lexer.c): tokens, and the directives of a     *)
(* file that has been preprocessed.                                        *)
(*                                                                         *)
(* place is where the lexer goes on with the next c, which is ready when   *)
(* next_char() has returned; want is what the next token is for.           *)
(***************************************************************************)
EXTENDS SourceText

VARIABLES
  place,
  kind,      \* of the literal being read: [hex, float, digits, wide, quote, octal]
  text,      \* symbol_obstack, or what has been read of a punctuator
  symbol,    \* lexer_token.symbol: of the last identifier or suffix, or NULL
  want,
  token,     \* lexer_token and its line
  tokens     \* the tokens handed to the parser

lexer == << place, kind, text, symbol, want, token, tokens >>
vars == << file, source, errors, spliced, lexer >>

NULL == << >>
NoKind == [hex |-> FALSE, float |-> FALSE, digits |-> FALSE, wide |-> FALSE, quote |-> "none", octal |-> 0]

Ready(p) == at = "returned" /\ calls = << >> /\ place = p

kept == << file, input, part, ahead, room, c, linenr, spliced >>

\* next_char(), from where the lexer goes on at p with the text t.
Eat(p, t) ==
  /\ at' = "1st" /\ place' = p /\ text' = t
  /\ UNCHANGED << kept, calls >>

\* The same for the end of a line (MATCH_NEWLINE).
EatLine(p, t) ==
  /\ c \in {"nl", "cr"}
  /\ calls' = << IF c = "cr" THEN "cr" ELSE "newline" >>
  /\ at' = "1st" /\ place' = p /\ text' = t
  /\ UNCHANGED kept

Go(p, t) == place' = p /\ text' = t /\ UNCHANGED << kept, at, calls >>

Emit(type, t) ==
  /\ token' = [type |-> type, text |-> t, line |-> linenr]
  /\ Go("token", << >>)

noToken == << want, token, tokens >>

-----------------------------------------------------------------------------
(***************************************************************************)
(* lexer_next_preprocessing_token()                                        *)
(***************************************************************************)
\* c is not read any more: it is put back, and x is read in its place.
Unread(x, p) ==
  /\ room > 0
  /\ ahead' = << c >> \o ahead /\ room' = room - 1
  /\ c' = x /\ place' = p /\ text' = << >>
  /\ UNCHANGED << file, input, part, linenr, at, calls, spliced >>

\* What the switches go on with: the tokens, and two that are not.
Known == Punctuator \cup { << ".", "." >>, << "%", ":", "%" >> } \cup { << "\\" >> }

Start ==
  /\ Ready("start")
  /\ \/ c \in Blank /\ Eat("start", << >>) /\ UNCHANGED << kind, errors, token >>
     \/ EatLine("line", << >>) /\ UNCHANGED << kind, errors, token >>
     \/ c \in Letter /\ Eat("symbol", << c >>) /\ UNCHANGED << kind, errors, token >>
     \/ c \in Digit /\ kind' = NoKind /\ UNCHANGED << errors, token >>
        /\ IF c = "0" THEN Eat("zero", << >>) ELSE Go("digits", << >>)
     \/ c \in {"\"", "'"} /\ Eat("literal", << >>) /\ kind' = [NoKind EXCEPT !.quote = c]
        /\ UNCHANGED << errors, token >>
     \/ << c >> \in Known /\ Eat("punctuator", << c >>) /\ UNCHANGED << kind, errors, token >>
     \/ c = "eof" /\ Emit("eof", << >>) /\ UNCHANGED << kind, errors >>
     \/ c = "wide" /\ Eat("unknown", << >>) /\ errors' = TRUE /\ UNCHANGED << kind, token >>
  /\ UNCHANGED << symbol, want, tokens >>

\* A token that ends where c has been read.
EndOfToken ==
  /\ \/ Ready("line") /\ Emit("nl", << >>)
     \/ Ready("unknown") /\ Emit("error", << >>)
     \/ Ready("end of literal")
        /\ Emit(IF kind.quote = "\"" THEN (IF kind.wide THEN "wide string" ELSE "string")
                ELSE (IF kind.wide THEN "wide character" ELSE "character"), text)
  /\ UNCHANGED << errors, kind, symbol, want, tokens >>

Symbol ==
  /\ Ready("symbol")
  /\ IF c \in Letter \cup Digit THEN Eat("symbol", Append(text, c)) /\ UNCHANGED << kind, token, symbol >>
     ELSE /\ symbol' = text
          /\ IF text = << "L" >> /\ c \in {"\"", "'"}
             THEN kind' = [NoKind EXCEPT !.wide = TRUE, !.quote = c] /\ Eat("literal", << >>) /\ UNCHANGED token
             ELSE Emit("identifier", text) /\ UNCHANGED kind
  /\ UNCHANGED << errors, want, tokens >>

PunctuatorToken ==
  /\ Ready("punctuator")
  /\ \/ Append(text, c) \in Known /\ Eat("punctuator", Append(text, c)) /\ UNCHANGED << kind, token >>
     \/ text = << "/" >> /\ c = "*" /\ Eat("comment", << >>) /\ UNCHANGED << kind, token >>
     \/ text = << "/" >> /\ c = "/" /\ Eat("line comment", << >>) /\ UNCHANGED << kind, token >>
     \/ text = << "." >> /\ c \in Digit /\ Unread(".", "digits") /\ kind' = NoKind /\ UNCHANGED token
     \/ text \in {<< ".", "." >>, << "%", ":", "%" >>}
        /\ Append(text, c) \notin Known
        /\ Unread(text[Len(text)], "token") /\ UNCHANGED kind
        /\ token' = [type |-> "punctuator", text |-> Digraph(Front(text)), line |-> linenr]
     \/ /\ Append(text, c) \notin Known /\ text \in Punctuator \cup { << "\\" >> }
        /\ text = << "/" >> => c \notin {"*", "/"}
        /\ text = << "." >> => c \notin Digit
        /\ Emit("punctuator", Digraph(text)) /\ UNCHANGED kind
  /\ UNCHANGED << errors, symbol, want, tokens >>

\* Mutant: the end of the file is no end of a comment.
Comment_NoEnd ==
  /\ \/ Ready("comment") /\ c # "*" /\ Eat("comment", << >>)
     \/ Ready("comment") /\ c = "*" /\ Eat("comment *", << >>)
     \/ Ready("comment *") /\ IF c = "/" THEN Eat("start", << >>) ELSE Go("comment", << >>)
     \/ Ready("line comment")
        /\ IF c \in {"eof", "nl", "cr"} THEN Go("start", << >>) ELSE Eat("line comment", << >>)
  /\ UNCHANGED << errors, kind, symbol, noToken >>

Comment ==
  /\ \/ Ready("comment")
        /\ \/ c = "*" /\ Eat("comment *", << >>)
           \/ c = "eof" /\ Go("start", << >>)
           \/ EatLine("comment", << >>)
           \/ c \notin {"*", "eof", "nl", "cr"} /\ Eat("comment", << >>)
     \/ Ready("comment *") /\ IF c = "/" THEN Eat("start", << >>) ELSE Go("comment", << >>)
     \/ Ready("line comment")
        /\ IF c \in {"eof", "nl", "cr"} THEN Go("start", << >>) ELSE Eat("line comment", << >>)
  /\ errors' = (errors \/ (place = "comment" /\ c = "eof"))
  /\ UNCHANGED << kind, symbol, noToken >>

-----------------------------------------------------------------------------
(***************************************************************************)
(* Numbers                                                                 *)
(***************************************************************************)
Digits == IF kind.hex THEN HexDigit ELSE Digit

\* Behind the first 0.
Zero ==
  /\ Ready("zero")
  /\ IF c = "x" THEN Eat("digits", << >>) /\ kind' = [kind EXCEPT !.hex = TRUE]
     ELSE Go("digits", << "0" >>) /\ kind' = [kind EXCEPT !.digits = TRUE]
  /\ UNCHANGED << errors, symbol, noToken >>

\* Before and behind the point, and in the exponent.
NumberPart ==
  /\ \/ /\ Ready("digits") \/ Ready("fraction") \/ Ready("exponent")
        /\ c \in Digits
        /\ Eat(place, Append(text, c)) /\ kind' = [kind EXCEPT !.digits = @ \/ place # "exponent"]
     \/ Ready("digits") /\ c = "." /\ Eat("fraction", Append(text, c)) /\ kind' = [kind EXCEPT !.float = TRUE]
     \/ /\ Ready("digits") \/ Ready("fraction")
        /\ c = IF kind.hex THEN "p" ELSE "e"
        /\ Eat("sign", Append(text, c)) /\ kind' = [kind EXCEPT !.float = TRUE]
     \/ /\ Ready("sign") /\ UNCHANGED kind
        /\ IF c \in {"+", "-"} THEN Eat("exponent", Append(text, c)) ELSE Go("exponent", text)
  /\ UNCHANGED << errors, symbol, noToken >>

EndOfNumberPart ==
  /\ \/ Ready("digits") /\ c \notin Digits \cup {".", IF kind.hex THEN "p" ELSE "e"}
     \/ Ready("fraction") /\ c \notin Digits \cup {IF kind.hex THEN "p" ELSE "e"}
     \/ Ready("exponent") /\ c \notin Digits
  /\ LET octal == ~ kind.hex /\ ~ kind.float /\ text[1] = "0"
     IN /\ token' = [ type |-> IF kind.hex THEN (IF kind.float THEN "hex float" ELSE "hex")
                               ELSE IF kind.float THEN "float" ELSE IF octal THEN "octal" ELSE "integer",
                      text |-> IF kind.hex /\ ~ kind.digits THEN << "0" >> ELSE text, line |-> linenr ]
        /\ errors' = (errors \/ ~ kind.digits \/ (octal /\ \E i \in DOMAIN text : text[i] = "8")
                      \/ (place # "exponent" /\ kind.hex /\ kind.float))
  /\ Go("suffix", << >>)
  /\ UNCHANGED << kind, symbol, want, tokens >>

Suffix ==
  /\ Ready("suffix")
  /\ IF c \in Letter THEN Eat("suffix", Append(text, c)) /\ UNCHANGED << symbol, token >>
     ELSE symbol' = text /\ token' = [token EXCEPT !.line = linenr] /\ Go("token", << >>)
  /\ UNCHANGED << errors, kind, want, tokens >>

-----------------------------------------------------------------------------
(***************************************************************************)
(* Strings and character constants                                         *)
(***************************************************************************)
LiteralPart ==
  /\ Ready("literal")
  /\ \/ c = "\\" /\ Eat("escape", text) /\ UNCHANGED << errors, token >>
     \/ c = kind.quote /\ Eat("end of literal", text) /\ UNCHANGED << errors, token >>
     \/ c = "eof" /\ Emit("error", << >>) /\ errors' = TRUE
     \/ kind.quote = "'" /\ EatLine("literal", text) /\ errors' = TRUE /\ UNCHANGED token
     \/ /\ c \notin {"\\", "eof", kind.quote} /\ (kind.quote = "'" => c \notin {"nl", "cr"})
        /\ Eat("literal", Append(text, c)) /\ UNCHANGED << errors, token >>
  /\ UNCHANGED << kind, symbol, want, tokens >>

\* parse_escape_sequence(): behind the backslash, and what may follow.
Escape ==
  /\ Ready("escape")
  /\ \/ c \in SimpleEscape /\ Eat("literal", Append(text, "escape")) /\ UNCHANGED << kind, errors >>
     \/ c = "x" /\ Eat("hex escape", Append(text, "hex")) /\ UNCHANGED << kind, errors >>
     \/ c \in Octal /\ Eat("octal escape", text) /\ kind' = [kind EXCEPT !.octal = 1] /\ UNCHANGED errors
     \/ /\ c \notin SimpleEscape \cup Octal \cup {"x"}
        /\ Eat("literal", Append(text, "eof")) /\ errors' = TRUE /\ UNCHANGED kind
  /\ UNCHANGED << symbol, noToken >>

EscapeDigits ==
  /\ \/ /\ Ready("octal escape")
        /\ IF c \in Octal /\ kind.octal < 3 THEN Eat("octal escape", text) /\ kind' = [kind EXCEPT !.octal = @ + 1]
           ELSE Go("literal", Append(text, Octals[kind.octal])) /\ UNCHANGED kind
     \/ /\ Ready("hex escape") /\ UNCHANGED kind
        /\ IF c \in HexDigit THEN Eat("hex escape", text) ELSE Go("literal", text)
  /\ UNCHANGED << errors, symbol, noToken >>

-----------------------------------------------------------------------------
(***************************************************************************)
(* lexer_next_token() and the directives                                   *)
(***************************************************************************)
Delivered(for) == Ready("token") /\ want = for

\* Read another token, for this.
Want(for) == want' = for /\ place' = "start" /\ UNCHANGED << source, file, spliced, kind, text, symbol, token >>

Hash == [type |-> "punctuator", text |-> << "#" >>]
Is(type) == token.type = type

NextToken ==
  /\ Delivered("token")
  /\ CASE Is("nl") -> Want("token") /\ UNCHANGED tokens
       [] Is("punctuator") /\ token.text = << "#" >> -> Want("directive") /\ UNCHANGED tokens
       [] Is("eof") -> place' = "done" /\ UNCHANGED << file, source, spliced, kind, text, symbol, want, token, tokens >>
       [] OTHER -> tokens' = Append(tokens, token) /\ Want("token")
  /\ UNCHANGED errors

EndOfDirective == Want("token") /\ UNCHANGED << tokens, errors >>

\* eat_until_newline()
UntilNewline(error) ==
  /\ IF Is("nl") \/ Is("eof") THEN Want("token") ELSE Want("newline")
  /\ errors' = (errors \/ error)
  /\ UNCHANGED tokens

\* The directive counts for the next line. Mutant: for its own.
LineOf_This(n) == n
LineOf(n) == n - 1

LineNumber ==
  IF Is("integer")
  THEN linenr' = LineOf(Number10(token.text)) /\ want' = "file name" /\ place' = "start" /\ UNCHANGED errors
       /\ UNCHANGED << file, input, part, ahead, room, c, at, calls, spliced, kind, text, symbol, token, tokens >>
  ELSE UntilNewline(TRUE)

Word == IF Is("identifier") THEN PPID(token.text) ELSE "none"

Directive ==
  /\ Delivered("directive")
  /\ CASE Is("nl") -> EndOfDirective
       [] Is("integer") -> LineNumber
       [] Word \in {"line", "pragma", "define", "ifdef"} -> Want(Word) /\ UNCHANGED << tokens, errors >>
       \* the rest of the line is read as text
       [] Is("identifier") /\ Word = "error" -> Want("token") /\ errors' = TRUE /\ UNCHANGED tokens
       [] Is("identifier") /\ Word \notin {"line", "pragma", "define", "ifdef", "error"} -> EndOfDirective
       [] OTHER -> UntilNewline(TRUE)

\* Without a name, eat_until_newline() does not see the token that was read.
Define ==
  /\ Delivered("define")
  /\ IF Is("identifier") THEN EndOfDirective ELSE Want("newline") /\ errors' = TRUE /\ UNCHANGED tokens

Ifdef == Delivered("ifdef") /\ EndOfDirective

Line == Delivered("line") /\ LineNumber

FileName == Delivered("file name") /\ IF Is("string") THEN Want("newline") /\ UNCHANGED << tokens, errors >>
                                      ELSE UntilNewline(FALSE)

Newline == Delivered("newline") /\ UntilNewline(FALSE)

\* parse_pragma(): the symbol of the last token that had one is looked up.
Pragma ==
  /\ \E for \in {"pragma", "STDC", "FP_CONTRACT"} : Delivered(for)
  /\ symbol # NULL
  /\ IF << want, PPID(symbol) >> \in {<< "pragma", "STDC" >>, << "STDC", "FP_CONTRACT" >>}
     THEN Want(PPID(symbol)) /\ UNCHANGED << tokens, errors >>
     ELSE UntilNewline(want = "FP_CONTRACT" /\ PPID(symbol) # "ON")

NoSymbol ==
  /\ \E for \in {"pragma", "STDC", "FP_CONTRACT"} : Delivered(for)
  /\ symbol = NULL
  /\ place' = "crashed"
  /\ UNCHANGED << file, source, errors, spliced, kind, text, symbol, want, token, tokens >>

-----------------------------------------------------------------------------
\* An Unread() that does not fit; a digit behind a point always does.
NoRoomForToken ==
  /\ Ready("punctuator") /\ room = 0
  /\ text \in {<< ".", "." >>, << "%", ":", "%" >>} /\ Append(text, c) \notin Known
  /\ at' = "aborted"
  /\ UNCHANGED << kept, calls, errors, lexer >>

Init ==
  /\ InitSource
  /\ place = "start" /\ kind = NoKind /\ text = << >> /\ symbol = NULL
  /\ want = "token" /\ token = [type |-> "none", text |-> << >>, line |-> 0]
  /\ tokens = << >>

Step ==
  \/ Start \/ EndOfToken \/ Symbol \/ PunctuatorToken \/ Comment
  \/ Zero \/ NumberPart \/ EndOfNumberPart \/ Suffix
  \/ LiteralPart \/ Escape \/ EscapeDigits
  \/ NextToken \/ Directive \/ Line \/ FileName \/ Newline \/ Define \/ Ifdef \/ Pragma \/ NoSymbol
  \/ NoRoomForToken

Next == (NextChar /\ UNCHANGED lexer) \/ Step

Spec == Init /\ [][Next]_vars /\ WF_vars(Next)

-----------------------------------------------------------------------------
(***************************************************************************)
(* Properties                                                              *)
(***************************************************************************)

\* What the file means, by the standard.
decoded == IF file.decoder = "UTF-8" THEN utf8(file.bytes)
           ELSE [ok |-> TRUE, chars |-> decode_byte(file.bytes).chars]
Meaning == Tokens(Logical(decoded.chars), LastLine(decoded.chars))

\* A file is read as its tokens, up to the first that is not legal, however
\* its characters are encoded, divided into blocks, spelled with trigraphs,
\* spread over spliced lines and put back; and no error is reported of a
\* legal one, one always of bytes that encode nothing.
TokensOK ==
  place = "done" =>
    IF ~ decoded.ok THEN errors
    ELSE ~ spliced =>
      LET meaning == Meaning
          good == SelectSeq(meaning, LAMBDA t : t.type # "error")
      IN /\ Len(good) <= Len(tokens) /\ (good = meaning => Len(good) = Len(tokens) /\ ~ errors)
         /\ \A k \in DOMAIN good : good[k].type = tokens[k].type /\ good[k].text = tokens[k].text

\* The line of a token is one it is on, or that of what follows it behind
\* spliced lines; a line directive counts for the next line.
LinesOK ==
  place = "done" /\ decoded.ok /\ ~ spliced =>
    LET meaning == Meaning IN
    \A k \in DOMAIN meaning :
      meaning[k].type # "error" => tokens[k].line \in meaning[k].from .. meaning[k].to

\* The file is read to its end.
Terminates == <>(place \in {"done", "crashed"} \/ at = "aborted")

=============================================================================

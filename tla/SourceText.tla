----------------------------- MODULE SourceText -----------------------------
(***************************************************************************)
(* The characters of a source file as the lexer reads them: decoding block *)
(* by block, the buffer with its room to put characters back, trigraphs    *)
(* and spliced lines (src/lexer.c, up to next_char()).                     *)
(*                                                                         *)
(* next_char() and maybe_concat_lines() call each other: calls are the     *)
(* calls of next_char() that wait, by what they do with c then.            *)
(***************************************************************************)
EXTENDS TranslationPhases

CONSTANTS
  Files,        \* files to be read, each with its decoder: [bytes, decoder]
  BUF_SIZE,
  MAX_PUTBACK

ASSUME SourceAssumption == BUF_SIZE \in Nat \ {0} /\ MAX_PUTBACK \in Nat

VARIABLES
  file,     \* the file being read, as a constant
  input,    \* the bytes of it that have not been read
  part,     \* part_decoded_rest_len, or "realign" within a block
  ahead,    \* what the buffer holds from bufpos to bufend
  room,     \* how many characters fit in the buffer before bufpos
  c, linenr,
  at,       \* what next_char() is doing: its 1st, 2nd or 3rd character, or it returned
  calls,
  errors,   \* whether an error has been reported
  spliced   \* a splice met an end of line behind it, or the code one it takes for its half

source == << input, part, ahead, room, c, linenr, at, calls >>

-----------------------------------------------------------------------------
\* decode_utf8(): one byte. rest bytes are missing; 4 of the code is
\* "realign", where bytes are skipped until one that may begin a character.
Decode(state, b) ==
  LET First == IF Ascii(b) THEN [state EXCEPT !.rest = "0", !.chars = Append(@, b)]
               ELSE IF b \in DOMAIN Follow
               THEN [state EXCEPT !.rest = ToString(Follow[b]), !.wrong = (b = "C0")]
               ELSE [state EXCEPT !.rest = "realign", !.errors = TRUE]
  IN CASE state.rest = "0" -> First
       [] state.rest = "realign" -> IF b \in Continuation THEN state ELSE First
       [] OTHER ->
            IF b \notin Continuation THEN [state EXCEPT !.rest = "realign", !.errors = TRUE]
            ELSE CASE state.rest = "1" -> [state EXCEPT !.rest = "0", !.chars = Append(@, "wide"),
                                                        !.errors = @ \/ state.wrong]
                   [] state.rest = "2" -> [state EXCEPT !.rest = "1"]
                   [] state.rest = "3" -> [state EXCEPT !.rest = "2"]

decode_utf8(block) ==
  FoldLeft(Decode, [rest |-> part.rest, wrong |-> part.wrong, chars |-> << >>, errors |-> errors],
           \* the first byte is skipped, whatever it is
           IF part.rest = "realign" THEN Tail(block) ELSE block)

\* One byte, one character.
decode_byte(block) ==
  [rest |-> "0", wrong |-> FALSE, errors |-> errors,
   chars |-> Tuple([i \in DOMAIN block |-> IF Ascii(block[i]) THEN block[i] ELSE "wide"])]

\* decoder() and read_block(); called again where nothing was decoded.
Reading == at \in {"1st", "2nd", "3rd"}

\* Where a block is decoded to.
FillRoom == MAX_PUTBACK

Fill ==
  /\ Reading /\ ahead = << >> /\ input # << >>
  /\ LET n == IF Len(input) < BUF_SIZE THEN Len(input) ELSE BUF_SIZE
         block == SubSeq(input, 1, n)
         decoded == IF file.decoder = "UTF-8" THEN decode_utf8(block) ELSE decode_byte(block)
     IN /\ input' = SubSeq(input, n + 1, Len(input))
        /\ ahead' = decoded.chars
        /\ part' = [rest |-> decoded.rest, wrong |-> decoded.wrong]
        /\ errors' = decoded.errors
  /\ room' = FillRoom
  /\ UNCHANGED << file, c, linenr, at, calls, spliced >>

EndOfFile ==
  /\ Reading /\ ahead = << >> /\ input = << >>
  /\ ahead' = << "eof" >> /\ room' = FillRoom
  /\ errors' = (errors \/ (file.decoder = "UTF-8" /\ part.rest # "0"))
  /\ UNCHANGED << file, input, part, c, linenr, at, calls, spliced >>

-----------------------------------------------------------------------------
(***************************************************************************)
(* next_real_char() and next_char()                                        *)
(***************************************************************************)
unread == << file, input, part, errors, spliced >>

\* The next character is x, and it is taken.
Taken(x) == ahead # << >> /\ x = Head(ahead) /\ ahead' = Tail(ahead) /\ room' = room + 1

\* What next_char() does with a backslash: maybe_concat_lines().
Backslash == calls' = Append(calls, "concat") /\ at' = "1st" /\ UNCHANGED c

Return(x) == c' = x /\ at' = "returned" /\ UNCHANGED calls

FirstChar ==
  /\ at = "1st" /\ ahead # << >>
  /\ \E x \in {Head(ahead)} :
       /\ Taken(x)
       /\ CASE x = "\\" -> Backslash
            [] x = "?" -> at' = "2nd" /\ UNCHANGED << c, calls >>
            [] OTHER -> Return(x)
  /\ UNCHANGED << unread, linenr >>

\* Putting back what was just taken changes nothing.
SecondChar ==
  /\ at = "2nd" /\ ahead # << >>
  /\ IF Head(ahead) = "?"
     THEN Taken("?") /\ at' = "3rd" /\ UNCHANGED << c, calls >>
     ELSE Return("?") /\ UNCHANGED << ahead, room >>
  /\ UNCHANGED << unread, linenr >>

ThirdChar ==
  /\ at = "3rd" /\ ahead # << >>
  /\ \E x \in {Head(ahead)} :
       IF x \in DOMAIN Trigraph
       THEN /\ Taken(x)
            /\ IF Trigraph[x] = "\\" THEN Backslash ELSE Return(Trigraph[x])
       ELSE /\ room > 0   \* put_back() asserts it
            /\ ahead' = << "?" >> \o ahead /\ room' = room - 1
            /\ Return("?")
  /\ UNCHANGED << unread, linenr >>

\* put_back() and its assertion
put_back(x) == room > 0 /\ ahead' = << x >> \o ahead /\ room' = room - 1

Called == at = "returned" /\ calls # << >>
Caller == Last(calls)

\* The code after eat('\\'), and MATCH_NEWLINE, which next_char() and the
\* lexer share.
\* Mutant: the character behind the backslash is lost.
NoSplice_Lost ==
  /\ Called /\ Caller = "concat" /\ c \notin {"nl", "cr"}
  /\ c' = "\\" /\ calls' = Front(calls)
  /\ UNCHANGED << unread, linenr, at, ahead, room >>

NoSplice ==
  /\ Called /\ Caller = "concat" /\ c \notin {"nl", "cr"}
  /\ put_back(c)
  /\ c' = "\\"
  /\ calls' = Front(calls)
  /\ UNCHANGED << unread, linenr, at >>

Splice ==
  /\ Called /\ Caller = "concat" /\ c \in {"nl", "cr"}
  /\ calls' = Append(Front(calls), IF c = "cr" THEN "cr" ELSE "newline")
  /\ at' = "1st"
  /\ UNCHANGED << unread, linenr, c, ahead, room >>

\* The line ends. What comes behind it is c, for the caller as well.
EndOfLine ==
  /\ Called /\ (Caller = "newline" \/ (Caller = "cr" /\ c # "nl"))
  /\ calls' = Front(calls) /\ linenr' = linenr + 1
  /\ spliced' = (spliced \/ (Len(calls) > 1 /\ c \in {"nl", "cr"}))
  /\ UNCHANGED << file, input, part, ahead, room, c, at, errors >>

CarriageReturn ==
  /\ Called /\ Caller = "cr" /\ c = "nl"
  /\ calls' = Append(Front(calls), "newline") /\ at' = "1st"
  /\ UNCHANGED << unread, linenr, c, ahead, room >>

\* A character to put back does not fit.
NoRoom ==
  /\ room = 0
  /\ \/ at = "3rd" /\ ahead # << >> /\ Head(ahead) \notin DOMAIN Trigraph
     \/ Called /\ Caller = "concat" /\ c \notin {"nl", "cr"}
  /\ at' = "aborted"
  /\ UNCHANGED << file, input, part, ahead, room, c, linenr, calls, errors, spliced >>

NextChar ==
  \/ Fill \/ EndOfFile \/ FirstChar \/ SecondChar \/ ThirdChar
  \/ NoSplice \/ Splice \/ CarriageReturn \/ EndOfLine \/ NoRoom

\* lexer_open_stream(): c is a virtual end of line.
InitSource ==
  /\ file \in Files
  /\ input = file.bytes
  /\ part = [rest |-> "0", wrong |-> FALSE]
  /\ ahead = << >> /\ room = 0
  /\ c = "nl" /\ linenr = 0
  /\ at = "returned" /\ calls = << >>
  /\ errors = FALSE /\ spliced = FALSE
=============================================================================
